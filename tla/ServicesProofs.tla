--------------------------- MODULE ServicesProofs ---------------------------
(***************************************************************************)
(* The services around the event store, for any accounts, projects,        *)
(* requests and limits: organizations with their members, invites and      *)
(* sessions, saved resources, the flag cache, the sign-in throttle, the    *)
(* importer, the storage bootstrap, experience continuity and the          *)
(* evaluation of flags.                                                    *)
(***************************************************************************)
EXTENDS MCServices, SequenceTheorems, FiniteSetTheorems, NaturalFacts, TLAPS

-----------------------------------------------------------------------------
(* Organizations, members, invites and sessions.                            *)

InviteRow == [id : Tokens, org : Orgs, email : Users, role : Roles, exp : Nat]
KeyRow == [n : 1..MaxKeys, user : Users]
SessionRow == [exp : Nat, pv : Nat]

\* The sessions an account may have: none before it exists.
SessionOf(b, u) == {s \in SessionRow : u \in b.users}

Tables(b) ==
    /\ b = [users |-> b.users, pw |-> b.pw, orgs |-> b.orgs, role |-> b.role,
            projects |-> b.projects, invites |-> b.invites, sessions |-> b.sessions,
            keys |-> b.keys]
    /\ b.users \subseteq Users /\ b.pw \in [Users -> Nat]
    /\ b.orgs \subseteq Orgs /\ b.role \in [Orgs -> [Users -> Roles \cup {"none"}]]
    /\ b.projects \in [Orgs -> Nat]
    /\ b.invites \subseteq InviteRow /\ b.keys \subseteq KeyRow
    /\ b.sessions \in [Users -> Seq(SessionRow)]

\* What a request carries from one command to the next.
Authed == [pc : {"authed"}, p : [user : Users, session : BOOLEAN]]
SetupJob == [kind : {"setup"}, user : Users, claim : Orgs \cup {None, "unknown"}]
LoginJob == [kind : {"login"}, user : Users, known : BOOLEAN, pv : Nat]
AcceptJob == [kind : {"accept"}, invite : InviteRow, user : Users, known : BOOLEAN, pv : Nat]
Hashing == [pc : {"hashing"}, job : SetupJob \cup LoginJob \cup AcceptJob]

Shapes ==
    /\ Tables(db)
    /\ req \in [Reqs -> {Idle} \cup Authed \cup Hashing]
    /\ server \in {"up", "drained", "down"}
    /\ now \in Nat /\ minted \in Nat /\ setups \in Nat /\ ended \in [Tokens -> Nat]

\* Whoever has a key, a session or an invite comes after the setup.
AccountsOK ==
    /\ \A u \in Users : db.sessions[u] \in Seq(SessionOf(db, u))
    /\ \A k \in db.keys : k.user \in db.users
    /\ db.invites # {} => db.users # {}
    /\ db.users = {} => setups = 0

\* An invite that is stored has not ended, and its token is its own.
InvitesOK ==
    /\ \A i \in db.invites : i.id <= minted /\ ended[i.id] = 0
    /\ \A i, j \in db.invites : i.id = j.id => i = j
    /\ \A t \in Tokens : t > minted => ended[t] = 0

\* A request acts for an account; an accept that looked an invite up finds the
\* same row under its token, or none.
Fits(v) ==
    /\ v.pc = "authed" => v.p.user \in db.users
    /\ v.pc = "hashing" /\ v.job.kind = "login" /\ v.job.known => v.job.user \in db.users
    /\ v.pc = "hashing" /\ v.job.kind = "accept" =>
         /\ v.job.user = v.job.invite.email /\ v.job.invite.id <= minted
         /\ \A i \in db.invites : i.id = v.job.invite.id => i = v.job.invite
RequestsOK == \A r \in Reqs : Fits(req[r])

Inv == Shapes /\ AccountsOK /\ InvitesOK /\ RequestsOK /\ OrgKeepsOwner /\ UsedOnce

-----------------------------------------------------------------------------
(* Sessions.                                                                *)

\* Purging expired sessions keeps rows of s only.
LEMMA LiveRows ==
    ASSUME NEW S, NEW s \in Seq(S)
    PROVE  Live(s) \in Seq(S)
<1> DEFINE Unfold(f, i) == IF i = 0 THEN <<>>
                          ELSE IF s[i].exp > now THEN Append(f[i - 1], s[i]) ELSE f[i - 1]
           Purges(f, n) == f = [i \in 0..n |-> Unfold(f, i)]
           N == Len(s)
           HasTable(n) == \E f : Purges(f, n)
<1>1. N \in Nat /\ \A i \in 1..N : s[i] \in S
  OBVIOUS
<1>2. HasTable(N)
  <2> DEFINE T == {n \in Nat : n <= N /\ ~HasTable(n)}
  <2> SUFFICES ASSUME T # {} PROVE FALSE
    <3> HIDE DEF HasTable, N
    <3> QED BY <1>1
  <2>1. PICK n \in T : \A m \in T : n <= m
    <3>1. T \subseteq Nat
      OBVIOUS
    <3> HIDE DEF T
    <3> QED BY <3>1, LeastNatural
  <2>2. CASE n = 0
    <3> DEFINE z == [i \in 0..0 |-> <<>>]
    <3>1. \A i \in 0..0 : Unfold(z, i) = <<>>
      OBVIOUS
    <3>2. Purges(z, 0)
      BY <3>1
    <3>3. HasTable(0)
      BY <3>2
    <3> HIDE DEF HasTable
    <3> QED BY <2>1, <2>2, <3>3
  <2>3. CASE n # 0
    <3>1. HasTable(n - 1)
      <4> HIDE DEF HasTable, N
      <4> QED BY <1>1, <2>1, <2>3
    <3>2. PICK f : Purges(f, n - 1)
      BY <3>1
    <3> DEFINE g == [i \in 0..n |-> IF i = n THEN Unfold(f, n) ELSE f[i]]
    <3>3. \A i \in 0..n : i # 0 => i - 1 \in 0..(n - 1) /\ g[i - 1] = f[i - 1]
      BY <2>1
    <3>4. \A i \in 0..n : Unfold(g, i) = Unfold(f, i)
      BY <3>3
    <3>5. \A i \in 0..n : i # n => i \in 0..(n - 1) /\ f[i] = Unfold(f, i)
      <4>1. \A i \in 0..n : i # n => i \in 0..(n - 1)
        BY <2>1
      <4>2. \A i \in 0..(n - 1) : f[i] = Unfold(f, i)
        <5> HIDE DEF Unfold
        <5> QED BY <3>2
      <4> HIDE DEF Unfold
      <4> QED BY <4>1, <4>2
    <3>6. \A i \in 0..n : g[i] = Unfold(g, i)
      BY <3>4, <3>5
    <3>7. Purges(g, n)
      BY <3>6
    <3>8. HasTable(n)
      BY <3>7
    <3> HIDE DEF HasTable
    <3> QED BY <2>1, <3>8
  <2> QED BY <2>2, <2>3
<1> DEFINE f == CHOOSE f : Purges(f, N)
<1>3. Purges(f, N)
  BY <1>2
<1>4. Live(s) = f[N]
  BY DEF Live
<1> HIDE DEF f
<1>5. \A i \in 0..N : f[i] \in Seq(S)
  <2> DEFINE T == {n \in 0..N : f[n] \notin Seq(S)}
  <2> SUFFICES ASSUME T # {} PROVE FALSE
    OBVIOUS
  <2>1. PICK n \in T : \A m \in T : n <= m
    <3>1. T \subseteq Nat
      BY <1>1
    <3> HIDE DEF T
    <3> QED BY <3>1, LeastNatural
  <2>2. f[n] = Unfold(f, n)
    BY <1>3, <2>1
  <2>3. n # 0 => n - 1 \in 0..N /\ f[n - 1] \in Seq(S) /\ s[n] \in S
    BY <1>1, <2>1
  <2>4. Unfold(f, n) \in Seq(S)
    BY <2>1, <2>3
  <2> QED BY <2>1, <2>2, <2>4
<1> QED BY <1>1, <1>4, <1>5

\* Deleting a row keeps the others.
LEMMA WithoutRow ==
    ASSUME NEW S, NEW s \in Seq(S), NEW i \in 1..Len(s)
    PROVE  SubSeq(s, 1, i - 1) \o SubSeq(s, i + 1, Len(s)) \in Seq(S)
<1>1. i \in Nat /\ Len(s) \in Nat
  OBVIOUS
<1>2. SubSeq(s, 1, i - 1) \in Seq(S)
  BY <1>1
<1>3. SubSeq(s, i + 1, Len(s)) \in Seq(S)
  BY <1>1
<1> QED BY <1>2, <1>3

\* The newest rows are at most MaxSessions, the last one among them.
LEMMA NewestRows ==
    ASSUME NEW S, NEW s \in Seq(S), s # <<>>
    PROVE  LET t == NewestSessions(s)
           IN t \in Seq(S) /\ t # <<>> /\ t[Len(t)] = s[Len(s)] /\ Len(t) <= MaxSessions
<1>1. Len(s) \in Nat /\ Len(s) > 0 /\ MaxSessions \in Nat /\ MaxSessions > 0
  BY LimitsAssumption
<1> DEFINE m == IF Len(s) > MaxSessions THEN Len(s) - MaxSessions + 1 ELSE 1
           t == SubSeq(s, m, Len(s))
<1>2. m \in 1..Len(s) /\ Len(s) - m + 1 <= MaxSessions
  BY <1>1
<1> HIDE DEF m
<1>3. t \in Seq(S) /\ Len(t) = Len(s) - m + 1 /\ t[Len(t)] = s[Len(s)]
  BY <1>1, <1>2
<1>4. t # <<>>
  <2>1. Len(t) # 0
    BY <1>1, <1>2, <1>3
  <2> HIDE DEF t
  <2> QED BY <2>1
<1> QED BY <1>2, <1>3, <1>4 DEF NewestSessions, m

\* start_session keeps rows that are there and adds one for u, which is live.
LEMMA StartsSession ==
    ASSUME NEW b, Tables(b), NEW u \in Users, NEW pv, NEW S,
           \A v \in Users : b.sessions[v] \in Seq(S[v]),
           [exp |-> now + SessionTtl, pv |-> pv] \in S[u]
    PROVE  LET F == start_session(b, u, pv).sessions
           IN /\ F = [v \in Users |-> F[v]]
              /\ \A v \in Users : F[v] \in Seq(S[v])
              /\ F[u] # <<>> /\ F[u][Len(F[u])].exp = now + SessionTtl /\ Len(F[u]) <= MaxSessions
<1> DEFINE row == [exp |-> now + SessionTtl, pv |-> pv]
           a == Append(Live(b.sessions[u]), row)
           F == [v \in Users |-> IF v = u THEN NewestSessions(a) ELSE Live(b.sessions[v])]
<1>1. start_session(b, u, pv).sessions = F
  BY DEF start_session, Tables
<1>2. \A v \in Users : Live(b.sessions[v]) \in Seq(S[v])
  BY LiveRows
<1>3. a \in Seq(S[u]) /\ a # <<>> /\ a[Len(a)] = row
  <2> DEFINE l == Live(b.sessions[u])
  <2>1. l \in Seq(S[u]) /\ row \in S[u] /\ a = Append(l, row)
    BY <1>2
  <2> HIDE DEF l, a, row
  <2>2. a \in Seq(S[u]) /\ Len(a) = Len(l) + 1 /\ Len(l) \in Nat /\ a[Len(l) + 1] = row
    BY <2>1
  <2>3. Len(a) # 0
    BY <2>2
  <2> QED BY <2>2, <2>3
<1>4. LET t == NewestSessions(a)
      IN t \in Seq(S[u]) /\ t # <<>> /\ t[Len(t)] = row /\ Len(t) <= MaxSessions
  <2> HIDE DEF a
  <2> QED BY <1>3, NewestRows
<1>5. /\ F[u] = NewestSessions(a) /\ \A v \in Users : v # u => F[v] = Live(b.sessions[v])
      /\ F = [v \in Users |-> F[v]] /\ row.exp = now + SessionTtl
  OBVIOUS
<1> HIDE DEF row, a, F
<1>6. \A v \in Users : F[v] \in Seq(S[v])
  BY <1>2, <1>4, <1>5
<1>7. F[u] # <<>> /\ F[u][Len(F[u])].exp = now + SessionTtl /\ Len(F[u]) <= MaxSessions
  BY <1>4, <1>5
<1> QED BY <1>1, <1>5, <1>6, <1>7

-----------------------------------------------------------------------------
(* Requests.                                                                *)

\* A request that is answered leaves the others as they are.
LEMMA AnsweredKeeps ==
    ASSUME Inv, NEW r \in Reqs, req' = [req EXCEPT ![r] = Idle]
    PROVE  /\ req' \in [Reqs -> {Idle} \cup Authed \cup Hashing]
           /\ \A x \in Reqs : req'[x] = req[x] \/ req'[x] = Idle
BY DEF Inv, Shapes

\* Requests under way still fit after any command: accounts stay, and a new
\* invite has a new token.
LEMMA RequestsKeep ==
    ASSUME Inv, db.users \subseteq db'.users, minted' \in Nat, minted <= minted',
           db'.invites \subseteq InviteRow,
           \A i \in db'.invites : i \in db.invites \/ i.id > minted,
           \A x \in Reqs : req'[x] = req[x] \/ req'[x] = Idle
    PROVE  RequestsOK'
<1> SUFFICES ASSUME NEW r \in Reqs PROVE Fits(req[r])'
  BY DEF RequestsOK
<1>1. CASE req'[r] = Idle
  BY <1>1 DEF Fits, Idle
<1>2. CASE req'[r] = req[r]
  <2>1. Fits(req[r]) /\ minted \in Nat
    BY DEF Inv, RequestsOK, Shapes
  <2>2. ASSUME req[r].pc = "hashing", req[r].job.kind = "accept"
        PROVE  req[r].job.invite.id \in Nat
    <3>1. req[r] \in Hashing
      BY <2>2 DEF Inv, Shapes, Idle, Authed
    <3>2. req[r].job \in AcceptJob
      BY <2>2, <3>1 DEF Hashing, SetupJob, LoginJob
    <3> QED BY <3>2 DEF AcceptJob, InviteRow, Tokens
  <2>3. \A i \in InviteRow : i.id \in Nat
    BY DEF InviteRow, Tokens
  <2> QED BY <1>2, <2>1, <2>2, <2>3 DEF Fits
<1> QED BY <1>1, <1>2

\* The steps that only change what requests carry, the clock or the server.
LEMMA WaitingKeeps ==
    ASSUME Inv, UNCHANGED <<db, minted, ended, setups>>,
           req' \in [Reqs -> {Idle} \cup Authed \cup Hashing], RequestsOK',
           server' \in {"up", "drained", "down"}, now' \in Nat
    PROVE  Inv'
<1>1. Shapes' /\ AccountsOK' /\ InvitesOK'
  BY DEF Inv, Shapes, AccountsOK, InvitesOK, Tables, SessionOf
<1>2. OrgKeepsOwner' /\ UsedOnce'
  BY DEF Inv, OrgKeepsOwner, Owners, UsedOnce, InviteSingleUse, SetupOnce
<1> QED BY <1>1, <1>2 DEF Inv

\* A request comes in, gives up or is dropped; time passes; the server stops.
LEMMA ArrivalsKeep ==
    ASSUME Inv, NEW r \in Reqs, NEW v \in {Idle} \cup Authed \cup Hashing, Fits(v),
           req' = [req EXCEPT ![r] = v], UNCHANGED <<db, minted, ended, setups, server, now>>
    PROVE  Inv'
<1>1. req' \in [Reqs -> {Idle} \cup Authed \cup Hashing]
  BY DEF Inv, Shapes
<1>2. RequestsOK'
  BY DEF Inv, Shapes, RequestsOK, Fits
<1> QED BY <1>1, <1>2, WaitingKeeps DEF Inv, Shapes

\* Every step that leaves the tables alone.
LEMMA QuietSteps ==
    ASSUME Inv, NEW r \in Reqs,
           \/ GiveUp(r) \/ \E u \in Users : AuthenticateSession(r, u) \/ SetupBegins(r, u) \/ LoginBegins(r, u)
           \/ \E k \in db.keys : AuthenticateKey(r, k)
           \/ \E i \in db.invites : AcceptBegins(r, i) /\ i.exp > now
    PROVE  Inv'
<1>0. /\ \A u \in Users : db.sessions[u] \in Seq(SessionOf(db, u)) /\ db.pw[u] \in Nat
      /\ db.keys \subseteq KeyRow /\ \A k \in db.keys : k.user \in db.users
      /\ db.invites \subseteq InviteRow /\ db.users \subseteq Users
  BY DEF Inv, Shapes, AccountsOK, Tables
<1>1. CASE GiveUp(r)
  BY <1>1, ArrivalsKeep DEF GiveUp, observed, Fits, Idle
<1>2. ASSUME NEW u \in Users, AuthenticateSession(r, u) PROVE Inv'
  <2> DEFINE v == [pc |-> "authed", p |-> [user |-> u, session |-> TRUE]]
  <2>1. u \in db.users
    <3>1. PICK i \in 1..Len(db.sessions[u]) : db.sessions[u][i].exp > now
      BY <1>2 DEF AuthenticateSession
    <3>2. db.sessions[u][i] \in SessionOf(db, u)
      BY <1>0, <3>1
    <3> QED BY <3>2 DEF SessionOf
  <2>2. v \in Authed /\ Fits(v)
    BY <2>1 DEF Authed, Fits
  <2>3. req' = [req EXCEPT ![r] = v] /\ UNCHANGED <<db, minted, ended, setups, server, now>>
    BY <1>2 DEF AuthenticateSession, observed
  <2> HIDE DEF v
  <2> QED BY <2>2, <2>3, ArrivalsKeep
<1>3. ASSUME NEW k \in db.keys, AuthenticateKey(r, k) PROVE Inv'
  <2> DEFINE v == [pc |-> "authed", p |-> [user |-> k.user, session |-> FALSE]]
  <2>1. v \in Authed /\ Fits(v)
    BY <1>0 DEF Authed, Fits
  <2>2. req' = [req EXCEPT ![r] = v] /\ UNCHANGED <<db, minted, ended, setups, server, now>>
    BY <1>3 DEF AuthenticateKey, observed
  <2> HIDE DEF v
  <2> QED BY <2>1, <2>2, ArrivalsKeep
<1>4. ASSUME NEW u \in Users, SetupBegins(r, u) PROVE Inv'
  <2>1. PICK claim \in Orgs \cup {None, "unknown"} :
            Start(r, [kind |-> "setup", user |-> u, claim |-> claim])
    BY <1>4 DEF SetupBegins
  <2> DEFINE v == [pc |-> "hashing", job |-> [kind |-> "setup", user |-> u, claim |-> claim]]
  <2>2. v \in Hashing /\ Fits(v)
    BY DEF Hashing, SetupJob, Fits
  <2>3. req' = [req EXCEPT ![r] = v] /\ UNCHANGED <<db, minted, ended, setups, server, now>>
    BY <1>4, <2>1 DEF SetupBegins, Start
  <2> HIDE DEF v
  <2> QED BY <2>2, <2>3, ArrivalsKeep
<1>5. ASSUME NEW u \in Users, LoginBegins(r, u) PROVE Inv'
  <2> DEFINE j == [kind |-> "login", user |-> u, known |-> u \in db.users, pv |-> db.pw[u]]
             v == [pc |-> "hashing", job |-> j]
  <2>1. j \in LoginJob
    BY <1>0 DEF LoginJob
  <2>2. v \in Hashing /\ Fits(v)
    BY <2>1 DEF Hashing, Fits
  <2>3. req' = [req EXCEPT ![r] = v] /\ UNCHANGED <<db, minted, ended, setups, server, now>>
    BY <1>5 DEF LoginBegins, Start
  <2> HIDE DEF v
  <2> QED BY <2>2, <2>3, ArrivalsKeep
<1>6. ASSUME NEW i \in db.invites, AcceptBegins(r, i), i.exp > now PROVE Inv'
  <2> DEFINE j == [kind |-> "accept", invite |-> i, user |-> i.email,
                   known |-> i.email \in db.users, pv |-> db.pw[i.email]]
             v == [pc |-> "hashing", job |-> j]
  <2>1. i \in InviteRow /\ i.email \in Users /\ db.pw[i.email] \in Nat
    BY <1>0 DEF InviteRow
  <2>2. j \in AcceptJob
    BY <2>1 DEF AcceptJob
  <2>3. /\ i.id <= minted /\ \A x \in db.invites : x.id = i.id => x = i
    BY DEF Inv, InvitesOK
  <2>4. v \in Hashing /\ Fits(v)
    BY <2>2, <2>3 DEF Hashing, Fits
  <2>5. req' = [req EXCEPT ![r] = v] /\ UNCHANGED <<db, minted, ended, setups, server, now>>
    BY <1>6 DEF AcceptBegins, Start
  <2> HIDE DEF v
  <2> QED BY <2>4, <2>5, ArrivalsKeep
<1> QED BY <1>1, <1>2, <1>3, <1>4, <1>5, <1>6

\* The clock, the end of the server and its restart.
LEMMA ServerSteps ==
    ASSUME Inv, Tick \/ ReleaseWriterLock \/ Stop \/ Restart
    PROVE  Inv'
<1>1. UNCHANGED <<db, minted, ended, setups>>
  BY DEF Tick, ReleaseWriterLock, Stop, Restart, observed
<1>2. server' \in {"up", "drained", "down"} /\ now' \in Nat
  BY DEF Inv, Shapes, Tick, ReleaseWriterLock, Stop, Restart
<1>3. req' = req \/ req' = [x \in Reqs |-> Idle]
  BY DEF Tick, ReleaseWriterLock, Stop, Restart
<1>4. req' \in [Reqs -> {Idle} \cup Authed \cup Hashing] /\ \A x \in Reqs : req'[x] = req[x] \/ req'[x] = Idle
  BY <1>3 DEF Inv, Shapes
<1>5. RequestsOK'
  BY <1>1, <1>4, RequestsKeep DEF Inv, Shapes, Tables
<1> QED BY <1>1, <1>2, <1>4, <1>5, WaitingKeeps

-----------------------------------------------------------------------------
(* Commands.                                                                *)

\* Who runs a command after authenticating: an account.
LEMMA Principals ==
    ASSUME Inv, NEW r \in Reqs, req[r].pc = "authed"
    PROVE  /\ Principal(r).user \in db.users /\ Principal(r).user \in Users
           /\ Principal(r).session \in BOOLEAN
<1>1. req[r] \in Authed
  BY DEF Inv, Shapes, Idle, Hashing
<1>2. Fits(req[r]) /\ db.users \subseteq Users
  BY DEF Inv, RequestsOK, Shapes, Tables
<1> QED BY <1>1, <1>2 DEF Authed, Fits, Principal

\* What is left to show of a command that touches no invite and no account.
LEMMA PlainCommand ==
    ASSUME Inv, NEW r \in Reqs, req' = [req EXCEPT ![r] = Idle],
           UNCHANGED <<server, now, minted, ended, setups>>, Tables(db'),
           db'.users = db.users, db'.invites = db.invites,
           \A u \in Users : db'.sessions[u] \in Seq(SessionOf(db, u)),
           \A k \in db'.keys : k.user \in db.users,
           OrgKeepsOwner'
    PROVE  Inv'
<1>1. Shapes'
  BY AnsweredKeeps DEF Inv, Shapes
<1>2. AccountsOK' /\ InvitesOK' /\ UsedOnce'
  BY DEF Inv, AccountsOK, InvitesOK, UsedOnce, InviteSingleUse, SetupOnce, SessionOf
<1>3. RequestsOK'
  BY <1>1, AnsweredKeeps, RequestsKeep DEF Inv, Shapes, Tables
<1> QED BY <1>1, <1>2, <1>3 DEF Inv

\* Commands on sessions: log in, log out, find a session expired.
LEMMA SessionCommands ==
    ASSUME Inv, NEW r \in Reqs,
           \/ StartSession(r) \/ \E i \in 1..MaxSessions : Logout(r, i)
           \/ \E u \in Users, i \in 1..MaxSessions : AuthenticateExpired(r, u, i)
    PROVE  Inv'
<1>0. /\ Tables(db) /\ now \in Nat /\ SessionTtl \in Nat
      /\ \A u \in Users : db.sessions[u] \in Seq(SessionOf(db, u))
      /\ \A k \in db.keys : k.user \in db.users
  BY LimitsAssumption DEF Inv, Shapes, AccountsOK
<1>1. ASSUME NEW F, db' = [db EXCEPT !.sessions = F], F = [u \in Users |-> F[u]],
             \A u \in Users : F[u] \in Seq(SessionOf(db, u)),
             req' = [req EXCEPT ![r] = Idle], UNCHANGED <<server, now, minted, ended, setups>>
      PROVE  Inv'
  <2>1. \A u \in Users : F[u] \in Seq(SessionRow)
    <3>1. \A u \in Users : SessionOf(db, u) \subseteq SessionRow
      BY DEF SessionOf
    <3> QED BY <1>1, <3>1
  <2>2. F \in [Users -> Seq(SessionRow)]
    BY <1>1, <2>1
  <2>3. Tables(db') /\ db'.users = db.users /\ db'.invites = db.invites /\ db'.sessions = F
        /\ db'.keys = db.keys /\ db'.role = db.role /\ db'.orgs = db.orgs
    BY <1>0, <1>1, <2>2 DEF Tables
  <2>4. OrgKeepsOwner'
    BY <2>3 DEF Inv, OrgKeepsOwner, Owners
  <2> QED BY <1>0, <1>1, <2>3, <2>4, PlainCommand
<1>2. CASE StartSession(r)
  <2> DEFINE u == req[r].job.user
             c == start_session(db, u, req[r].job.pv)
             S == [v \in Users |-> SessionOf(db, v)]
  <2>1. req[r].pc = "hashing" /\ req[r].job.kind = "login" /\ req[r].job.known
    BY <1>2 DEF StartSession, Ready
  <2>2. req[r] \in Hashing
    BY <2>1 DEF Inv, Shapes, Idle, Authed
  <2>3. req[r].job \in LoginJob
    BY <2>1, <2>2 DEF Hashing, SetupJob, AcceptJob
  <2>4. u \in Users /\ req[r].job.pv \in Nat /\ u \in db.users
    BY <2>1, <2>3 DEF LoginJob, Inv, RequestsOK, Fits
  <2>5. [exp |-> now + SessionTtl, pv |-> req[r].job.pv] \in S[u]
    BY <1>0, <2>4 DEF SessionOf, SessionRow
  <2>6. \A v \in Users : db.sessions[v] \in Seq(S[v])
    BY <1>0
  <2>7. db' = c /\ req' = [req EXCEPT ![r] = Idle] /\ UNCHANGED <<server, now, minted, ended, setups>>
    BY <1>2 DEF StartSession, Answer, observed
  <2>8. c = [db EXCEPT !.sessions = c.sessions]
    BY <1>0 DEF start_session, Tables
  <2> DEFINE pv == req[r].job.pv
  <2> HIDE DEF S, u, pv
  <2>9. c.sessions = [v \in Users |-> c.sessions[v]] /\ \A v \in Users : c.sessions[v] \in Seq(S[v])
    <3>1. Tables(db) /\ u \in Users /\ [exp |-> now + SessionTtl, pv |-> pv] \in S[u]
      BY <1>0, <2>4, <2>5 DEF pv
    <3>2. LET F == start_session(db, u, pv).sessions
          IN F = [v \in Users |-> F[v]] /\ \A v \in Users : F[v] \in Seq(S[v])
      BY <2>6, <3>1, StartsSession
    <3> QED BY <3>2 DEF pv
  <2> HIDE DEF c
  <2>10. \A v \in Users : c.sessions[v] \in Seq(SessionOf(db, v))
    BY <2>9 DEF S
  <2> QED BY <1>1, <2>7, <2>8, <2>9, <2>10
<1>3. ASSUME NEW u \in Users, NEW i \in 1..Len(db.sessions[u]),
             db' = [db EXCEPT !.sessions[u] = SubSeq(@, 1, i - 1) \o SubSeq(@, i + 1, Len(@))],
             req' = [req EXCEPT ![r] = Idle], UNCHANGED <<server, now, minted, ended, setups>>
      PROVE  Inv'
  <2> DEFINE s == SubSeq(db.sessions[u], 1, i - 1) \o SubSeq(db.sessions[u], i + 1, Len(db.sessions[u]))
             F == [db.sessions EXCEPT ![u] = s]
  <2>1. s \in Seq(SessionOf(db, u))
    BY <1>0, WithoutRow
  <2>2. db' = [db EXCEPT !.sessions = F]
    BY <1>3
  <2> HIDE DEF s
  <2>3. F = [v \in Users |-> F[v]]
        /\ \A v \in Users : F[v] \in Seq(SessionOf(db, v))
    BY <1>0, <2>1 DEF Tables
  <2> HIDE DEF F
  <2> QED BY <1>1, <1>3, <2>2, <2>3
<1>4. ASSUME NEW i \in 1..MaxSessions, Logout(r, i) PROVE Inv'
  <2>1. Principal(r).user \in Users
    BY <1>4, Principals DEF Logout
  <2> QED BY <1>3, <1>4, <2>1 DEF Logout, Command, Answer, observed
<1>5. ASSUME NEW u \in Users, NEW i \in 1..MaxSessions, AuthenticateExpired(r, u, i) PROVE Inv'
  BY <1>3, <1>5 DEF AuthenticateExpired, Answer, observed
<1> QED BY <1>2, <1>4, <1>5

\* Commands on personal keys and projects.
LEMMA KeyCommands ==
    ASSUME Inv, NEW r \in Reqs,
           \/ \E n \in 1..MaxKeys : create_personal_key(r, n)
           \/ \E k \in db.keys : RevokePersonalKey(r, k)
           \/ \E o \in Orgs : create_project(r, o)
    PROVE  Inv'
<1>0. /\ Tables(db) /\ \A u \in Users : db.sessions[u] \in Seq(SessionOf(db, u))
      /\ \A k \in db.keys : k.user \in db.users
  BY DEF Inv, Shapes, AccountsOK
<1>1. req[r].pc = "authed" /\ req' = [req EXCEPT ![r] = Idle]
      /\ UNCHANGED <<server, now, minted, ended, setups>>
  BY DEF create_personal_key, RevokePersonalKey, create_project, Command, Answer, observed
<1>2. Principal(r).user \in db.users /\ Principal(r).user \in Users
  BY <1>1, Principals
<1>3. ASSUME NEW n \in 1..MaxKeys, create_personal_key(r, n) PROVE Inv'
  <2> DEFINE k == [n |-> n, user |-> Principal(r).user]
  <2>1. db' = [db EXCEPT !.keys = @ \cup {k}]
    BY <1>3 DEF create_personal_key, Command, Answer
  <2>2. k \in KeyRow /\ k.user \in db.users
    BY <1>2 DEF KeyRow
  <2> HIDE DEF k
  <2>3. /\ Tables(db') /\ db'.users = db.users /\ db'.invites = db.invites
        /\ db'.sessions = db.sessions /\ db'.keys = db.keys \cup {k}
        /\ db'.role = db.role /\ db'.orgs = db.orgs
    BY <1>0, <2>1, <2>2 DEF Tables
  <2>4. OrgKeepsOwner'
    BY <2>3 DEF Inv, OrgKeepsOwner, Owners
  <2> QED BY <1>0, <1>1, <2>2, <2>3, <2>4, PlainCommand
<1>4. ASSUME NEW k \in db.keys, RevokePersonalKey(r, k) PROVE Inv'
  <2>1. db' = [db EXCEPT !.keys = @ \ {k}]
    BY <1>4 DEF RevokePersonalKey, Command, Answer
  <2>2. /\ Tables(db') /\ db'.users = db.users /\ db'.invites = db.invites
        /\ db'.sessions = db.sessions /\ db'.keys = db.keys \ {k}
        /\ db'.role = db.role /\ db'.orgs = db.orgs
    BY <1>0, <2>1 DEF Tables
  <2>3. OrgKeepsOwner'
    BY <2>2 DEF Inv, OrgKeepsOwner, Owners
  <2> QED BY <1>0, <1>1, <2>2, <2>3, PlainCommand
<1>5. ASSUME NEW o \in Orgs, create_project(r, o) PROVE Inv'
  <2>1. db' = [db EXCEPT !.projects[o] = @ + 1]
    BY <1>5 DEF create_project, Command, Answer
  <2> DEFINE P == [db.projects EXCEPT ![o] = @ + 1]
  <2>2. db' = [db EXCEPT !.projects = P] /\ P \in [Orgs -> Nat]
    BY <1>0, <2>1 DEF Tables
  <2> HIDE DEF P
  <2>3. /\ Tables(db') /\ db'.users = db.users /\ db'.invites = db.invites
        /\ db'.sessions = db.sessions /\ db'.keys = db.keys
        /\ db'.role = db.role /\ db'.orgs = db.orgs
    BY <1>0, <2>2 DEF Tables
  <2>4. OrgKeepsOwner'
    BY <2>3 DEF Inv, OrgKeepsOwner, Owners
  <2> QED BY <1>0, <1>1, <2>3, <2>4, PlainCommand
<1> QED BY <1>3, <1>4, <1>5

\* If an owner goes and was not the only one, another stays.
LEMMA AnotherOwner ==
    ASSUME NEW o \in Orgs, NEW u \in Users, db.role[o][u] = "owner",
           LastOwnerStays(db, o, db.role[o][u])
    PROVE  \E v \in Owners(db, o) : v # u
<1> SUFFICES ASSUME \A v \in Owners(db, o) : v = u PROVE FALSE
  OBVIOUS
<1>1. Owners(db, o) = {u}
  BY DEF Owners
<1>2. Cardinality({u}) = 1
  BY FS_Singleton
<1> QED BY <1>1, <1>2 DEF LastOwnerStays

\* Commands on members.
LEMMA MemberCommands ==
    ASSUME Inv, NEW r \in Reqs,
           \/ \E o \in Orgs : create_organization(r, o)
           \/ \E o \in Orgs, u \in Users, new \in Roles : update_member_role(r, o, u, new)
           \/ \E o \in Orgs, u \in Users : remove_member(r, o, u)
    PROVE  Inv'
<1>0. /\ Tables(db) /\ \A u \in Users : db.sessions[u] \in Seq(SessionOf(db, u))
      /\ \A k \in db.keys : k.user \in db.users
  BY DEF Inv, Shapes, AccountsOK
<1>1. req[r].pc = "authed" /\ req' = [req EXCEPT ![r] = Idle]
      /\ UNCHANGED <<server, now, minted, ended, setups>>
  BY DEF create_organization, update_member_role, remove_member, Command, Answer, observed
<1>2. Principal(r).user \in db.users /\ Principal(r).user \in Users
  BY <1>1, Principals
<1>3. ASSUME NEW o \in Orgs, create_organization(r, o) PROVE Inv'
  <2>1. db' = [db EXCEPT !.orgs = @ \cup {o}, !.role[o][Principal(r).user] = "owner"]
    BY <1>3 DEF create_organization, Command, Answer
  <2>2. /\ Tables(db') /\ db'.users = db.users /\ db'.invites = db.invites
        /\ db'.sessions = db.sessions /\ db'.keys = db.keys /\ db'.orgs = db.orgs \cup {o}
        /\ db'.role = [db.role EXCEPT ![o][Principal(r).user] = "owner"]
    BY <1>0, <1>2, <2>1 DEF Tables, Roles
  <2>3. OrgKeepsOwner'
    <3>1. \A x \in Orgs : Owners(db, x) \subseteq Owners(db', x)
      BY <1>0, <2>2 DEF Owners, Tables
    <3>2. Principal(r).user \in Owners(db', o)
      BY <1>0, <1>2, <2>2 DEF Owners, Tables
    <3> QED BY <1>0, <1>2, <2>2, <3>1, <3>2 DEF Inv, OrgKeepsOwner, Tables
  <2> QED BY <1>0, <1>1, <2>2, <2>3, PlainCommand
<1>4. ASSUME NEW o \in Orgs, NEW u \in Users, NEW x \in Roles \cup {"none"},
             db'.role = [db.role EXCEPT ![o][u] = x], db'.orgs = db.orgs, db'.users = db.users,
             db.role[o][u] = x \/ LastOwnerStays(db, o, db.role[o][u])
      PROVE  OrgKeepsOwner'
  <2>1. \A y \in Orgs, v \in Users : v # u \/ y # o => db'.role[y][v] = db.role[y][v]
    BY <1>0, <1>4 DEF Tables
  <2>2. ASSUME NEW y \in db.orgs, db.users # {} PROVE Owners(db', y) # {}
    <3>1. y \in Orgs /\ Owners(db, y) # {}
      BY <1>0, <2>2 DEF Inv, OrgKeepsOwner, Tables
    <3>2. CASE y = o /\ db.role[o][u] = "owner" /\ db.role[o][u] # x
      <4>1. PICK v \in Owners(db, o) : v # u
        BY <1>4, <3>2, AnotherOwner
      <4> QED BY <2>1, <3>2, <4>1 DEF Owners
    <3>3. CASE y = o /\ db.role[o][u] = x
      BY <1>0, <1>4, <3>1, <3>3 DEF Owners, Tables
    <3>4. CASE y # o \/ db.role[o][u] # "owner"
      BY <2>1, <3>1, <3>4 DEF Owners
    <3> QED BY <3>2, <3>3, <3>4
  <2> QED BY <1>4, <2>2 DEF OrgKeepsOwner
<1>5. ASSUME NEW o \in Orgs, NEW u \in Users, NEW new \in Roles, update_member_role(r, o, u, new)
      PROVE  Inv'
  <2>1. db' = [db EXCEPT !.role[o][u] = new]
        /\ (db.role[o][u] = new \/ LastOwnerStays(db, o, db.role[o][u]))
    BY <1>5 DEF update_member_role, Command, Answer
  <2>2. /\ Tables(db') /\ db'.users = db.users /\ db'.invites = db.invites
        /\ db'.sessions = db.sessions /\ db'.keys = db.keys /\ db'.orgs = db.orgs
        /\ db'.role = [db.role EXCEPT ![o][u] = new]
    BY <1>0, <2>1 DEF Tables
  <2>3. OrgKeepsOwner'
    BY <1>4, <2>1, <2>2
  <2> QED BY <1>0, <1>1, <2>2, <2>3, PlainCommand
<1>6. ASSUME NEW o \in Orgs, NEW u \in Users, remove_member(r, o, u) PROVE Inv'
  <2> DEFINE l == Principal(r).user = u
  <2>1. db' = RemoveMemberRow(db, o, u, l) /\ LastOwnerStays(db, o, db.role[o][u])
    BY <1>6 DEF remove_member, Command, Answer
  <2> HIDE DEF l
  <2>2. /\ db'.users = db.users /\ db'.invites = db.invites /\ db'.orgs = db.orgs
        /\ db'.keys \subseteq db.keys /\ db'.pw = db.pw /\ db'.projects = db.projects
        /\ db'.role = [db.role EXCEPT ![o][u] = "none"]
        /\ db'.sessions = db.sessions \/ db'.sessions = [db.sessions EXCEPT ![u] = <<>>]
        /\ db' = [users |-> db'.users, pw |-> db'.pw, orgs |-> db'.orgs, role |-> db'.role,
                  projects |-> db'.projects, invites |-> db'.invites, sessions |-> db'.sessions,
                  keys |-> db'.keys]
    BY <1>0, <2>1 DEF Tables, RemoveMemberRow
  <2>3. <<>> \in Seq(SessionRow) /\ <<>> \in Seq(SessionOf(db, u))
    OBVIOUS
  <2>4. db'.sessions \in [Users -> Seq(SessionRow)]
        /\ \A v \in Users : db'.sessions[v] \in Seq(SessionOf(db, v))
    BY <1>0, <2>2, <2>3 DEF Tables
  <2>5. Tables(db')
    BY <1>0, <2>2, <2>4 DEF Tables
  <2>6. OrgKeepsOwner'
    BY <1>4, <2>1, <2>2
  <2> QED BY <1>0, <1>1, <2>2, <2>4, <2>5, <2>6, PlainCommand
<1> QED BY <1>3, <1>5, <1>6

\* Commands that end invites, and may mint one: the ended ones leave the table.
LEMMA InviteCommand ==
    ASSUME Inv, NEW r \in Reqs, req' = [req EXCEPT ![r] = Idle],
           UNCHANGED <<server, now, setups>>, db.users # {},
           NEW G, G \subseteq db.invites, NEW N, N \subseteq InviteRow, End(G),
           \/ N = {} /\ minted' = minted
           \/ \E i \in N : N = {i} /\ i.id = minted + 1 /\ minted' = minted + 1,
           db' = [db EXCEPT !.invites = (@ \ G) \cup N]
    PROVE  Inv'
<1>0. /\ Tables(db) /\ minted \in Nat /\ ended \in [Tokens -> Nat]
      /\ \A i \in InviteRow : i.id \in Tokens /\ i.id \in Nat
      /\ db.invites \subseteq InviteRow
  BY SMTT(30) DEF Inv, Shapes, InviteRow, Tables, Tokens
<1>1. /\ Tables(db') /\ db'.users = db.users /\ db'.invites = (db.invites \ G) \cup N
      /\ db'.sessions = db.sessions /\ db'.keys = db.keys
      /\ db'.role = db.role /\ db'.orgs = db.orgs
  BY <1>0 DEF Tables
<1>2. minted' \in Nat /\ minted <= minted' /\ \A i \in N : i.id = minted + 1 /\ i.id <= minted'
  BY <1>0
<1>3. /\ ended' \in [Tokens -> Nat]
      /\ \A t \in Tokens : ended'[t] = IF \E i \in G : i.id = t THEN ended[t] + 1 ELSE ended[t]
  BY <1>0 DEF End
<1>4. Shapes'
  BY <1>0, <1>1, <1>2, <1>3, AnsweredKeeps DEF Inv, Shapes
<1>5. AccountsOK'
  BY <1>1 DEF Inv, AccountsOK, SessionOf
<1>6. \A i \in db.invites : i.id <= minted /\ ended[i.id] = 0
  BY DEF Inv, InvitesOK
<1>7. InvitesOK'
  <2>1. ASSUME NEW i \in db'.invites PROVE i.id <= minted' /\ ended'[i.id] = 0
    <3>1. CASE i \in N
      <4>1. i.id \in Tokens /\ i.id > minted
        BY <1>0, <1>2, <3>1
      <4>2. ended[i.id] = 0 /\ ~\E g \in G : g.id = i.id
        BY <1>0, <1>6, <4>1 DEF Inv, InvitesOK
      <4> QED BY <1>2, <1>3, <3>1, <4>1, <4>2
    <3>2. CASE i \in db.invites \ G
      <4>1. ~\E g \in G : g.id = i.id
        BY <3>2 DEF Inv, InvitesOK
      <4>2. i.id \in Tokens /\ i.id \in Nat
        BY <1>0, <3>2
      <4> QED BY <1>0, <1>2, <1>3, <1>6, <3>2, <4>1, <4>2
    <3> QED BY <1>1, <3>1, <3>2
  <2>2. ASSUME NEW i \in db'.invites, NEW j \in db'.invites, i.id = j.id PROVE i = j
    <3>1. \A x \in db.invites : x.id # minted + 1
      BY <1>0, <1>6
    <3> QED BY <1>1, <1>2, <2>2, <3>1 DEF Inv, InvitesOK
  <2>3. ASSUME NEW t \in Tokens, t > minted' PROVE ended'[t] = 0
    <3>1. t > minted /\ t \in Nat
      BY <1>0, <1>2, <2>3 DEF Tokens
    <3>2. ~\E g \in G : g.id = t
      BY <1>0, <1>6, <3>1
    <3> QED BY <1>3, <3>1, <3>2 DEF Inv, InvitesOK
  <2> QED BY <2>1, <2>2, <2>3 DEF InvitesOK
<1>8. RequestsOK'
  <2>1. \A i \in db'.invites : i \in db.invites \/ i.id > minted
    BY <1>0, <1>1, <1>2
  <2>2. db'.invites \subseteq InviteRow /\ db.users \subseteq db'.users
    BY <1>0, <1>1
  <2> QED BY <1>2, <2>1, <2>2, AnsweredKeeps, RequestsKeep
<1>9. OrgKeepsOwner'
  BY <1>1 DEF Inv, OrgKeepsOwner, Owners
<1>10. UsedOnce'
  <2>1. ASSUME NEW t \in Tokens PROVE ended'[t] <= 1
    <3>1. CASE \E i \in G : i.id = t
      <4>1. ended[t] = 0
        BY <1>6, <3>1
      <4> QED BY <1>3, <3>1, <4>1
    <3>2. CASE ~\E i \in G : i.id = t
      BY <1>3, <3>2 DEF Inv, UsedOnce, InviteSingleUse
    <3> QED BY <3>1, <3>2
  <2> QED BY <2>1 DEF Inv, UsedOnce, InviteSingleUse, SetupOnce
<1> QED BY <1>4, <1>5, <1>7, <1>8, <1>9, <1>10 DEF Inv

\* Creating, revoking, and finding an invite expired.
LEMMA InviteCommands ==
    ASSUME Inv, NEW r \in Reqs,
           \/ \E o \in Orgs, u \in Users, role \in InvitedRoles : create_invite(r, o, u, role)
           \/ \E i \in db.invites : revoke_invite(r, i)
           \/ \E i \in db.invites : AcceptBegins(r, i) /\ ~(i.exp > now)
    PROVE  Inv'
<1>0. /\ Tables(db) /\ minted \in Nat /\ now \in Nat /\ InviteTtl \in Nat /\ MaxMinted \in Nat
      /\ db.invites # {} => db.users # {}
  BY LimitsAssumption DEF Inv, Shapes, AccountsOK
<1>1. ASSUME NEW o \in Orgs, NEW u \in Users, NEW role \in InvitedRoles, create_invite(r, o, u, role)
      PROVE  Inv'
  <2> DEFINE i == [id |-> minted + 1, org |-> o, email |-> u, role |-> role, exp |-> now + InviteTtl]
             G == Purged(db, o, u)
  <2>1. /\ req' = [req EXCEPT ![r] = Idle] /\ req[r].pc = "authed"
        /\ UNCHANGED <<server, now, setups>> /\ minted < MaxMinted
        /\ End(G) /\ minted' = minted + 1 /\ db' = [db EXCEPT !.invites = (@ \ G) \cup {i}]
    BY <1>1 DEF create_invite, Command, Answer
  <2>2. db.users # {}
    BY <2>1, Principals
  <2>3. minted + 1 \in Tokens /\ role \in Roles
    BY <1>0, <2>1, InvitedAssumption DEF Tokens, Roles
  <2>4. i \in InviteRow /\ i.id = minted + 1
    BY <1>0, <2>3 DEF InviteRow
  <2>5. G \subseteq db.invites
    BY DEF Purged, Pending
  <2> DEFINE N == {i}
  <2>6. N \subseteq InviteRow /\ \E x \in N : N = {x} /\ x.id = minted + 1 /\ minted' = minted + 1
    BY <2>1, <2>4
  <2>7. db' = [db EXCEPT !.invites = (@ \ G) \cup N]
    BY <2>1
  <2> HIDE DEF N, G
  <2> QED BY <2>1, <2>2, <2>5, <2>6, <2>7, InviteCommand
<1>2. ASSUME NEW i \in db.invites, db' = [db EXCEPT !.invites = @ \ {i}], End({i}), minted' = minted,
             req' = [req EXCEPT ![r] = Idle], UNCHANGED <<server, now, setups>>
      PROVE  Inv'
  <2> DEFINE G == {i}
             N == {}
  <2>1. db' = [db EXCEPT !.invites = (@ \ G) \cup N] /\ G \subseteq db.invites /\ N \subseteq InviteRow
        /\ End(G) /\ N = {} /\ db.users # {}
    BY <1>0, <1>2
  <2> HIDE DEF G, N
  <2> QED BY <1>2, <2>1, InviteCommand
<1>3. ASSUME NEW i \in db.invites, revoke_invite(r, i) PROVE Inv'
  BY <1>2, <1>3 DEF revoke_invite, Command, Answer
<1>4. ASSUME NEW i \in db.invites, AcceptBegins(r, i), ~(i.exp > now) PROVE Inv'
  BY <1>2, <1>4 DEF AcceptBegins, Answer
<1> QED BY <1>1, <1>3, <1>4

\* The first account: everything has an owner from then on.
LEMMA SetupKeeps ==
    ASSUME Inv, NEW r \in Reqs, NEW fresh \in Orgs, Setup(r, fresh)
    PROVE  Inv'
<1> DEFINE u == req[r].job.user
           claim == req[r].job.claim
           claimed == claim \in Orgs /\ db.projects[claim] > 0
           o == IF claimed THEN claim ELSE fresh
           row == [exp |-> now + SessionTtl, pv |-> 0]
           P == [db.projects EXCEPT ![o] = IF claimed THEN @ ELSE @ + 1]
           R == [x \in Orgs |-> [v \in Users |->
                   IF v = u /\ (x = o \/ x \in db.orgs) THEN "owner" ELSE db.role[x][v]]]
           F == [db.sessions EXCEPT ![u] = Append(@, row)]
<1>0. /\ Tables(db) /\ now \in Nat /\ SessionTtl \in Nat /\ setups \in Nat
      /\ \A v \in Users : db.sessions[v] \in Seq(SessionOf(db, v))
  BY LimitsAssumption DEF Inv, Shapes, AccountsOK
<1>1. /\ db.users = {} /\ setups = 0 /\ db.invites = {} /\ db.keys = {}
      /\ req[r].pc = "hashing" /\ req[r].job.kind = "setup"
  <2>1. db.users = {} /\ req[r].pc = "hashing" /\ req[r].job.kind = "setup"
    BY DEF Setup, NoAccountYet, Ready
  <2> QED BY <2>1 DEF Inv, AccountsOK
<1>2. u \in Users
  <2>1. req[r] \in Hashing
    BY <1>1 DEF Inv, Shapes, Idle, Authed
  <2>2. req[r].job \in SetupJob
    BY <1>1, <2>1 DEF Hashing, LoginJob, AcceptJob
  <2> QED BY <2>2 DEF SetupJob
<1>3. o \in Orgs
  OBVIOUS
<1>4. /\ db' = [db EXCEPT !.users = @ \cup {u}, !.orgs = @ \cup {o}, !.projects = P, !.role = R,
                          !.sessions = F]
      /\ req' = [req EXCEPT ![r] = Idle] /\ setups' = setups + 1
      /\ UNCHANGED <<server, now, minted, ended>>
  BY <1>0 DEF Setup, Answer, Tables
<1>5. P \in [Orgs -> Nat] /\ R \in [Orgs -> [Users -> Roles \cup {"none"}]]
  BY <1>0, <1>3 DEF Tables, Roles
<1>6. \A v \in Users : F[v] \in Seq({s \in SessionRow : v \in db.users \cup {u}})
  <2>1. row \in SessionRow
    BY <1>0 DEF SessionRow
  <2>2. \A v \in Users : db.sessions[v] \in Seq({s \in SessionRow : v \in db.users \cup {u}})
    <3>1. \A v \in Users : SessionOf(db, v) \subseteq {s \in SessionRow : v \in db.users \cup {u}}
      BY DEF SessionOf
    <3> QED BY <1>0, <3>1
  <2>3. Append(db.sessions[u], row) \in Seq({s \in SessionRow : u \in db.users \cup {u}})
    BY <1>2, <2>1, <2>2
  <2> QED BY <1>0, <2>2, <2>3 DEF Tables
<1>7. F \in [Users -> Seq(SessionRow)]
  <2>1. row \in SessionRow
    BY <1>0 DEF SessionRow
  <2> QED BY <1>0, <1>2, <2>1 DEF Tables
<1>8. \A x \in db.orgs \cup {o} : R[x][u] = "owner"
  BY <1>0, <1>2, <1>3 DEF Tables
<1> HIDE DEF u, o, row, P, R, F, claimed, claim
<1>9. /\ Tables(db') /\ db'.users = {u} /\ db'.orgs = db.orgs \cup {o} /\ db'.role = R
      /\ db'.sessions = F /\ db'.invites = {} /\ db'.keys = {}
  BY <1>0, <1>1, <1>2, <1>3, <1>4, <1>5, <1>7 DEF Tables
<1>10. Shapes'
  BY <1>0, <1>4, <1>9, AnsweredKeeps DEF Inv, Shapes
<1>11. AccountsOK'
  BY <1>1, <1>6, <1>9 DEF AccountsOK, SessionOf
<1>12. InvitesOK' /\ UsedOnce'
  BY <1>1, <1>4, <1>9 DEF Inv, InvitesOK, UsedOnce, InviteSingleUse, SetupOnce
<1>13. RequestsOK'
  <2>1. db'.invites \subseteq InviteRow /\ db.users \subseteq db'.users /\ minted' \in Nat /\ minted <= minted'
        /\ \A i \in db'.invites : i \in db.invites \/ i.id > minted
    BY <1>1, <1>4, <1>9 DEF Inv, Shapes
  <2> QED BY <1>4, <2>1, AnsweredKeeps, RequestsKeep
<1>14. OrgKeepsOwner'
  BY <1>2, <1>8, <1>9 DEF OrgKeepsOwner, Owners
<1> QED BY <1>10, <1>11, <1>12, <1>13, <1>14 DEF Inv

\* An invite is accepted: it ends, and nobody loses ownership by joining.
LEMMA AcceptKeeps ==
    ASSUME Inv, NEW r \in Reqs, NEW opened \in BOOLEAN, accept_invite(r, opened)
    PROVE  Inv'
<1> DEFINE job == req[r].job
           u == job.user
           i == CHOOSE x \in Usable(db, job.invite) : TRUE
           used == [db EXCEPT !.invites = @ \ {i}]
           joined == [used EXCEPT !.users = @ \cup {u}, !.role[i.org][u] = i.role]
<1>0. /\ Tables(db) /\ now \in Nat /\ SessionTtl \in Nat /\ minted \in Nat
      /\ \A v \in Users : db.sessions[v] \in Seq(SessionOf(db, v))
      /\ \A i_1 \in InviteRow : i_1.id \in Tokens /\ i_1.id \in Nat
  BY LimitsAssumption DEF Inv, Shapes, AccountsOK, InviteRow, Tokens
<1>1. i \in db.invites
  BY DEF accept_invite, Usable
<1>2. job \in AcceptJob
  <2>1. req[r].pc = "hashing" /\ req[r].job.kind = "accept"
    BY DEF accept_invite, Ready
  <2>2. req[r] \in Hashing
    BY <2>1 DEF Inv, Shapes, Idle, Authed
  <2> QED BY <2>1, <2>2 DEF Hashing, SetupJob, LoginJob
<1>3. u \in Users /\ job.pv \in Nat /\ i.org \in Orgs /\ i.role \in Roles /\ i.id \in Tokens
  BY <1>0, <1>1, <1>2 DEF AcceptJob, Tables, InviteRow
<1>4. /\ req' = [req EXCEPT ![r] = Idle] /\ End({i}) /\ UNCHANGED <<server, now, minted, setups>>
      /\ \/ Member(db, i.org, u) /\ db' = used
         \/ ~Member(db, i.org, u) /\ db' = joined
         \/ ~Member(db, i.org, u) /\ db' = start_session(joined, u, job.pv)
  BY DEF accept_invite, Answer
<1>5. CASE db' = used
  <2> DEFINE G == {i}
             N == {}
  <2>1. G \subseteq db.invites /\ N \subseteq InviteRow /\ End(G) /\ N = {} /\ db.users # {}
    BY <1>1, <1>4 DEF Inv, AccountsOK
  <2>2. db' = [db EXCEPT !.invites = (@ \ G) \cup N]
    BY <1>5
  <2> HIDE DEF G, N, i
  <2> QED BY <1>4, <2>1, <2>2, InviteCommand
<1>6. ASSUME NEW F, db' = [joined EXCEPT !.sessions = F], F = [v \in Users |-> F[v]],
             ~Member(db, i.org, u),
             \A v \in Users : F[v] \in Seq({s \in SessionRow : v \in db.users \cup {u}})
      PROVE  Inv'
  <2> DEFINE R == [db.role EXCEPT ![i.org][u] = i.role]
  <2>1. R \in [Orgs -> [Users -> Roles \cup {"none"}]]
        /\ \A x \in Orgs, v \in Users : db.role[x][v] = "owner" => R[x][v] = "owner"
    <3> HIDE DEF i, u
    <3> QED BY <1>0, <1>3, <1>6 DEF Tables, Member
  <2>2. db' = [db EXCEPT !.invites = @ \ {i}, !.users = @ \cup {u}, !.role = R, !.sessions = F]
    <3> HIDE DEF i, u
    <3> QED BY <1>0, <1>6 DEF Tables
  <2>3. F \in [Users -> Seq(SessionRow)]
    <3>1. \A v \in Users : {s \in SessionRow : v \in db.users \cup {u}} \subseteq SessionRow
      OBVIOUS
    <3>2. \A v \in Users : F[v] \in Seq(SessionRow)
      BY <1>6, <3>1
    <3> QED BY <1>6, <3>2
  <2> HIDE DEF i, u, R, used, joined
  <2>4. /\ Tables(db') /\ db'.users = db.users \cup {u} /\ db'.orgs = db.orgs /\ db'.role = R
        /\ db'.sessions = F /\ db'.invites = db.invites \ {i} /\ db'.keys = db.keys
    BY <1>0, <1>3, <2>1, <2>2, <2>3 DEF Tables
  <2>5. /\ ended' \in [Tokens -> Nat]
        /\ \A t \in Tokens : ended'[t] = IF t = i.id THEN ended[t] + 1 ELSE ended[t]
    BY <1>0, <1>4 DEF Inv, Shapes, End
  <2>6. Shapes'
    BY <1>4, <2>4, <2>5, AnsweredKeeps DEF Inv, Shapes
  <2>7. AccountsOK'
    BY <1>6, <2>4 DEF Inv, AccountsOK, SessionOf
  <2>8. ended[i.id] = 0 /\ i.id <= minted
    BY <1>1 DEF Inv, InvitesOK
  <2>9. InvitesOK'
    <3>1. \A x \in db'.invites : x.id # i.id /\ x.id \in Tokens
      BY <1>0, <1>1, <2>4 DEF Inv, InvitesOK, Tables
    <3>2. \A x \in db'.invites : x.id <= minted' /\ ended'[x.id] = 0
      BY <1>4, <2>4, <2>5, <3>1 DEF Inv, InvitesOK
    <3>3. \A t \in Tokens : t > minted' => ended'[t] = 0
      BY <1>0, <1>3, <1>4, <2>5, <2>8 DEF Inv, InvitesOK, Tokens
    <3> QED BY <2>4, <3>2, <3>3 DEF Inv, InvitesOK
  <2>10. UsedOnce'
    BY <1>4, <2>5, <2>8 DEF Inv, UsedOnce, InviteSingleUse, SetupOnce
  <2>11. RequestsOK'
    <3>1. db'.invites \subseteq InviteRow /\ db.users \subseteq db'.users /\ minted' \in Nat
          /\ minted <= minted' /\ \A x \in db'.invites : x \in db.invites \/ x.id > minted
      BY <1>0, <1>4, <2>4 DEF Tables
    <3> QED BY <1>4, <3>1, AnsweredKeeps, RequestsKeep
  <2>12. OrgKeepsOwner'
    <3>1. db.users # {}
      BY <1>1 DEF Inv, AccountsOK
    <3>2. \A x \in db.orgs : x \in Orgs
      BY <1>0 DEF Tables
    <3> QED BY <2>1, <2>4, <3>1, <3>2 DEF Inv, OrgKeepsOwner, Owners
  <2> QED BY <2>6, <2>7, <2>9, <2>10, <2>11, <2>12 DEF Inv
<1>7. \A v \in Users : db.sessions[v] \in Seq({s \in SessionRow : v \in db.users \cup {u}})
  <2>1. \A v \in Users : SessionOf(db, v) \subseteq {s \in SessionRow : v \in db.users \cup {u}}
    BY DEF SessionOf
  <2> QED BY <1>0, <2>1
<1>8. joined.sessions = db.sessions /\ joined = [joined EXCEPT !.sessions = db.sessions]
  <2> HIDE DEF i, u
  <2> QED BY <1>0 DEF Tables
<1>9. CASE ~Member(db, i.org, u) /\ db' = joined
  <2>1. db.sessions = [v \in Users |-> db.sessions[v]]
    BY <1>0 DEF Tables
  <2> HIDE DEF i, u, joined
  <2> QED BY <1>6, <1>7, <1>8, <1>9, <2>1
<1>10. CASE ~Member(db, i.org, u) /\ db' = start_session(joined, u, job.pv)
  <2> DEFINE pv == job.pv
             S == [v \in Users |-> {s \in SessionRow : v \in db.users \cup {u}}]
             F == start_session(joined, u, pv).sessions
  <2>1. Tables(joined)
    <3>1. joined = [db EXCEPT !.invites = @ \ {i}, !.users = @ \cup {u}, !.role[i.org][u] = i.role]
      <4> HIDE DEF i, u
      <4> QED BY <1>0 DEF Tables
    <3> HIDE DEF i, u, used, joined
    <3> QED BY <1>0, <1>3, <3>1 DEF Tables
  <2>2. start_session(joined, u, pv) = [joined EXCEPT !.sessions = F]
    <3> HIDE DEF i, u, used, joined, pv
    <3> QED BY <2>1 DEF start_session, Tables
  <2>3. [exp |-> now + SessionTtl, pv |-> pv] \in S[u]
    BY <1>0, <1>3 DEF SessionRow
  <2>4. \A v \in Users : joined.sessions[v] \in Seq(S[v])
    <3> HIDE DEF joined
    <3> QED BY <1>7, <1>8
  <2> HIDE DEF i, u, used, joined, pv, S, job
  <2>5. F = [v \in Users |-> F[v]] /\ \A v \in Users : F[v] \in Seq(S[v])
    BY <1>3, <2>1, <2>3, <2>4, StartsSession
  <2> HIDE DEF F
  <2>6. \A v \in Users : F[v] \in Seq({s \in SessionRow : v \in db.users \cup {u}})
    BY <2>5 DEF S
  <2>7. db' = [joined EXCEPT !.sessions = F]
    BY <1>10, <2>2 DEF pv
  <2> QED BY <1>6, <1>10, <2>5, <2>6, <2>7
<1> QED BY <1>4, <1>5, <1>9, <1>10

\* The offline reset: a new password, no sessions.
LEMMA ResetKeeps ==
    ASSUME Inv, NEW u \in Users, reset_password(u)
    PROVE  Inv'
<1> DEFINE W == [db.pw EXCEPT ![u] = @ + 1]
           F == [db.sessions EXCEPT ![u] = <<>>]
<1>0. Tables(db) /\ \A v \in Users : db.sessions[v] \in Seq(SessionOf(db, v))
  BY DEF Inv, Shapes, AccountsOK
<1>1. db' = [db EXCEPT !.pw = W, !.sessions = F] /\ UNCHANGED <<req, server, now, minted, ended, setups>>
  BY DEF reset_password, ResetRow, observed
<1>2. <<>> \in Seq(SessionRow) /\ <<>> \in Seq(SessionOf(db, u))
  OBVIOUS
<1>3. /\ W \in [Users -> Nat] /\ F \in [Users -> Seq(SessionRow)]
      /\ \A v \in Users : F[v] \in Seq(SessionOf(db, v))
  BY <1>0, <1>2 DEF Tables
<1> HIDE DEF W, F
<1>4. /\ Tables(db') /\ db'.users = db.users /\ db'.invites = db.invites
      /\ db'.sessions = F /\ db'.keys = db.keys /\ db'.role = db.role /\ db'.orgs = db.orgs
  BY <1>0, <1>1, <1>3 DEF Tables
<1>5. Shapes' /\ InvitesOK' /\ RequestsOK'
  BY <1>1, <1>4 DEF Inv, Shapes, InvitesOK, RequestsOK, Fits
<1>6. AccountsOK'
  BY <1>1, <1>3, <1>4 DEF Inv, AccountsOK, SessionOf
<1>7. OrgKeepsOwner' /\ UsedOnce'
  BY <1>1, <1>4 DEF Inv, OrgKeepsOwner, Owners, UsedOnce, InviteSingleUse, SetupOnce
<1> QED BY <1>5, <1>6, <1>7 DEF Inv

\* A new installation, or an imported one: no account yet.
LEMMA InitialTables ==
    ASSUME Init
    PROVE  /\ Tables(db) /\ db.users = {} /\ db.invites = {} /\ db.keys = {}
           /\ db.sessions = [u \in Users |-> <<>>] /\ db.pw = [u \in Users |-> 0]
<1>0. PICK o \in Orgs : db \in {Blank, [Blank EXCEPT !.orgs = {o}, !.projects[o] = 1]}
  BY DEF Init
<1> DEFINE F == [u \in Users |-> <<>>]
           W == [u \in Users |-> 0]
           R == [x \in Orgs |-> [u \in Users |-> "none"]]
           P == [x \in Orgs |-> 0]
           Q == [x \in Orgs |-> IF x = o THEN 1 ELSE 0]
<1>1. /\ F \in [Users -> Seq(SessionRow)] /\ W \in [Users -> Nat] /\ P \in [Orgs -> Nat]
      /\ R \in [Orgs -> [Users -> Roles \cup {"none"}]] /\ Q \in [Orgs -> Nat]
  <2>1. <<>> \in Seq(SessionRow)
    OBVIOUS
  <2> QED BY <2>1
<1>2. Q = [P EXCEPT ![o] = 1]
  OBVIOUS
<1>3. Blank = [users |-> {}, pw |-> W, orgs |-> {}, role |-> R, projects |-> P,
               invites |-> {}, sessions |-> F, keys |-> {}]
  BY DEF Blank
<1> HIDE DEF F, W, R, P, Q
<1>4. \/ db = Blank
      \/ db = [users |-> {}, pw |-> W, orgs |-> {o}, role |-> R, projects |-> Q,
               invites |-> {}, sessions |-> F, keys |-> {}]
  BY <1>0, <1>2, <1>3
<1>5. Tables(db) /\ db.users = {} /\ db.invites = {} /\ db.keys = {} /\ db.sessions = F /\ db.pw = W
  <2>1. CASE db = Blank
    BY <1>1, <1>3, <2>1 DEF Tables
  <2>2. CASE db # Blank
    BY <1>1, <1>4, <2>2 DEF Tables
  <2> QED BY <2>1, <2>2
<1> QED BY <1>5 DEF F, W

\* The inductive invariant holds at the start.
LEMMA InvInit == Init => Inv
<1> SUFFICES ASSUME Init PROVE Inv
  OBVIOUS
<1>2. /\ Tables(db) /\ db.users = {} /\ db.invites = {} /\ db.keys = {}
      /\ db.sessions = [u \in Users |-> <<>>]
  BY InitialTables
<1>3. /\ req = [r \in Reqs |-> Idle] /\ server = "up" /\ now = 0 /\ minted = 0
      /\ ended = [t \in Tokens |-> 0] /\ setups = 0
  BY DEF Init
<1>4. Shapes /\ RequestsOK /\ UsedOnce
  BY <1>2, <1>3 DEF Shapes, RequestsOK, Fits, Idle, UsedOnce, InviteSingleUse, SetupOnce
<1>5. AccountsOK /\ InvitesOK /\ OrgKeepsOwner
  BY <1>2, <1>3 DEF AccountsOK, InvitesOK, OrgKeepsOwner, Tokens
<1> QED BY <1>4, <1>5 DEF Inv

\* The inductive invariant holds in every reachable state.
THEOREM InvAlways == Spec => []Inv
<1>1. Inv /\ [Next]_vars => Inv'
  <2> SUFFICES ASSUME Inv, [Next]_vars PROVE Inv'
    OBVIOUS
  <2>1. ASSUME NEW r \in Reqs, Arrive(r) PROVE Inv'
    BY <2>1, QuietSteps, SessionCommands, InviteCommands DEF Arrive
  <2>2. ASSUME NEW r \in Reqs, Handler(r) PROVE Inv'
    BY <2>2, SessionCommands, KeyCommands, MemberCommands, InviteCommands DEF Handler
  <2>3. ASSUME NEW r \in Reqs, RequestStep(r) PROVE Inv'
    BY <2>3, QuietSteps, SessionCommands, SetupKeeps, AcceptKeeps DEF RequestStep
  <2>4. CASE UNCHANGED vars
    <3>1. UNCHANGED <<db, req, server, now, minted, ended, setups>>
      BY <2>4 DEF vars
    <3>2. RequestsOK'
      BY <3>1 DEF Inv, RequestsOK, Fits
    <3> QED BY <3>1, <3>2, WaitingKeeps DEF Inv, Shapes
  <2> QED BY <2>1, <2>2, <2>3, <2>4, ResetKeeps, ServerSteps DEF Next
<1> QED BY InvInit, <1>1, PTL DEF Spec

-----------------------------------------------------------------------------
(* What the accounts promise.                                               *)

\* Once there is an account, every organization has an owner, whatever
\* demotions, removals and departures run at the same time.
THEOREM OrgKeepsOwnerAlways == Spec => []OrgKeepsOwner
<1>1. Inv => OrgKeepsOwner
  BY DEF Inv
<1> QED BY InvAlways, <1>1, PTL

\* An invite token gives at most one membership, and one setup succeeds.
THEOREM UsedOnceAlways == Spec => []UsedOnce
<1>1. Inv => UsedOnce
  BY DEF Inv
<1> QED BY InvAlways, <1>1, PTL


-----------------------------------------------------------------------------
(* Passwords.  When the drain completes before the writer lock is free, no  *)
(* request that looked a password up is under way while it is reset.        *)

CurrentRow(b, u) == {s \in SessionRow : s.pv = b.pw[u]}

\* A login or an accept carries the password it looked up.
Carries(v) ==
    v.pc = "hashing" /\ v.job.kind \in {"login", "accept"} => v.job.pv = db.pw[v.job.user]

PasswordsOK ==
    /\ server # "up" => \A r \in Reqs : req[r] = Idle
    /\ \A u \in Users : u \in db.users \/ db.pw[u] = 0
    /\ \A r \in Reqs : Carries(req[r])
    /\ \A u \in Users : db.sessions[u] \in Seq(CurrentRow(db, u))

\* What is left to show of a command that resets no password.
LEMMA PasswordsKept ==
    ASSUME Inv, PasswordsOK, NEW r \in Reqs, req' = [req EXCEPT ![r] = Idle], server' = server,
           db'.pw = db.pw, db.users \subseteq db'.users,
           \A u \in Users : db'.sessions[u] \in Seq(CurrentRow(db, u))
    PROVE  PasswordsOK'
<1>1. \A x \in Reqs : req'[x] = req[x] \/ req'[x] = Idle
  BY AnsweredKeeps
<1>2. ASSUME NEW x \in Reqs PROVE Carries(req[x])'
  <2>1. CASE req'[x] = Idle
    BY <2>1 DEF Carries, Idle
  <2>2. CASE req'[x] = req[x]
    BY <2>2 DEF PasswordsOK, Carries
  <2> QED BY <1>1, <2>1, <2>2
<1> QED BY <1>1, <1>2 DEF PasswordsOK, CurrentRow

\* Requests that come in or give up, and the server's own steps.
LEMMA PasswordsCarried ==
    ASSUME Inv, PasswordsOK, ~DrainTimesOut,
           \/ Tick \/ ReleaseWriterLock \/ Stop \/ Restart
           \/ \E r \in Reqs :
                \/ GiveUp(r) \/ \E u \in Users : AuthenticateSession(r, u) \/ SetupBegins(r, u) \/ LoginBegins(r, u)
                \/ \E k \in db.keys : AuthenticateKey(r, k)
                \/ \E i \in db.invites : AcceptBegins(r, i) /\ i.exp > now
    PROVE  PasswordsOK'
<1>1. ASSUME NEW r \in Reqs, NEW v, req' = [req EXCEPT ![r] = v], Carries(v), db' = db,
             server' = server, server = "up" \/ v = Idle
      PROVE  PasswordsOK'
  <2>1. req'[r] = v /\ \A x \in Reqs : x # r => req'[x] = req[x]
    BY <1>1 DEF Inv, Shapes
  <2> QED BY <1>1, <2>1, SMTT(30) DEF PasswordsOK, CurrentRow, Carries
<1>2. ASSUME Tick \/ ReleaseWriterLock \/ Stop \/ Restart PROVE PasswordsOK'
  <2>1. /\ db' = db /\ (req' = req \/ req' = [x \in Reqs |-> Idle])
        /\ server' # "up" => (\A x \in Reqs : req'[x] = Idle)
    BY <1>2 DEF Tick, ReleaseWriterLock, Stop, Restart, PasswordsOK
  <2>2. \A x \in Reqs : Carries(req[x])'
    BY <2>1 DEF PasswordsOK, Carries, Idle
  <2> QED BY <2>1, <2>2 DEF PasswordsOK, CurrentRow
<1>3. ASSUME NEW r \in Reqs, GiveUp(r) PROVE PasswordsOK'
  BY <1>1, <1>3 DEF GiveUp, Carries, Idle
<1>4. ASSUME NEW r \in Reqs, NEW u \in Users, AuthenticateSession(r, u) PROVE PasswordsOK'
  <2> DEFINE v == [pc |-> "authed", p |-> [user |-> u, session |-> TRUE]]
  <2>1. Carries(v) /\ req' = [req EXCEPT ![r] = v] /\ db' = db /\ server' = server /\ server = "up"
    BY <1>4 DEF AuthenticateSession, Carries
  <2> HIDE DEF v
  <2> QED BY <1>1, <2>1
<1>5. ASSUME NEW r \in Reqs, NEW k \in db.keys, AuthenticateKey(r, k) PROVE PasswordsOK'
  <2> DEFINE v == [pc |-> "authed", p |-> [user |-> k.user, session |-> FALSE]]
  <2>1. Carries(v) /\ req' = [req EXCEPT ![r] = v] /\ db' = db /\ server' = server /\ server = "up"
    BY <1>5 DEF AuthenticateKey, Carries
  <2> HIDE DEF v
  <2> QED BY <1>1, <2>1
<1>6. ASSUME NEW r \in Reqs, NEW u \in Users, SetupBegins(r, u) PROVE PasswordsOK'
  <2>1. PICK claim \in Orgs \cup {None, "unknown"} :
            Start(r, [kind |-> "setup", user |-> u, claim |-> claim])
    BY <1>6 DEF SetupBegins
  <2> DEFINE v == [pc |-> "hashing", job |-> [kind |-> "setup", user |-> u, claim |-> claim]]
  <2>2. Carries(v) /\ req' = [req EXCEPT ![r] = v] /\ db' = db /\ server' = server /\ server = "up"
    BY <1>6, <2>1 DEF SetupBegins, Start, Carries
  <2> HIDE DEF v
  <2> QED BY <1>1, <2>2
<1>7. ASSUME NEW r \in Reqs, NEW u \in Users, LoginBegins(r, u) PROVE PasswordsOK'
  <2> DEFINE v == [pc |-> "hashing", job |-> [kind |-> "login", user |-> u, known |-> u \in db.users,
                                               pv |-> db.pw[u]]]
  <2>1. Carries(v) /\ req' = [req EXCEPT ![r] = v] /\ db' = db /\ server' = server /\ server = "up"
    BY <1>7 DEF LoginBegins, Start, Carries
  <2> HIDE DEF v
  <2> QED BY <1>1, <2>1
<1>8. ASSUME NEW r \in Reqs, NEW i \in db.invites, AcceptBegins(r, i), i.exp > now PROVE PasswordsOK'
  <2> DEFINE v == [pc |-> "hashing", job |-> [kind |-> "accept", invite |-> i, user |-> i.email,
                     known |-> i.email \in db.users, pv |-> db.pw[i.email]]]
  <2>1. Carries(v) /\ req' = [req EXCEPT ![r] = v] /\ db' = db /\ server' = server /\ server = "up"
    BY <1>8 DEF AcceptBegins, Start, Carries
  <2> HIDE DEF v
  <2> QED BY <1>1, <2>1
<1> QED BY <1>2, <1>3, <1>4, <1>5, <1>6, <1>7, <1>8

\* Commands that open no session leave the rest of them, or delete some.
LEMMA PasswordsPlain ==
    ASSUME Inv, PasswordsOK, NEW r \in Reqs,
           \/ Handler(r) \/ \E u \in Users, i \in 1..MaxSessions : AuthenticateExpired(r, u, i)
           \/ \E i \in db.invites : AcceptBegins(r, i) /\ ~(i.exp > now)
    PROVE  PasswordsOK'
<1>0. Tables(db) /\ \A u \in Users : db.sessions[u] \in Seq(CurrentRow(db, u))
  BY DEF Inv, Shapes, PasswordsOK
<1>1. ASSUME req' = [req EXCEPT ![r] = Idle], server' = server, db'.pw = db.pw,
             db'.users = db.users, db'.sessions = db.sessions
      PROVE  PasswordsOK'
  BY <1>0, <1>1, PasswordsKept
<1>2. ASSUME NEW u \in Users, NEW i \in 1..Len(db.sessions[u]),
             db' = [db EXCEPT !.sessions[u] = SubSeq(@, 1, i - 1) \o SubSeq(@, i + 1, Len(@))],
             req' = [req EXCEPT ![r] = Idle], server' = server
      PROVE  PasswordsOK'
  <2> DEFINE s == SubSeq(db.sessions[u], 1, i - 1) \o SubSeq(db.sessions[u], i + 1, Len(db.sessions[u]))
  <2>1. s \in Seq(CurrentRow(db, u))
    BY <1>0, WithoutRow
  <2>2. db' = [db EXCEPT !.sessions = [db.sessions EXCEPT ![u] = s]]
    BY <1>2
  <2> HIDE DEF s
  <2>3. db'.pw = db.pw /\ db'.users = db.users /\ db'.sessions = [db.sessions EXCEPT ![u] = s]
    BY <1>0, <2>2 DEF Tables
  <2>4. \A v \in Users : db'.sessions[v] \in Seq(CurrentRow(db, v))
    BY <1>0, <2>1, <2>3 DEF Tables
  <2> QED BY <1>2, <2>3, <2>4, PasswordsKept
<1>3. ASSUME NEW i \in 1..MaxSessions, Logout(r, i) PROVE PasswordsOK'
  <2>1. Principal(r).user \in Users
    BY <1>3, Principals DEF Logout
  <2> QED BY <1>2, <1>3, <2>1 DEF Logout, Command, Answer
<1>4. ASSUME NEW u \in Users, NEW i \in 1..MaxSessions, AuthenticateExpired(r, u, i) PROVE PasswordsOK'
  BY <1>2, <1>4 DEF AuthenticateExpired, Answer
<1>5. ASSUME NEW n \in 1..MaxKeys, create_personal_key(r, n) PROVE PasswordsOK'
  BY <1>0, <1>1, <1>5 DEF create_personal_key, Command, Answer, Tables
<1>6. ASSUME NEW k \in db.keys, RevokePersonalKey(r, k) PROVE PasswordsOK'
  BY <1>0, <1>1, <1>6 DEF RevokePersonalKey, Command, Answer, Tables
<1>7. ASSUME NEW o \in Orgs, create_organization(r, o) PROVE PasswordsOK'
  BY <1>0, <1>1, <1>7 DEF create_organization, Command, Answer, Tables
<1>8. ASSUME NEW o \in Orgs, create_project(r, o) PROVE PasswordsOK'
  BY <1>0, <1>1, <1>8 DEF create_project, Command, Answer, Tables
<1>9. ASSUME NEW o \in Orgs, NEW u \in Users, NEW new \in Roles, update_member_role(r, o, u, new)
      PROVE  PasswordsOK'
  BY <1>0, <1>1, <1>9 DEF update_member_role, Command, Answer, Tables
<1>10. ASSUME NEW o \in Orgs, NEW u \in Users, remove_member(r, o, u) PROVE PasswordsOK'
  <2> DEFINE l == Principal(r).user = u
  <2>1. db' = RemoveMemberRow(db, o, u, l) /\ req' = [req EXCEPT ![r] = Idle] /\ server' = server
    BY <1>10 DEF remove_member, Command, Answer
  <2> HIDE DEF l
  <2>2. /\ db'.users = db.users /\ db'.pw = db.pw
        /\ db'.sessions = db.sessions \/ db'.sessions = [db.sessions EXCEPT ![u] = <<>>]
    BY <1>0, <2>1 DEF Tables, RemoveMemberRow
  <2>3. <<>> \in Seq(CurrentRow(db, u))
    OBVIOUS
  <2>4. \A v \in Users : db'.sessions[v] \in Seq(CurrentRow(db, v))
    BY <1>0, <2>2, <2>3 DEF Tables
  <2> QED BY <2>1, <2>2, <2>4, PasswordsKept
<1>11. ASSUME NEW o \in Orgs, NEW u \in Users, NEW role \in InvitedRoles, create_invite(r, o, u, role)
       PROVE  PasswordsOK'
  BY <1>0, <1>1, <1>11 DEF create_invite, Command, Answer, Tables
<1>12. ASSUME NEW i \in db.invites, revoke_invite(r, i) PROVE PasswordsOK'
  BY <1>0, <1>1, <1>12 DEF revoke_invite, Command, Answer, Tables
<1>13. ASSUME NEW i \in db.invites, AcceptBegins(r, i), ~(i.exp > now) PROVE PasswordsOK'
  BY <1>0, <1>1, <1>13 DEF AcceptBegins, Answer, Tables
<1> QED BY <1>3, <1>4, <1>5, <1>6, <1>7, <1>8, <1>9, <1>10, <1>11, <1>12, <1>13 DEF Handler

\* Sessions are opened with the password that was looked up.
LEMMA PasswordsOpened ==
    ASSUME Inv, PasswordsOK, NEW r \in Reqs,
           \/ StartSession(r) \/ \E o \in Orgs : Setup(r, o)
           \/ \E opened \in BOOLEAN : accept_invite(r, opened)
    PROVE  PasswordsOK'
<1> DEFINE u == req[r].job.user
           pv == req[r].job.pv
           S == [v \in Users |-> CurrentRow(db, v)]
<1>0. /\ Tables(db) /\ \A v \in Users : db.sessions[v] \in Seq(CurrentRow(db, v))
      /\ now \in Nat /\ SessionTtl \in Nat /\ now + SessionTtl \in Nat
  BY LimitsAssumption DEF Inv, Shapes, PasswordsOK
<1>1. req[r].pc = "hashing" /\ req[r] \in Hashing /\ req[r].job.kind \in {"setup", "login", "accept"}
  <2>1. req[r].pc = "hashing"
    BY DEF StartSession, Setup, accept_invite, Ready
  <2>2. req[r] \in Hashing
    BY <2>1 DEF Inv, Shapes, Idle, Authed
  <2> QED BY <2>1, <2>2 DEF Hashing, SetupJob, LoginJob, AcceptJob
<1>2. u \in Users
  BY <1>1 DEF Hashing, SetupJob, LoginJob, AcceptJob
<1>3. \A n \in Nat : n = db.pw[u] => [exp |-> now + SessionTtl, pv |-> n] \in S[u]
  BY <1>0, <1>2 DEF CurrentRow, SessionRow
<1>4. \A v \in Users : db.sessions[v] \in Seq(S[v])
  BY <1>0
<1>5. ASSUME req[r].job.kind \in {"login", "accept"}
      PROVE  pv \in Nat /\ [exp |-> now + SessionTtl, pv |-> pv] \in S[u]
  <2>1. pv \in Nat
    BY <1>1, <1>5 DEF Hashing, SetupJob, LoginJob, AcceptJob
  <2>2. pv = db.pw[u]
    BY <1>1, <1>5 DEF PasswordsOK, Carries
  <2> QED BY <1>3, <2>1, <2>2
<1> HIDE DEF u, pv, S
<1>6. ASSUME NEW b, Tables(b), b.sessions = db.sessions, b.pw = db.pw, db.users \subseteq b.users,
             req[r].job.kind \in {"login", "accept"},
             db' = b \/ db' = start_session(b, u, pv), req' = [req EXCEPT ![r] = Idle], server' = server
      PROVE  PasswordsOK'
  <2>1. CASE db' = b
    BY <1>0, <1>6, <2>1, PasswordsKept
  <2>2. CASE db' = start_session(b, u, pv)
    <3> DEFINE F == start_session(b, u, pv).sessions
    <3>1. [exp |-> now + SessionTtl, pv |-> pv] \in S[u] /\ \A v \in Users : b.sessions[v] \in Seq(S[v])
      BY <1>4, <1>5, <1>6
    <3>2. \A v \in Users : F[v] \in Seq(S[v])
      BY <1>2, <1>6, <3>1, StartsSession
    <3>3. db'.pw = db.pw /\ db'.users = b.users /\ db'.sessions = F
      BY <1>6, <2>2 DEF start_session, Tables
    <3> HIDE DEF F
    <3>4. \A v \in Users : db'.sessions[v] \in Seq(CurrentRow(db, v))
      BY <3>2, <3>3 DEF S
    <3> QED BY <1>6, <3>3, <3>4, PasswordsKept
  <2> QED BY <1>6, <2>1, <2>2
<1>7. CASE StartSession(r)
  BY <1>0, <1>6, <1>7 DEF StartSession, Ready, Answer, u, pv
<1>8. ASSUME NEW o \in Orgs, Setup(r, o) PROVE PasswordsOK'
  <2>1. /\ db.users = {} /\ req' = [req EXCEPT ![r] = Idle] /\ server' = server
        /\ db'.pw = db.pw
        /\ db'.sessions = [db.sessions EXCEPT ![u] = Append(@, [exp |-> now + SessionTtl, pv |-> 0])]
    BY <1>0, <1>8 DEF Setup, NoAccountYet, Answer, Tables, u
  <2>2. db.pw[u] = 0
    BY <1>2, <2>1 DEF PasswordsOK
  <2> DEFINE row == [exp |-> now + SessionTtl, pv |-> 0]
  <2>3. row \in CurrentRow(db, u)
    BY <1>2, <1>3, <2>2 DEF S
  <2> HIDE DEF row
  <2>4. Append(db.sessions[u], row) \in Seq(CurrentRow(db, u))
    BY <1>0, <1>2, <2>3
  <2>5. \A v \in Users : db'.sessions[v] \in Seq(CurrentRow(db, v))
    BY <1>0, <2>1, <2>4 DEF Tables, row
  <2> QED BY <2>1, <2>5, PasswordsKept
<1>9. ASSUME NEW opened \in BOOLEAN, accept_invite(r, opened) PROVE PasswordsOK'
  <2> DEFINE i == CHOOSE x \in Usable(db, req[r].job.invite) : TRUE
             used == [db EXCEPT !.invites = @ \ {i}]
             joined == [used EXCEPT !.users = @ \cup {u}, !.role[i.org][u] = i.role]
  <2>1. /\ req[r].job.kind = "accept" /\ i \in db.invites
        /\ req' = [req EXCEPT ![r] = Idle] /\ server' = server
        /\ db' = used \/ db' = joined \/ db' = start_session(joined, u, pv)
    BY <1>9 DEF accept_invite, Ready, Usable, Answer, u, pv
  <2> HIDE DEF i
  <2>2. i \in InviteRow /\ i.org \in Orgs /\ i.role \in Roles
    BY <1>0, <2>1 DEF Tables, InviteRow
  <2>3. Tables(used) /\ used.sessions = db.sessions /\ used.pw = db.pw /\ used.users = db.users
    <3> DEFINE J == db.invites \ {i}
    <3>1. used = [db EXCEPT !.invites = J] /\ J \subseteq InviteRow
      BY <1>0 DEF Tables
    <3> HIDE DEF J, used
    <3> QED BY <1>0, <3>1 DEF Tables
  <2>4. joined = [db EXCEPT !.invites = @ \ {i}, !.users = @ \cup {u}, !.role[i.org][u] = i.role]
    BY <1>0 DEF Tables
  <2> HIDE DEF used, joined
  <2>5. Tables(joined) /\ joined.sessions = db.sessions /\ joined.pw = db.pw /\ joined.users = db.users \cup {u}
    BY <1>0, <1>2, <2>2, <2>4 DEF Tables
  <2> QED BY <1>6, <2>1, <2>3, <2>5
<1> QED BY <1>7, <1>8, <1>9

\* Every session was opened with the account's current password, as long as a
\* stop waits for its requests: a reset finds none under way (reset_password).
THEOREM CredentialsCurrentAlways ==
    ASSUME ~DrainTimesOut PROVE Spec => []CredentialsCurrent
<1>1. Init => PasswordsOK
  <2> SUFFICES ASSUME Init PROVE PasswordsOK
    OBVIOUS
  <2>2. db.pw = [u \in Users |-> 0] /\ db.sessions = [u \in Users |-> <<>>]
    BY InitialTables
  <2>3. req = [r \in Reqs |-> Idle] /\ server = "up"
    BY DEF Init
  <2>4. \A u \in Users : db.sessions[u] \in Seq(CurrentRow(db, u))
    BY <2>2
  <2> QED BY <2>2, <2>3, <2>4 DEF PasswordsOK, Carries, Idle
<1>2. Inv /\ PasswordsOK /\ [Next]_vars => PasswordsOK'
  <2> SUFFICES ASSUME Inv, PasswordsOK, [Next]_vars PROVE PasswordsOK'
    OBVIOUS
  <2>1. ASSUME NEW r \in Reqs, Arrive(r) \/ Handler(r) \/ RequestStep(r) PROVE PasswordsOK'
    BY <2>1, PasswordsCarried, PasswordsPlain, PasswordsOpened DEF Arrive, RequestStep
  <2>2. ASSUME NEW u \in Users, reset_password(u) PROVE PasswordsOK'
    <3> DEFINE W == [db.pw EXCEPT ![u] = @ + 1]
               F == [db.sessions EXCEPT ![u] = <<>>]
    <3>1. /\ db' = [db EXCEPT !.pw = W, !.sessions = F]
          /\ UNCHANGED <<req, server>> /\ server # "up" /\ u \in db.users
      BY <2>2 DEF reset_password, ResetRow
    <3>2. Tables(db) /\ \A x \in Reqs : req[x] = Idle
      BY <3>1 DEF Inv, Shapes, PasswordsOK
    <3>3. db'.pw = W /\ db'.sessions = F /\ db'.users = db.users
      BY <3>1, <3>2 DEF Tables
    <3>4. \A v \in Users : v # u => db'.pw[v] = db.pw[v] /\ db'.sessions[v] = db.sessions[v]
      BY <3>2, <3>3 DEF Tables
    <3>5. db'.sessions[u] = <<>>
      BY <3>2, <3>3 DEF Tables
    <3>6. ASSUME NEW v \in Users PROVE (db.sessions[v] \in Seq(CurrentRow(db, v)))'
      <4>1. CASE v = u
        <5> DEFINE T == {s \in SessionRow : s.pv = db'.pw[u]}
        <5>1. <<>> \in Seq(T)
          OBVIOUS
        <5>2. db'.sessions[u] \in Seq(T)
          BY <3>5, <5>1
        <5> QED BY <4>1, <5>2 DEF CurrentRow
      <4>2. CASE v # u
        BY <3>4, <4>2 DEF PasswordsOK, CurrentRow
      <4> QED BY <4>1, <4>2
    <3>7. \A x \in Reqs : Carries(req[x])'
      BY <3>1, <3>2 DEF Carries, Idle
    <3> QED BY <3>1, <3>2, <3>3, <3>4, <3>6, <3>7 DEF PasswordsOK
  <2>3. CASE UNCHANGED vars
    BY <2>3 DEF vars, PasswordsOK, CurrentRow, Carries
  <2> QED BY <2>1, <2>2, <2>3, PasswordsCarried DEF Next
<1>3. PasswordsOK => CredentialsCurrent
  <2> SUFFICES ASSUME PasswordsOK, NEW u \in Users, NEW i \in 1..Len(db.sessions[u])
               PROVE  db.sessions[u][i].pv = db.pw[u]
    BY DEF CredentialsCurrent
  <2>1. db.sessions[u][i] \in CurrentRow(db, u)
    BY DEF PasswordsOK
  <2> QED BY <2>1 DEF CurrentRow
<1> QED BY InvAlways, <1>1, <1>2, <1>3, PTL DEF Spec

-----------------------------------------------------------------------------
(* What a step may do to members and sessions.                              *)

\* The actor of a step that answers r is the user r acts for.
LEMMA ActorOf ==
    ASSUME Inv, NEW r \in Reqs, req' = [req EXCEPT ![r] = Idle], req[r].pc \in {"authed", "hashing"}
    PROVE  Actor = IF req[r].pc = "authed" THEN req[r].p.user ELSE req[r].job.user
<1>1. \A x \in Reqs : req'[x] # req[x] <=> x = r
  BY DEF Inv, Shapes, Idle
<1>2. (CHOOSE x \in Reqs : req'[x] # req[x]) = r
  BY <1>1
<1> DEFINE c == CHOOSE x \in Reqs : req'[x] # req[x]
<1>3. Actor = IF req[c].pc = "authed" THEN req[c].p.user ELSE req[c].job.user
  BY DEF Actor
<1>4. c = r
  BY <1>2
<1> HIDE DEF c
<1> QED BY <1>3, <1>4

\* Steps that give no role, no invite and no project.
LEMMA IdleMembership ==
    ASSUME db'.role = db.role, db'.projects = db.projects, db'.invites \subseteq db.invites
    PROVE  OwnerStep /\ ActorStep
BY DEF OwnerStep, ActorStep

\* Setup is the exception both properties name.
LEMMA SetupMembership ==
    ASSUME setups' # setups, db'.invites \subseteq db.invites
    PROVE  OwnerStep /\ ActorStep
BY DEF OwnerStep, ActorStep

\* Only owners make owners, and only members change an organization.
LEMMA MembershipStep ==
    ASSUME Inv, [Next]_vars
    PROVE  OwnerStep /\ ActorStep
<1>0. /\ Tables(db) /\ now \in Nat /\ db.orgs \subseteq Orgs /\ setups \in Nat
  BY DEF Inv, Shapes, Tables
<1>1. ASSUME NEW r \in Reqs, Handler(r)
      PROVE  OwnerStep /\ ActorStep
  <2>1. req[r].pc = "authed" /\ req' = [req EXCEPT ![r] = Idle]
    BY <1>1 DEF Handler, Logout, create_personal_key, RevokePersonalKey, create_organization,
       create_project, update_member_role, remove_member, create_invite, revoke_invite, Command, Answer
  <2>2. Actor = Principal(r).user
    BY <2>1, ActorOf DEF Principal
  <2>3. Principal(r).user \in Users
    BY <2>1, Principals
  <2> DEFINE me == Principal(r).user
  <2>4. ASSUME NEW i \in 1..MaxSessions, Logout(r, i) PROVE OwnerStep /\ ActorStep
    BY <1>0, <2>4, IdleMembership DEF Logout, Command, Answer, Tables
  <2>5. ASSUME NEW n \in 1..MaxKeys, create_personal_key(r, n) PROVE OwnerStep /\ ActorStep
    BY <1>0, <2>5, IdleMembership DEF create_personal_key, Command, Answer, Tables
  <2>6. ASSUME NEW k \in db.keys, RevokePersonalKey(r, k) PROVE OwnerStep /\ ActorStep
    BY <1>0, <2>6, IdleMembership DEF RevokePersonalKey, Command, Answer, Tables
  <2>7. ASSUME NEW o \in Orgs, create_organization(r, o) PROVE OwnerStep /\ ActorStep
    <3>1. /\ o \notin db.orgs /\ db'.invites = db.invites /\ db'.projects = db.projects
          /\ db'.role = [db.role EXCEPT ![o][me] = "owner"]
      BY <1>0, <2>7 DEF create_organization, Command, Answer, Tables
    <3>2. \A x \in db.orgs : db'.role[x] = db.role[x]
      BY <1>0, <3>1 DEF Tables
    <3> QED BY <3>1, <3>2 DEF OwnerStep, ActorStep
  <2>8. ASSUME NEW o \in Orgs, create_project(r, o) PROVE OwnerStep /\ ActorStep
    <3>1. /\ db'.invites = db.invites /\ db'.role = db.role /\ Manager(db.role[o][me])
          /\ db'.projects = [db.projects EXCEPT ![o] = @ + 1]
      BY <1>0, <2>8 DEF create_project, Command, Answer, Tables
    <3>2. \A x \in Orgs : x # o => db'.projects[x] = db.projects[x]
      BY <1>0, <3>1 DEF Tables
    <3>3. Member(db, o, me)
      BY <3>1 DEF Manager, Member
    <3> QED BY <1>0, <2>2, <3>1, <3>2, <3>3 DEF OwnerStep, ActorStep
  <2>9. ASSUME NEW o \in Orgs, NEW u \in Users, NEW x \in Roles \cup {"none"},
               db'.role = [db.role EXCEPT ![o][u] = x], db'.invites = db.invites,
               db'.projects = db.projects, Member(db, o, me),
               db.role[o][me] = "owner" \/ (db.role[o][u] # "owner" /\ x # "owner")
        PROVE  OwnerStep /\ ActorStep
    <3>1. \A y \in Orgs : y # o => db'.role[y] = db.role[y]
      BY <1>0, <2>9 DEF Tables
    <3>2. \A v \in Users : v # u => db'.role[o][v] = db.role[o][v]
      BY <1>0, <2>9 DEF Tables
    <3>3. db'.role[o][u] = x
      BY <1>0, <2>9 DEF Tables
    <3> HIDE DEF me
    <3>4. OwnerStep
      BY <1>0, <2>2, <2>9, <3>1, <3>2, <3>3 DEF OwnerStep, me
    <3>5. ActorStep
      BY <1>0, <2>2, <2>9, <3>1 DEF ActorStep, me
    <3> QED BY <3>4, <3>5
  <2>10. ASSUME NEW o \in Orgs, NEW u \in Users, NEW new \in Roles, update_member_role(r, o, u, new)
         PROVE  OwnerStep /\ ActorStep
    <3>1. /\ db'.invites = db.invites /\ db'.projects = db.projects
          /\ db'.role = [db.role EXCEPT ![o][u] = new]
          /\ Manager(db.role[o][me]) /\ may_change(db.role[o][me], db.role[o][u], new)
      BY <1>0, <2>10 DEF update_member_role, Command, Answer, Tables
    <3>2. Member(db, o, me) /\ (db.role[o][me] = "owner" \/ (db.role[o][u] # "owner" /\ new # "owner"))
      BY <3>1 DEF Manager, Member, may_change
    <3> HIDE DEF me
    <3> QED BY <2>9, <3>1, <3>2
  <2>11. ASSUME NEW o \in Orgs, NEW u \in Users, remove_member(r, o, u) PROVE OwnerStep /\ ActorStep
    <3> DEFINE l == me = u
    <3>1. /\ db' = RemoveMemberRow(db, o, u, l) /\ db.role[o][me] # "none"
          /\ me = u \/ may_change(db.role[o][me], db.role[o][u], "none")
      BY <2>11 DEF remove_member, Command, Answer
    <3> HIDE DEF me, l
    <3>2. /\ db'.invites = db.invites /\ db'.projects = db.projects
          /\ db'.role = [db.role EXCEPT ![o][u] = "none"]
      BY <1>0, <3>1 DEF Tables, RemoveMemberRow
    <3>3. Member(db, o, me) /\ (db.role[o][me] = "owner" \/ (db.role[o][u] # "owner" /\ "none" # "owner"))
      BY <3>1 DEF Member, may_change
    <3> QED BY <2>9, <3>2, <3>3
  <2>12. ASSUME NEW o \in Orgs, NEW u \in Users, NEW role \in InvitedRoles, create_invite(r, o, u, role)
         PROVE  OwnerStep /\ ActorStep
    <3> DEFINE i == [id |-> minted + 1, org |-> o, email |-> u, role |-> role, exp |-> now + InviteTtl]
    <3>1. /\ db'.role = db.role /\ db'.projects = db.projects
          /\ db'.invites \subseteq db.invites \cup {i}
          /\ Manager(db.role[o][me]) /\ (role = "owner" => db.role[o][me] = "owner")
      BY <1>0, <2>12 DEF create_invite, Command, Answer, Tables
    <3>2. i.org = o /\ i.role = role
      OBVIOUS
    <3>3. Member(db, o, me)
      BY <3>1 DEF Manager, Member
    <3> HIDE DEF i
    <3> QED BY <2>2, <3>1, <3>2, <3>3 DEF OwnerStep, ActorStep
  <2>13. ASSUME NEW i \in db.invites, revoke_invite(r, i) PROVE OwnerStep /\ ActorStep
    BY <1>0, <2>13, IdleMembership DEF revoke_invite, Command, Answer, Tables
  <2> QED BY <1>1, <2>4, <2>5, <2>6, <2>7, <2>8, <2>10, <2>11, <2>12, <2>13 DEF Handler
<1>2. ASSUME NEW r \in Reqs, Arrive(r) PROVE OwnerStep /\ ActorStep
  <2>1. CASE db' = db
    BY <2>1, IdleMembership
  <2>2. ASSUME NEW u \in Users, NEW i \in 1..MaxSessions, AuthenticateExpired(r, u, i)
        PROVE  OwnerStep /\ ActorStep
    BY <1>0, <2>2, IdleMembership DEF AuthenticateExpired, Answer, Tables
  <2>3. ASSUME NEW i \in db.invites, AcceptBegins(r, i), ~(i.exp > now) PROVE OwnerStep /\ ActorStep
    BY <1>0, <2>3, IdleMembership DEF AcceptBegins, Answer, Tables
  <2> QED BY <1>2, <2>1, <2>2, <2>3
      DEF Arrive, AuthenticateSession, SetupBegins, LoginBegins, AuthenticateKey, AcceptBegins
<1>3. ASSUME NEW r \in Reqs, GiveUp(r) \/ StartSession(r) PROVE OwnerStep /\ ActorStep
  BY <1>0, <1>3, IdleMembership DEF GiveUp, StartSession, Answer, start_session, Tables
<1>4. ASSUME NEW r \in Reqs, NEW o \in Orgs, Setup(r, o) PROVE OwnerStep /\ ActorStep
  <2>1. setups' # setups /\ db'.invites = db.invites
    BY <1>0, <1>4 DEF Setup, Answer, Tables
  <2> QED BY <2>1, SetupMembership
<1>5. ASSUME NEW r \in Reqs, NEW opened \in BOOLEAN, accept_invite(r, opened)
      PROVE  OwnerStep /\ ActorStep
  <2> DEFINE job == req[r].job
             i == CHOOSE x \in Usable(db, job.invite) : TRUE
             u == job.user
             used == [db EXCEPT !.invites = @ \ {i}]
             joined == [used EXCEPT !.users = @ \cup {u}, !.role[i.org][u] = i.role]
  <2>1. req[r].pc = "hashing" /\ job.kind = "accept" /\ req' = [req EXCEPT ![r] = Idle]
        /\ i \in Usable(db, job.invite)
    BY <1>5 DEF accept_invite, Ready, Answer
  <2>2. \/ db' = used
        \/ ~Member(db, i.org, u) /\ (db' = joined \/ db' = start_session(joined, u, job.pv))
    BY <1>5 DEF accept_invite, Answer
  <2>3. i \in db.invites /\ i = job.invite /\ i.email = u
    BY <2>1 DEF Usable, Inv, RequestsOK, Fits
  <2>4. Actor = u
    BY <2>1, ActorOf
  <2>5. i \in InviteRow /\ i.org \in Orgs /\ i.role \in Roles /\ i.email \in Users
    BY <1>0, <2>3 DEF Tables, InviteRow
  <2> HIDE DEF i, u, job
  <2>6. CASE db' = used
    BY <1>0, <2>6, IdleMembership DEF Tables
  <2>7. CASE ~Member(db, i.org, u) /\ (db' = joined \/ db' = start_session(joined, u, job.pv))
    <3>1. /\ joined.invites = db.invites \ {i} /\ joined.projects = db.projects
          /\ joined.role = [db.role EXCEPT ![i.org][u] = i.role]
          /\ start_session(joined, u, job.pv).invites = joined.invites
          /\ start_session(joined, u, job.pv).projects = joined.projects
          /\ start_session(joined, u, job.pv).role = joined.role
      BY <1>0 DEF Tables, start_session
    <3> HIDE DEF used, joined
    <3>2. /\ db'.invites = db.invites \ {i} /\ db'.projects = db.projects
          /\ db'.role = [db.role EXCEPT ![i.org][u] = i.role]
      BY <2>7, <3>1
    <3>3. \A y \in Orgs : y # i.org => db'.role[y] = db.role[y]
      BY <1>0, <3>2 DEF Tables
    <3>4. \A v \in Users : v # u => db'.role[i.org][v] = db.role[i.org][v]
      BY <1>0, <2>5, <3>2 DEF Tables
    <3>5. db'.role[i.org][u] = i.role /\ db.role[i.org][u] = "none"
      BY <1>0, <2>3, <2>5, <2>7, <3>2 DEF Tables, Member
    <3>6. InviteTaken(i.org, u, i.role)
      BY <2>3, <3>2 DEF InviteTaken
    <3>7. OwnerStep
      BY <1>0, <3>2, <3>3, <3>4, <3>5, <3>6 DEF OwnerStep
    <3>8. ActorStep
      BY <1>0, <2>4, <2>5, <3>2, <3>3, <3>6 DEF ActorStep
    <3> QED BY <3>7, <3>8
  <2> QED BY <2>2, <2>6, <2>7
<1>6. ASSUME NEW u \in Users, reset_password(u) PROVE OwnerStep /\ ActorStep
  BY <1>0, <1>6, IdleMembership DEF reset_password, ResetRow, Tables
<1>7. CASE Tick \/ ReleaseWriterLock \/ Stop \/ Restart \/ UNCHANGED vars
  <2>1. db' = db
    BY <1>7 DEF Tick, ReleaseWriterLock, Stop, Restart, vars
  <2> QED BY <2>1, IdleMembership
<1> QED BY <1>1, <1>2, <1>3, <1>4, <1>5, <1>6, <1>7 DEF Next, RequestStep

\* A login opens a session within the limit.
LEMMA LoginOpens ==
    ASSUME Inv PROVE LoginStep
<1> SUFFICES ASSUME NEW r \in Reqs, StartSession(r)
             PROVE  LET s == db'.sessions[req[r].job.user]
                    IN /\ s # <<>> /\ s[Len(s)].exp = now + SessionTtl
                       /\ Cardinality({i \in 1..Len(s) : s[i].exp > now}) <= MaxSessions
  BY DEF LoginStep
<1> DEFINE u == req[r].job.user
           pv == req[r].job.pv
           S == [v \in Users |-> SessionRow]
           F == start_session(db, u, pv).sessions
<1>1. Tables(db) /\ now \in Nat /\ SessionTtl \in Nat /\ MaxSessions \in Nat
  BY LimitsAssumption DEF Inv, Shapes
<1>2. u \in Users /\ pv \in Nat
  <2>1. req[r].pc = "hashing" /\ req[r].job.kind = "login"
    BY DEF StartSession, Ready
  <2>2. req[r] \in Hashing
    BY <2>1 DEF Inv, Shapes, Idle, Authed
  <2>3. req[r].job \in LoginJob
    BY <2>1, <2>2 DEF Hashing, SetupJob, AcceptJob
  <2> QED BY <2>3 DEF LoginJob
<1>3. \A v \in Users : db.sessions[v] \in Seq(S[v])
  BY <1>1 DEF Tables
<1>4. [exp |-> now + SessionTtl, pv |-> pv] \in S[u]
  <2>1. now + SessionTtl \in Nat
    BY <1>1
  <2> QED BY <1>2, <2>1 DEF SessionRow
<1>5. db' = start_session(db, u, pv)
  BY DEF StartSession, Answer
<1> HIDE DEF u, pv, S
<1>6. F[u] \in Seq(S[u]) /\ F[u] # <<>> /\ F[u][Len(F[u])].exp = now + SessionTtl /\ Len(F[u]) <= MaxSessions
  <2>1. Tables(db) /\ u \in Users /\ [exp |-> now + SessionTtl, pv |-> pv] \in S[u]
    BY <1>1, <1>2, <1>4
  <2>2. LET G == start_session(db, u, pv).sessions
        IN /\ G = [v \in Users |-> G[v]]
           /\ \A v \in Users : G[v] \in Seq(S[v])
           /\ G[u] # <<>> /\ G[u][Len(G[u])].exp = now + SessionTtl /\ Len(G[u]) <= MaxSessions
    BY <1>3, <2>1, StartsSession
  <2> QED BY <1>2, <2>2
<1>7. db'.sessions[u] = F[u]
  BY <1>5
<1> DEFINE s == F[u]
           L == {i \in 1..Len(s) : s[i].exp > now}
<1> HIDE DEF F
<1>8. Len(s) \in Nat
  BY <1>6
<1>9. Cardinality(L) <= MaxSessions
  <2>1. IsFiniteSet(1..Len(s)) /\ Cardinality(1..Len(s)) = Len(s)
    <3> DEFINE n == Len(s)
    <3>1. n \in Nat
      BY <1>8
    <3> HIDE DEF n
    <3>2. IsFiniteSet(1..n) /\ Cardinality(1..n) = IF 1 > n THEN 0 ELSE n - 1 + 1
      BY <3>1, FS_Interval
    <3>3. Cardinality(1..n) = n
      BY <3>1, <3>2
    <3> QED BY <3>2, <3>3 DEF n
  <2>2. L \subseteq 1..Len(s)
    OBVIOUS
  <2> HIDE DEF L, s
  <2>3. IsFiniteSet(L) /\ Cardinality(L) <= Len(s) /\ Cardinality(L) \in Nat
    BY <2>1, <2>2, FS_Subset, FS_CardinalityType
  <2>4. Len(s) <= MaxSessions
    BY <1>6 DEF s
  <2> QED BY <1>1, <1>8, <2>3, <2>4
<1> QED BY <1>6, <1>7, <1>9 DEF u

\* Only owners make owners; who was removed changes nothing; a login yields a
\* session also at the limit: of every step, whatever runs at the same time.
THEOREM MembershipStepsAlways == Spec => MembershipSteps
<1>1. Inv /\ [Next]_vars => [OwnerStep]_vars /\ [ActorStep]_vars /\ [LoginStep]_vars
  BY MembershipStep, LoginOpens
<1> QED BY InvAlways, <1>1, PTL DEF Spec, MembershipSteps, OwnersMadeByOwners, RemovedActorPowerless, LoginGivesSession

-----------------------------------------------------------------------------
(* Saved resources.                                                         *)

InsightRow == [project : Projects, id : InsightIds, query : Queries, supported : BOOLEAN]
DashboardRow == [project : Projects, id : DashboardIds]
TileRow == [project : Projects, dashboard : DashboardIds, position : Nat, insight : InsightIds]
ShareRow == [project : Projects, token : ShareTokens, kind : {"insight", "dashboard"},
             object : InsightIds \cup DashboardIds, exp : Expiries]

ResTables(b) ==
    /\ b = [insights |-> b.insights, dashboards |-> b.dashboards, tiles |-> b.tiles, shares |-> b.shares]
    /\ b.insights \subseteq InsightRow /\ b.dashboards \subseteq DashboardRow
    /\ b.tiles \subseteq TileRow /\ b.shares \subseteq ShareRow

ResInv ==
    /\ ResTables(rdb)
    /\ rreq = [write |-> rreq.write, public |-> rreq.public]
    /\ rreq.write = NoRequest \/ rreq.write \in [pc : {"authorized"}, project : Projects]
    /\ rreq.public = NoRequest \/ rreq.public \in [pc : {"resolving"}, share : ShareRow]
    /\ NothingDangles

\* What a store method writes: where the rows come from, and what they point at.
Sound(b, p) ==
    /\ ResTables(b)
    /\ \A t \in b.tiles : /\ \E x \in b.insights : x.project = t.project /\ x.id = t.insight
                          /\ [project |-> t.project, id |-> t.dashboard] \in b.dashboards
    /\ \A s \in b.shares : IF s.kind = "insight"
                           THEN \E x \in b.insights : x.project = s.project /\ x.id = s.object
                           ELSE [project |-> s.project, id |-> s.object] \in b.dashboards
    /\ \A s, z \in b.shares : s.token = z.token => s = z
    /\ \A q \in Projects \ {p} : RowsOf(b, q) = RowsOf(rdb, q)

\* Writing one insight keeps every reference.
LEMMA InsightWritten ==
    ASSUME ResInv, NEW p \in Projects, NEW i \in InsightIds, NEW q \in Queries
    PROVE  /\ Sound([rdb EXCEPT !.insights = WithoutInsight(p, i) \cup {Row(p, i, q)}], p)
           /\ i \notin {x.id : x \in rdb.insights} =>
                Sound([rdb EXCEPT !.insights = @ \cup {Row(p, i, q)}], p)
<1> DEFINE row == Row(p, i, q)
<1>1. row \in InsightRow /\ row.project = p /\ row.id = i
  BY DEF Row, InsightRow, Supported
<1> HIDE DEF row
<1>2. ASSUME NEW I, I \subseteq InsightRow,
             \A x \in rdb.insights : (x.project = p /\ x.id = i) \/ x \in I, row \in I,
             \A x \in I : x \in rdb.insights \/ x = row
      PROVE  Sound([rdb EXCEPT !.insights = I], p)
  <2> DEFINE b == [rdb EXCEPT !.insights = I]
  <2>1. ResTables(b) /\ b.insights = I /\ b.dashboards = rdb.dashboards /\ b.tiles = rdb.tiles /\ b.shares = rdb.shares
    BY <1>2 DEF ResInv, ResTables
  <2> HIDE DEF b
  <2>2. ASSUME NEW x \in rdb.insights PROVE \E y \in b.insights : y.project = x.project /\ y.id = x.id
    BY <1>1, <1>2, <2>1
  <2>3. \A t \in b.tiles : /\ \E x \in b.insights : x.project = t.project /\ x.id = t.insight
                           /\ [project |-> t.project, id |-> t.dashboard] \in b.dashboards
    <3>1. \A t \in rdb.tiles : ensure_insight(t.project, t.insight) /\ ensure_dashboard(t.project, t.dashboard)
      BY DEF ResInv, NothingDangles
    <3> QED BY <2>1, <2>2, <3>1 DEF ensure_insight, ensure_dashboard
  <2>4. \A s \in b.shares : IF s.kind = "insight"
                            THEN \E x \in b.insights : x.project = s.project /\ x.id = s.object
                            ELSE [project |-> s.project, id |-> s.object] \in b.dashboards
    <3>1. \A s \in rdb.shares : ensure_object(s.project, s.kind, s.object)
      BY DEF ResInv, NothingDangles
    <3> QED BY <2>1, <2>2, <3>1 DEF ensure_object, ensure_insight, ensure_dashboard
  <2>5. \A z \in Projects \ {p} : RowsOf(b, z) = RowsOf(rdb, z)
    <3>1. \A z \in Projects \ {p} : {x \in b.insights : x.project = z} = {x \in rdb.insights : x.project = z}
      BY <1>1, <1>2, <2>1
    <3> QED BY <2>1, <3>1 DEF RowsOf
  <2>6. \A s, z \in b.shares : s.token = z.token => s = z
    BY <2>1 DEF ResInv, NothingDangles
  <2> QED BY <2>1, <2>3, <2>4, <2>5, <2>6 DEF Sound, b
<1>3. Sound([rdb EXCEPT !.insights = WithoutInsight(p, i) \cup {row}], p)
  <2> DEFINE I == WithoutInsight(p, i) \cup {row}
  <2>1. /\ I \subseteq InsightRow /\ \A x \in rdb.insights : (x.project = p /\ x.id = i) \/ x \in I
        /\ row \in I /\ \A x \in I : x \in rdb.insights \/ x = row
    BY <1>1 DEF WithoutInsight, ResInv, ResTables
  <2> HIDE DEF I
  <2> QED BY <1>2, <2>1 DEF I
<1>4. Sound([rdb EXCEPT !.insights = @ \cup {row}], p)
  <2> DEFINE I == rdb.insights \cup {row}
  <2>1. /\ I \subseteq InsightRow /\ \A x \in rdb.insights : (x.project = p /\ x.id = i) \/ x \in I
        /\ row \in I /\ \A x \in I : x \in rdb.insights \/ x = row
    BY <1>1 DEF ResInv, ResTables
  <2> HIDE DEF I
  <2>2. Sound([rdb EXCEPT !.insights = I], p)
    BY <1>2, <2>1
  <2> QED BY <2>2 DEF I
<1> QED BY <1>3, <1>4 DEF row

\* Deleting an insight takes its tiles and shares along.
LEMMA InsightDeleted ==
    ASSUME ResInv, NEW p \in Projects, NEW i \in InsightIds
    PROVE  Sound(CascadeInsight([rdb EXCEPT !.insights = WithoutInsight(p, i)], p, i), p)
<1> DEFINE b == CascadeInsight([rdb EXCEPT !.insights = WithoutInsight(p, i)], p, i)
<1>1. /\ b.insights = {x \in rdb.insights : ~(x.project = p /\ x.id = i)} /\ b.dashboards = rdb.dashboards
      /\ b.tiles = {t \in rdb.tiles : ~(t.project = p /\ t.insight = i)}
      /\ b.shares = {s \in rdb.shares : ~(s.project = p /\ s.kind = "insight" /\ s.object = i)}
      /\ b = [insights |-> b.insights, dashboards |-> b.dashboards, tiles |-> b.tiles, shares |-> b.shares]
  <2> DEFINE I == WithoutInsight(p, i)
             c == [rdb EXCEPT !.insights = I]
  <2>1. /\ c.insights = I /\ c.dashboards = rdb.dashboards /\ c.tiles = rdb.tiles /\ c.shares = rdb.shares
        /\ c = [insights |-> c.insights, dashboards |-> c.dashboards, tiles |-> c.tiles, shares |-> c.shares]
    <3> HIDE DEF I
    <3> QED BY DEF ResInv, ResTables
  <2> DEFINE T == {t \in c.tiles : ~(t.project = p /\ t.insight = i)}
             S == {s \in c.shares : ~(s.project = p /\ s.kind = "insight" /\ s.object = i)}
  <2>2. b = [c EXCEPT !.tiles = T, !.shares = S]
    BY DEF CascadeInsight
  <2>3. b.insights = I /\ b.dashboards = rdb.dashboards /\ b.tiles = T /\ b.shares = S
        /\ b = [insights |-> b.insights, dashboards |-> b.dashboards, tiles |-> b.tiles, shares |-> b.shares]
    <3> HIDE DEF b, c, T, S
    <3> QED BY <2>1, <2>2
  <2>4. T = {t \in rdb.tiles : ~(t.project = p /\ t.insight = i)}
        /\ S = {s \in rdb.shares : ~(s.project = p /\ s.kind = "insight" /\ s.object = i)}
    <3> HIDE DEF c
    <3> QED BY <2>1
  <2> HIDE DEF b, c, T, S
  <2> QED BY <2>3, <2>4 DEF I, WithoutInsight
<1> HIDE DEF b
<1>2. ResTables(b)
  BY <1>1 DEF ResInv, ResTables
<1>3. \A t \in b.tiles : /\ \E x \in b.insights : x.project = t.project /\ x.id = t.insight
                         /\ [project |-> t.project, id |-> t.dashboard] \in b.dashboards
  BY <1>1 DEF ResInv, NothingDangles, ensure_insight, ensure_dashboard
<1>4. \A s \in b.shares : IF s.kind = "insight"
                          THEN \E x \in b.insights : x.project = s.project /\ x.id = s.object
                          ELSE [project |-> s.project, id |-> s.object] \in b.dashboards
  BY <1>1 DEF ResInv, NothingDangles, ensure_object, ensure_insight, ensure_dashboard
<1>5. \A z \in Projects \ {p} : RowsOf(b, z) = RowsOf(rdb, z)
  <2>1. ASSUME NEW z \in Projects \ {p}
        PROVE  /\ {x \in b.insights : x.project = z} = {x \in rdb.insights : x.project = z}
               /\ {x \in b.tiles : x.project = z} = {x \in rdb.tiles : x.project = z}
               /\ {x \in b.shares : x.project = z} = {x \in rdb.shares : x.project = z}
    BY <1>1
  <2> QED BY <1>1, <2>1 DEF RowsOf
<1>6. \A s, z \in b.shares : s.token = z.token => s = z
  BY <1>1 DEF ResInv, NothingDangles
<1> QED BY <1>2, <1>3, <1>4, <1>5, <1>6 DEF Sound, b

\* Deleting a dashboard takes its tiles and shares along.
LEMMA DashboardDeleted ==
    ASSUME ResInv, NEW p \in Projects, NEW d \in DashboardIds
    PROVE  Sound(CascadeDashboard([rdb EXCEPT !.dashboards = @ \ {[project |-> p, id |-> d]}], p, d), p)
<1> DEFINE b == CascadeDashboard([rdb EXCEPT !.dashboards = @ \ {[project |-> p, id |-> d]}], p, d)
<1>1. /\ b.insights = rdb.insights /\ b.dashboards = rdb.dashboards \ {[project |-> p, id |-> d]}
      /\ b.tiles = {t \in rdb.tiles : ~(t.project = p /\ t.dashboard = d)}
      /\ b.shares = {s \in rdb.shares : ~(s.project = p /\ s.kind = "dashboard" /\ s.object = d)}
      /\ b = [insights |-> b.insights, dashboards |-> b.dashboards, tiles |-> b.tiles, shares |-> b.shares]
  <2> DEFINE D == rdb.dashboards \ {[project |-> p, id |-> d]}
             c == [rdb EXCEPT !.dashboards = D]
  <2>1. /\ c.insights = rdb.insights /\ c.dashboards = D /\ c.tiles = rdb.tiles /\ c.shares = rdb.shares
        /\ c = [insights |-> c.insights, dashboards |-> c.dashboards, tiles |-> c.tiles, shares |-> c.shares]
    <3> HIDE DEF D
    <3> QED BY DEF ResInv, ResTables
  <2> DEFINE T == {t \in c.tiles : ~(t.project = p /\ t.dashboard = d)}
             S == {s \in c.shares : ~(s.project = p /\ s.kind = "dashboard" /\ s.object = d)}
  <2>2. b = [c EXCEPT !.tiles = T, !.shares = S]
    BY DEF CascadeDashboard
  <2>3. b.insights = rdb.insights /\ b.dashboards = D /\ b.tiles = T /\ b.shares = S
        /\ b = [insights |-> b.insights, dashboards |-> b.dashboards, tiles |-> b.tiles, shares |-> b.shares]
    <3> HIDE DEF b, c, T, S, D
    <3> QED BY <2>1, <2>2
  <2>4. T = {t \in rdb.tiles : ~(t.project = p /\ t.dashboard = d)}
        /\ S = {s \in rdb.shares : ~(s.project = p /\ s.kind = "dashboard" /\ s.object = d)}
    <3> HIDE DEF c
    <3> QED BY <2>1
  <2> HIDE DEF b, c, T, S
  <2> QED BY <2>3, <2>4
<1> HIDE DEF b
<1>2. ResTables(b)
  BY <1>1 DEF ResInv, ResTables
<1>3. \A t \in b.tiles : /\ \E x \in b.insights : x.project = t.project /\ x.id = t.insight
                         /\ [project |-> t.project, id |-> t.dashboard] \in b.dashboards
  BY <1>1 DEF ResInv, NothingDangles, ensure_insight, ensure_dashboard
<1>4. \A s \in b.shares : IF s.kind = "insight"
                          THEN \E x \in b.insights : x.project = s.project /\ x.id = s.object
                          ELSE [project |-> s.project, id |-> s.object] \in b.dashboards
  <2>1. \A s \in b.shares : s.kind \in {"insight", "dashboard"}
    BY <1>2 DEF ResTables, ShareRow
  <2> QED BY <1>1, <2>1 DEF ResInv, NothingDangles, ensure_object, ensure_insight, ensure_dashboard
<1>5. \A z \in Projects \ {p} : RowsOf(b, z) = RowsOf(rdb, z)
  <2>1. ASSUME NEW z \in Projects \ {p}
        PROVE  /\ {x \in b.dashboards : x.project = z} = {x \in rdb.dashboards : x.project = z}
               /\ {x \in b.tiles : x.project = z} = {x \in rdb.tiles : x.project = z}
               /\ {x \in b.shares : x.project = z} = {x \in rdb.shares : x.project = z}
    BY <1>1
  <2> QED BY <1>1, <2>1 DEF RowsOf
<1>6. \A s, z \in b.shares : s.token = z.token => s = z
  BY <1>1 DEF ResInv, NothingDangles
<1> QED BY <1>2, <1>3, <1>4, <1>5, <1>6 DEF Sound, b

\* The fields of the tables after a dashboard was written.
LEMMA DashboardFields ==
    ASSUME ResTables(rdb), NEW D, NEW T
    PROVE  LET b == [rdb EXCEPT !.dashboards = D, !.tiles = T]
           IN /\ b.insights = rdb.insights /\ b.dashboards = D /\ b.tiles = T /\ b.shares = rdb.shares
              /\ b = [insights |-> b.insights, dashboards |-> b.dashboards, tiles |-> b.tiles, shares |-> b.shares]
<1> DEFINE c == [rdb EXCEPT !.dashboards = D]
           b == [c EXCEPT !.tiles = T]
<1>1. /\ c.insights = rdb.insights /\ c.dashboards = D /\ c.tiles = rdb.tiles /\ c.shares = rdb.shares
      /\ c = [insights |-> c.insights, dashboards |-> c.dashboards, tiles |-> c.tiles, shares |-> c.shares]
  BY DEF ResTables
<1>2. b = [rdb EXCEPT !.dashboards = D, !.tiles = T]
  OBVIOUS
<1> HIDE DEF c
<1>3. /\ b.insights = rdb.insights /\ b.dashboards = D /\ b.tiles = T /\ b.shares = rdb.shares
      /\ b = [insights |-> b.insights, dashboards |-> b.dashboards, tiles |-> b.tiles, shares |-> b.shares]
  BY <1>1
<1> HIDE DEF b
<1> QED BY <1>2, <1>3

\* Adding a dashboard, and giving one its tiles: the insights are there.
LEMMA DashboardWritten ==
    ASSUME ResInv, NEW p \in Projects, NEW d \in DashboardIds, NEW D, NEW T,
           D = rdb.dashboards \/ D = rdb.dashboards \cup {[project |-> p, id |-> d]},
           \/ T = rdb.tiles
           \/ \E ids \in TileLists :
                /\ [project |-> p, id |-> d] \in D /\ \A n \in DOMAIN ids : ensure_insight(p, ids[n])
                /\ T = WithoutTiles(p, d) \cup Tiles(p, d, ids)
    PROVE  Sound([rdb EXCEPT !.dashboards = D, !.tiles = T], p)
<1> DEFINE b == [rdb EXCEPT !.dashboards = D, !.tiles = T]
           dash == [project |-> p, id |-> d]
<1>1. /\ b.insights = rdb.insights /\ b.dashboards = D /\ b.tiles = T /\ b.shares = rdb.shares
      /\ b = [insights |-> b.insights, dashboards |-> b.dashboards, tiles |-> b.tiles, shares |-> b.shares]
  <2>1. ResTables(rdb)
    BY DEF ResInv
  <2> QED BY <2>1, DashboardFields
<1>2. dash \in DashboardRow /\ dash.project = p
  BY DEF DashboardRow
<1>3. \A t \in T : \/ t \in rdb.tiles
                   \/ /\ t \in TileRow /\ t.project = p /\ t.dashboard = d
                      /\ dash \in D /\ ensure_insight(p, t.insight)
  <2> SUFFICES ASSUME NEW ids \in TileLists, NEW t \in Tiles(p, d, ids),
                      \A n \in DOMAIN ids : ensure_insight(p, ids[n])
               PROVE  t \in TileRow /\ t.project = p /\ t.dashboard = d /\ ensure_insight(p, t.insight)
    BY DEF WithoutTiles
  <2>1. PICK n \in DOMAIN ids : t = [project |-> p, dashboard |-> d, position |-> n, insight |-> ids[n]]
    BY DEF Tiles
  <2>2. n \in Nat /\ ids[n] \in InsightIds
    <3>1. PICK m \in 0..MaxTiles : ids \in [1..m -> InsightIds]
      BY DEF TileLists
    <3>2. m \in Nat
      BY <3>1, ResAssumption
    <3> QED BY <3>1, <3>2, <2>1
  <2> QED BY <2>1, <2>2 DEF TileRow
<1>4. \A t \in rdb.tiles : t.project # p => t \in T
  BY DEF WithoutTiles
<1> HIDE DEF b, dash
<1>5. ResTables(b)
  BY <1>1, <1>2, <1>3 DEF ResInv, ResTables, dash
<1>6. \A t \in b.tiles : /\ \E x \in b.insights : x.project = t.project /\ x.id = t.insight
                         /\ [project |-> t.project, id |-> t.dashboard] \in b.dashboards
  <2> SUFFICES ASSUME NEW t \in T
               PROVE  /\ \E x \in rdb.insights : x.project = t.project /\ x.id = t.insight
                      /\ [project |-> t.project, id |-> t.dashboard] \in D
    BY <1>1
  <2>1. CASE t \in rdb.tiles
    BY <2>1 DEF ResInv, NothingDangles, ensure_insight, ensure_dashboard
  <2>2. CASE t \notin rdb.tiles
    BY <1>3, <2>2 DEF ensure_insight, dash
  <2> QED BY <2>1, <2>2
<1>7. \A s \in b.shares : IF s.kind = "insight"
                          THEN \E x \in b.insights : x.project = s.project /\ x.id = s.object
                          ELSE [project |-> s.project, id |-> s.object] \in b.dashboards
  BY <1>1 DEF ResInv, NothingDangles, ensure_object, ensure_insight, ensure_dashboard
<1>8. \A z \in Projects \ {p} : RowsOf(b, z) = RowsOf(rdb, z)
  <2>1. ASSUME NEW z \in Projects \ {p}
        PROVE  /\ {x \in D : x.project = z} = {x \in rdb.dashboards : x.project = z}
               /\ {x \in T : x.project = z} = {x \in rdb.tiles : x.project = z}
    BY <1>2, <1>3, <1>4 DEF dash
  <2> QED BY <1>1, <2>1 DEF RowsOf
<1>9. \A s, z \in b.shares : s.token = z.token => s = z
  BY <1>1 DEF ResInv, NothingDangles
<1> QED BY <1>5, <1>6, <1>7, <1>8, <1>9 DEF Sound, b

\* A share is added, replaced or dropped: one per token.
LEMMA ShareWritten ==
    ASSUME ResInv, NEW p \in Projects, NEW S, \A s \in S : s \in ShareRow,
           \A s \in S : s \in rdb.shares \/ (s.project = p /\ ensure_object(p, s.kind, s.object)),
           \A s \in rdb.shares : s.project # p => s \in S,
           \A s, z \in S : s.token = z.token => s = z
    PROVE  Sound([rdb EXCEPT !.shares = S], p)
<1> DEFINE b == [rdb EXCEPT !.shares = S]
<1>1. /\ b.insights = rdb.insights /\ b.dashboards = rdb.dashboards /\ b.tiles = rdb.tiles /\ b.shares = S
      /\ b = [insights |-> b.insights, dashboards |-> b.dashboards, tiles |-> b.tiles, shares |-> b.shares]
  BY DEF ResInv, ResTables
<1> HIDE DEF b
<1>2. ResTables(b)
  BY <1>1 DEF ResInv, ResTables
<1>3. \A t \in b.tiles : /\ \E x \in b.insights : x.project = t.project /\ x.id = t.insight
                         /\ [project |-> t.project, id |-> t.dashboard] \in b.dashboards
  BY <1>1 DEF ResInv, NothingDangles, ensure_insight, ensure_dashboard
<1>4. \A s \in b.shares : IF s.kind = "insight"
                          THEN \E x \in b.insights : x.project = s.project /\ x.id = s.object
                          ELSE [project |-> s.project, id |-> s.object] \in b.dashboards
  <2>1. \A s \in S : ensure_object(s.project, s.kind, s.object)
    BY DEF ResInv, NothingDangles
  <2> QED BY <1>1, <2>1 DEF ensure_object, ensure_insight, ensure_dashboard
<1>5. \A z \in Projects \ {p} : RowsOf(b, z) = RowsOf(rdb, z)
  <2>1. \A z \in Projects \ {p} : {x \in S : x.project = z} = {x \in rdb.shares : x.project = z}
    OBVIOUS
  <2> QED BY <1>1, <2>1 DEF RowsOf
<1> QED BY <1>1, <1>2, <1>3, <1>4, <1>5 DEF Sound, b

\* Every action that writes the tables leaves them sound.
LEMMA ResWrites ==
    ASSUME ResInv, NEW p \in Projects,
           \/ \E i \in InsightIds : InsightWrites(p, i) \/ \E q \in Queries : import_insight(p, i, q)
           \/ \E d \in DashboardIds : DashboardWrites(p, d) \/ \E ids \in TileLists : import_dashboard(p, d, ids)
           \/ ShareWrites(p)
           \/ \E t \in ShareTokens, kind \in {"insight", "dashboard"}, e \in Expiries :
                \E o \in Objects(kind) : import_share(p, t, kind, o, e)
    PROVE  /\ Sound(rdb', p)
           /\ rreq' = rreq \/ (/\ rreq.write # NoRequest /\ rreq.write.project = p
                                /\ rreq' = [rreq EXCEPT !.write = NoRequest])
<1>0. ResTables(rdb)
  BY DEF ResInv
<1>1. ASSUME NEW i \in InsightIds, InsightWrites(p, i) \/ \E q \in Queries : import_insight(p, i, q)
      PROVE  Sound(rdb', p)
  <2>1. ASSUME NEW q \in Queries, create_insight(p, i, q) \/ update_insight(p, i, q) \/ import_insight(p, i, q)
        PROVE  Sound(rdb', p)
    <3>1. \/ rdb' = [rdb EXCEPT !.insights = WithoutInsight(p, i) \cup {Row(p, i, q)}]
          \/ /\ i \notin {x.id : x \in rdb.insights}
             /\ rdb' = [rdb EXCEPT !.insights = @ \cup {Row(p, i, q)}]
      BY <2>1 DEF create_insight, update_insight, import_insight, Import, Invoke
    <3>2. /\ Sound([rdb EXCEPT !.insights = WithoutInsight(p, i) \cup {Row(p, i, q)}], p)
          /\ i \notin {x.id : x \in rdb.insights} =>
               Sound([rdb EXCEPT !.insights = @ \cup {Row(p, i, q)}], p)
      BY InsightWritten
    <3> QED BY <3>1, <3>2
  <2>2. ASSUME delete_insight(p, i) PROVE Sound(rdb', p)
    BY <2>2, InsightDeleted DEF delete_insight, Invoke
  <2> QED BY <1>1, <2>1, <2>2 DEF InsightWrites
<1>2. ASSUME NEW d \in DashboardIds, DashboardWrites(p, d) \/ \E ids \in TileLists : import_dashboard(p, d, ids)
      PROVE  Sound(rdb', p)
  <2> DEFINE dash == [project |-> p, id |-> d]
  <2>1. CASE create_dashboard(p, d)
    <3> DEFINE D == rdb.dashboards \cup {dash}
               T == rdb.tiles
    <3>1. rdb' = [rdb EXCEPT !.dashboards = D, !.tiles = T]
      <4>1. rdb' = [rdb EXCEPT !.dashboards = D]
        BY <2>1 DEF create_dashboard, Invoke
      <4> HIDE DEF D
      <4> QED BY <1>0, <4>1 DEF ResTables
    <3>2. D = rdb.dashboards \cup {[project |-> p, id |-> d]} /\ T = rdb.tiles
      OBVIOUS
    <3> HIDE DEF D, T
    <3>3. Sound([rdb EXCEPT !.dashboards = D, !.tiles = T], p)
      BY <3>2, DashboardWritten
    <3> QED BY <3>1, <3>3
  <2>2. CASE update_dashboard(p, d)
    <3> DEFINE D == rdb.dashboards
               T == rdb.tiles
    <3>1. rdb' = [rdb EXCEPT !.dashboards = D, !.tiles = T]
      BY <1>0, <2>2 DEF update_dashboard, Invoke, ResTables
    <3>2. D = rdb.dashboards /\ T = rdb.tiles
      OBVIOUS
    <3> HIDE DEF D, T
    <3>3. Sound([rdb EXCEPT !.dashboards = D, !.tiles = T], p)
      BY <3>2, DashboardWritten
    <3> QED BY <3>1, <3>3
  <2>3. CASE delete_dashboard(p, d)
    BY <2>3, DashboardDeleted DEF delete_dashboard, Invoke
  <2>4. ASSUME NEW ids \in TileLists, replace_dashboard_tiles(p, d, ids) PROVE Sound(rdb', p)
    <3> DEFINE D == rdb.dashboards
               T == WithoutTiles(p, d) \cup Tiles(p, d, ids)
    <3>1. rdb' = [rdb EXCEPT !.dashboards = D, !.tiles = T]
      <4>1. rdb' = [rdb EXCEPT !.tiles = T]
        BY <2>4 DEF replace_dashboard_tiles, Invoke
      <4> HIDE DEF T
      <4> QED BY <1>0, <4>1 DEF ResTables
    <3>2. /\ D = rdb.dashboards /\ [project |-> p, id |-> d] \in D
          /\ \A n \in DOMAIN ids : ensure_insight(p, ids[n])
          /\ T = WithoutTiles(p, d) \cup Tiles(p, d, ids)
      BY <2>4 DEF replace_dashboard_tiles, ensure_dashboard
    <3> HIDE DEF D, T
    <3>3. Sound([rdb EXCEPT !.dashboards = D, !.tiles = T], p)
      BY <3>2, DashboardWritten
    <3> QED BY <3>1, <3>3
  <2>5. ASSUME NEW ids \in TileLists, import_dashboard(p, d, ids) PROVE Sound(rdb', p)
    <3> DEFINE D == rdb.dashboards \cup {dash}
               T == WithoutTiles(p, d) \cup Tiles(p, d, ids)
    <3>1. rdb' = [rdb EXCEPT !.dashboards = D, !.tiles = T]
      BY <2>5 DEF import_dashboard, Import
    <3>2. /\ D = rdb.dashboards \cup {[project |-> p, id |-> d]} /\ [project |-> p, id |-> d] \in D
          /\ \A n \in DOMAIN ids : ensure_insight(p, ids[n])
          /\ T = WithoutTiles(p, d) \cup Tiles(p, d, ids)
      BY <2>5 DEF import_dashboard
    <3> HIDE DEF D, T
    <3>3. Sound([rdb EXCEPT !.dashboards = D, !.tiles = T], p)
      BY <3>2, DashboardWritten
    <3> QED BY <3>1, <3>3
  <2> QED BY <1>2, <2>1, <2>2, <2>3, <2>4, <2>5 DEF DashboardWrites
<1>3. ASSUME NEW t \in ShareTokens, NEW kind \in {"insight", "dashboard"}, NEW e \in Expiries,
             NEW o \in Objects(kind), create_share(p, t, kind, o, e) \/ import_share(p, t, kind, o, e)
      PROVE  Sound(rdb', p)
  <2> DEFINE s == Share(p, t, kind, o, e)
             K == {x \in rdb.shares : ~(x.project = p /\ x.token = t)}
             S == K \cup {s}
  <2>1. s \in ShareRow /\ s.project = p /\ s.token = t /\ s.kind = kind /\ s.object = o
    BY DEF Share, ShareRow, Objects
  <2>2. /\ ensure_object(p, kind, o) /\ \A x \in rdb.shares : x.token = t => x \notin K
        /\ rdb' = [rdb EXCEPT !.shares = S]
    <3>1. CASE create_share(p, t, kind, o, e)
      <4>1. ensure_object(p, kind, o) /\ rdb' = [rdb EXCEPT !.shares = @ \cup {s}]
            /\ \A x \in rdb.shares : x.token # t
        BY <3>1 DEF create_share, Invoke
      <4>2. K = rdb.shares
        BY <4>1
      <4> QED BY <4>1, <4>2
    <3>2. CASE import_share(p, t, kind, o, e)
      BY <3>2 DEF import_share, Import
    <3> QED BY <1>3, <3>1, <3>2
  <2>3. /\ \A x \in S : x \in ShareRow
        /\ \A x \in S : x \in rdb.shares \/ (x.project = p /\ ensure_object(p, x.kind, x.object))
        /\ \A x \in rdb.shares : x.project # p => x \in S
        /\ \A x, z \in S : x.token = z.token => x = z
    <3> HIDE DEF s
    <3> QED BY <2>1, <2>2 DEF ResInv, ResTables, NothingDangles
  <2> HIDE DEF S
  <2>4. Sound([rdb EXCEPT !.shares = S], p)
    BY <2>3, ShareWritten
  <2> QED BY <2>2, <2>4
<1>4. ASSUME NEW s \in rdb.shares, delete_share(p, s) PROVE Sound(rdb', p)
  <2> DEFINE S == rdb.shares \ {s}
  <2>1. rdb' = [rdb EXCEPT !.shares = S] /\ s.project = p
    BY <1>4 DEF delete_share, Invoke
  <2>2. /\ \A x \in S : x \in ShareRow /\ x \in rdb.shares
        /\ \A x \in rdb.shares : x.project # p => x \in S
        /\ \A x, z \in S : x.token = z.token => x = z
    BY <2>1 DEF ResInv, ResTables, NothingDangles
  <2> HIDE DEF S
  <2>3. Sound([rdb EXCEPT !.shares = S], p)
    BY <2>2, ShareWritten
  <2> QED BY <2>1, <2>3
<1>5. rreq' = rreq \/ (rreq.write # NoRequest /\ rreq.write.project = p
                       /\ rreq' = [rreq EXCEPT !.write = NoRequest])
  BY DEF InsightWrites, create_insight, update_insight, delete_insight, import_insight, DashboardWrites,
         create_dashboard, update_dashboard, delete_dashboard, replace_dashboard_tiles, import_dashboard,
         ShareWrites, delete_share, create_share, import_share, Import, Invoke
<1> QED BY <1>1, <1>2, <1>3, <1>4, <1>5 DEF ShareWrites

\* A new expiry keeps the share.
LEMMA ExpiryWritten ==
    ASSUME ResInv, NEW s \in rdb.shares, NEW e \in Expiries, update_share_expiry(s, e)
    PROVE  Sound(rdb', s.project) /\ rreq' = rreq
<1> DEFINE z == [s EXCEPT !.exp = e]
           S == (rdb.shares \ {s}) \cup {z}
<1>1. s \in ShareRow
  BY DEF ResInv, ResTables
<1>2. z \in ShareRow /\ z.project = s.project /\ z.token = s.token /\ z.kind = s.kind /\ z.object = s.object
  BY <1>1 DEF ShareRow
<1>3. rdb' = [rdb EXCEPT !.shares = S] /\ rreq' = rreq
  BY DEF update_share_expiry, Import
<1> HIDE DEF z
<1>4. /\ \A x \in S : x \in ShareRow
      /\ \A x \in S : x \in rdb.shares \/ (x.project = s.project /\ ensure_object(s.project, x.kind, x.object))
      /\ \A x \in rdb.shares : x.project # s.project => x \in S
      /\ \A x, y \in S : x.token = y.token => x = y
  BY <1>2 DEF ResInv, ResTables, NothingDangles
<1>5. s.project \in Projects
  BY <1>1 DEF ShareRow
<1> HIDE DEF S
<1>6. Sound([rdb EXCEPT !.shares = S], s.project)
  BY <1>4, <1>5, ShareWritten
<1> QED BY <1>3, <1>6

\* Sound tables have no dangling reference.
LEMMA SoundHolds ==
    ASSUME NEW p, Sound(rdb', p) PROVE ResTables(rdb') /\ NothingDangles'
<1>1. ResTables(rdb')
  BY DEF Sound
<1>2. NothingDangles'
  BY DEF Sound, NothingDangles, ensure_object, ensure_insight, ensure_dashboard
<1> QED BY <1>1, <1>2

\* Every step keeps the tables sound, and a write keeps to its project.
LEMMA ResStep ==
    ASSUME ResInv, [ResNext]_resVars PROVE ResInv' /\ WriteStep
<1>1. ASSUME UNCHANGED rdb,
             rreq' = [write |-> rreq'.write, public |-> rreq'.public],
             rreq'.write = NoRequest \/ rreq'.write \in [pc : {"authorized"}, project : Projects],
             rreq'.public = NoRequest \/ rreq'.public \in [pc : {"resolving"}, share : ShareRow]
      PROVE  ResInv' /\ WriteStep
  <2>1. NothingDangles'
    BY <1>1 DEF ResInv, NothingDangles, ensure_object, ensure_insight, ensure_dashboard
  <2> QED BY <1>1, <2>1 DEF ResInv, WriteStep
<1>2. ASSUME NEW p \in Projects, Sound(rdb', p),
             rreq' = rreq \/ (/\ rreq.write # NoRequest /\ rreq.write.project = p
                              /\ rreq' = [rreq EXCEPT !.write = NoRequest])
      PROVE  ResInv' /\ WriteStep
  <2>1. ResTables(rdb') /\ NothingDangles'
    BY <1>2, SoundHolds
  <2>2. /\ rreq' = [write |-> rreq'.write, public |-> rreq'.public]
        /\ rreq'.write = NoRequest \/ rreq'.write \in [pc : {"authorized"}, project : Projects]
        /\ rreq'.public = NoRequest \/ rreq'.public \in [pc : {"resolving"}, share : ShareRow]
    BY <1>2 DEF ResInv
  <2>3. WriteStep
    BY <1>2 DEF WriteStep, Sound
  <2> QED BY <2>1, <2>2, <2>3 DEF ResInv
<1>3. CASE ResTick \/ RefuseWrite \/ resolve_public_share \/ UNCHANGED resVars
  <2>1. UNCHANGED rdb /\ (rreq' = rreq \/ rreq' = [rreq EXCEPT !.write = NoRequest]
                           \/ rreq' = [rreq EXCEPT !.public = NoRequest])
    BY <1>3 DEF ResTick, RefuseWrite, resolve_public_share, resVars
  <2> QED BY <1>1, <2>1 DEF ResInv
<1>4. ASSUME NEW s \in rdb.shares, authorize_share_token(s) PROVE ResInv' /\ WriteStep
  <2> DEFINE v == [pc |-> "resolving", share |-> s]
  <2>1. UNCHANGED rdb /\ rreq' = [rreq EXCEPT !.public = v]
    BY <1>4 DEF authorize_share_token
  <2>2. v \in [pc : {"resolving"}, share : ShareRow]
    BY DEF ResInv, ResTables
  <2> HIDE DEF v
  <2> QED BY <1>1, <2>1, <2>2 DEF ResInv
<1>5. ASSUME NEW p \in Projects, NEW role, NEW w, authorize(p, role, w) PROVE ResInv' /\ WriteStep
  <2> DEFINE v == [pc |-> "authorized", project |-> p]
  <2>1. UNCHANGED rdb /\ rreq' = [rreq EXCEPT !.write = v]
    BY <1>5 DEF authorize
  <2>2. v \in [pc : {"authorized"}, project : Projects]
    OBVIOUS
  <2> HIDE DEF v
  <2> QED BY <1>1, <2>1, <2>2 DEF ResInv
<1>6. ASSUME NEW s \in rdb.shares, NEW e \in Expiries, update_share_expiry(s, e) PROVE ResInv' /\ WriteStep
  <2>1. s.project \in Projects
    BY DEF ResInv, ResTables, ShareRow
  <2> QED BY <1>2, <1>6, <2>1, ExpiryWritten
<1>7. ASSUME NEW p \in Projects,
             \/ \E i \in InsightIds : InsightWrites(p, i)
             \/ \E d \in DashboardIds : DashboardWrites(p, d)
             \/ ShareWrites(p) \/ Imports(p)
      PROVE  ResInv' /\ WriteStep
  <2>1. /\ Sound(rdb', p)
        /\ rreq' = rreq \/ (/\ rreq.write # NoRequest /\ rreq.write.project = p
                             /\ rreq' = [rreq EXCEPT !.write = NoRequest])
    <3>1. \/ \E i \in InsightIds : InsightWrites(p, i) \/ \E q \in Queries : import_insight(p, i, q)
          \/ \E d \in DashboardIds : DashboardWrites(p, d) \/ \E ids \in TileLists : import_dashboard(p, d, ids)
          \/ ShareWrites(p)
          \/ \E t \in ShareTokens, kind \in {"insight", "dashboard"}, e \in Expiries :
               \E o \in Objects(kind) : import_share(p, t, kind, o, e)
      BY <1>7 DEF Imports
    <3> QED BY <3>1, ResWrites
  <2> QED BY <1>2, <2>1
<1> QED BY <1>3, <1>4, <1>5, <1>6, <1>7 DEF ResNext

\* The inductive invariant of the saved resources.
THEOREM ResInvAlways == ResSpec => []ResInv
<1>1. ResInit => ResInv
  BY DEF ResInit, ResInv, ResTables, NothingDangles
<1>2. ResInv /\ [ResNext]_resVars => ResInv'
  BY ResStep
<1> QED BY <1>1, <1>2, PTL DEF ResSpec

\* No reference dangles and no public answer leaves its project, over any
\* deletes, imports and updates between two steps of a request.
THEOREM ResourcesHoldAlways == ResSpec => []ResourcesHold
<1>1. ResInv => ResourcesHold
  <2> SUFFICES ASSUME ResInv PROVE PublicAnswerScoped
    BY DEF ResInv, ResourcesHold
  <2> SUFFICES ASSUME rreq.public # NoRequest, NEW x \in PublicAnswer(rreq.public.share)
               PROVE  /\ x.project = rreq.public.share.project /\ ~x.text
                      /\ rreq.public.share.kind = "insight" => x.id = rreq.public.share.object
    BY DEF PublicAnswerScoped
  <2> DEFINE s == rreq.public.share
  <2>1. PICK y \in (IF s.kind = "insight" THEN load_insight(s.project, s.object)
                    ELSE load_dashboard(s.project, s.object)) : x = redact_public(s.kind, y)
    BY DEF PublicAnswer
  <2>2. x.project = y.project /\ x.id = y.id /\ ~x.text
    BY <2>1 DEF redact_public
  <2>3. y.project = s.project /\ (s.kind = "insight" => y.id = s.object)
    BY <2>1 DEF load_insight, load_dashboard
  <2> QED BY <2>2, <2>3
<1> QED BY <1>1, ResInvAlways, PTL

\* A write changes no row of another project.
THEOREM WritesStayAlways == ResSpec => WritesStayInProject
<1>1. ResInv /\ [ResNext]_resVars => [WriteStep]_resVars
  BY ResStep
<1> QED BY <1>1, ResInvAlways, PTL DEF ResSpec, WritesStayInProject

-----------------------------------------------------------------------------
(* The flag cache.                                                          *)

FlagRow == [project : FlagProjects, key : FlagKeys, version : Nat, live : BOOLEAN]
WriterWork == [pc : {"committed"}, project : FlagProjects, id : Nat]
Missed == [pc : {"missed"}, project : FlagProjects, generation : Nat]

\* A reader's record after its load; what it holds is whatever load_live gave.
IsLoaded(v) == /\ v = [pc |-> "loaded", project |-> v.project, generation |-> v.generation, flags |-> v.flags]
               /\ v.project \in FlagProjects /\ v.generation \in Nat

\* No writer of p is between its commit and its invalidation.
Settled(p) == \A w \in FlagWriters : fwriter[w] = NoFlagWork \/ fwriter[w].project # p

FlagShapes ==
    /\ frows \in Seq(FlagRow)
    /\ fcache = [generation |-> fcache.generation, projects |-> fcache.projects]
    /\ fcache.generation \in Nat /\ Cached \subseteq FlagProjects /\ IsFiniteSet(Cached)
    /\ fwriter \in [FlagWriters -> {NoFlagWork} \cup WriterWork]
    /\ freader = [r \in FlagReaders |-> freader[r]]
    /\ \A r \in FlagReaders : freader[r] = NoFlagWork \/ freader[r] \in Missed \/ IsLoaded(freader[r])

\* What a reader of the current generation loaded is what the table holds, unless
\* a writer of the project has still to invalidate.
ReadersCurrent ==
    \A r \in FlagReaders : freader[r].pc \in {"missed", "loaded"} =>
        /\ freader[r].generation <= fcache.generation
        /\ /\ freader[r].pc = "loaded" /\ freader[r].generation = fcache.generation
           /\ Settled(freader[r].project)
           => freader[r].flags = load_live(freader[r].project)

FlagInv == FlagShapes /\ ReadersCurrent /\ CacheIsCurrent /\ KeysAndCacheBounded

\* Rows of other projects do not show in a project's live flags.
LEMMA SameLive ==
    ASSUME NEW q, NEW n \in Nat, NEW m \in Nat, n = Len(frows), m = Len(frows'), n <= m,
           \A j \in 1..n : frows[j].project = q \/ frows'[j].project = q => frows'[j] = frows[j],
           \A j \in 1..m : j \notin 1..n => frows'[j].project # q
    PROVE  load_live(q)' = load_live(q)
<1> DEFINE J == {j \in 1..n : frows[j].project = q /\ frows[j].live}
           K == {j \in 1..m : frows'[j].project = q /\ frows'[j].live}
<1>1. J = K
  <2>1. \A j \in 1..n : j \in 1..m
    OBVIOUS
  <2> QED BY <2>1
<1>2. \A j \in J : frows'[j] = frows[j]
  OBVIOUS
<1>3. load_live(q) = {[id |-> i, key |-> frows[i].key, version |-> frows[i].version] : i \in J}
  BY DEF load_live, Ids
<1>4. load_live(q)' = {[id |-> i, key |-> frows'[i].key, version |-> frows'[i].version] : i \in K}
  BY DEF load_live, Ids
<1> HIDE DEF J, K
<1> QED BY <1>1, <1>2, <1>3, <1>4

\* A commit of project p: the other projects' rows stay, p is unsettled.
LEMMA FlagCommit ==
    ASSUME FlagInv, NEW w \in FlagWriters, NEW p \in FlagProjects, NEW id \in Nat, Commit(w, p, id),
           frows' \in Seq(FlagRow),
           \A q \in FlagProjects : q # p => load_live(q)' = load_live(q),
           \A i, j \in 1..Len(frows') :
              /\ i # j /\ frows'[i].live /\ frows'[j].live /\ frows'[i].project = frows'[j].project
              => frows'[i].key # frows'[j].key
    PROVE  FlagInv'
<1> DEFINE v == [pc |-> "committed", project |-> p, id |-> id]
<1>1. /\ fwriter' = [fwriter EXCEPT ![w] = v] /\ UNCHANGED <<fcache, freader>> /\ fwriter[w] = NoFlagWork
      /\ v \in WriterWork /\ v.project = p /\ v # NoFlagWork
  BY DEF Commit, WriterWork, NoFlagWork
<1> HIDE DEF v
<1>2. FlagShapes'
  BY <1>1 DEF FlagInv, FlagShapes, Cached, IsLoaded
<1>3. ASSUME NEW q, Settled(q)' PROVE Settled(q) /\ q # p
  <2>1. fwriter'[w] = v /\ \A x \in FlagWriters : x # w => fwriter'[x] = fwriter[x]
    BY <1>1 DEF FlagInv, FlagShapes
  <2> QED BY <1>1, <1>3, <2>1 DEF Settled
<1>4. ReadersCurrent'
  <2> SUFFICES ASSUME NEW r \in FlagReaders, freader[r].pc \in {"missed", "loaded"}
               PROVE  /\ freader[r].generation <= fcache.generation
                      /\ /\ freader[r].pc = "loaded" /\ freader[r].generation = fcache.generation
                         /\ Settled(freader[r].project)'
                         => freader[r].flags = load_live(freader[r].project)'
    BY <1>1 DEF ReadersCurrent
  <2>1. freader[r].pc = "loaded" => freader[r].project \in FlagProjects
    BY DEF FlagInv, FlagShapes, NoFlagWork, Missed, IsLoaded
  <2>2. Settled(freader[r].project)' => Settled(freader[r].project) /\ freader[r].project # p
    BY <1>1, <1>3
  <2> QED BY <1>1, <2>1, <2>2 DEF FlagInv, ReadersCurrent
<1>5. CacheIsCurrent'
  <2> SUFFICES ASSUME NEW q \in Cached, Settled(q)'
               PROVE  fcache.projects[q] = load_live(q)'
    BY <1>1 DEF CacheIsCurrent, Settled, Cached
  <2>1. q \in FlagProjects /\ Settled(q) /\ q # p
    BY <1>3 DEF FlagInv, FlagShapes
  <2> QED BY <2>1 DEF FlagInv, CacheIsCurrent, Settled
<1>6. KeysAndCacheBounded'
  BY <1>1 DEF FlagInv, KeysAndCacheBounded, Cached, Ids
<1> QED BY <1>2, <1>4, <1>5, <1>6 DEF FlagInv

\* create, update and delete.
LEMMA FlagWritesKeep ==
    ASSUME FlagInv, NEW w \in FlagWriters, FlagWrites(w)
    PROVE  FlagInv'
<1> DEFINE n == Len(frows)
<1>0. /\ frows \in Seq(FlagRow) /\ n \in Nat /\ \A j \in 1..n : frows[j] \in FlagRow
      /\ \A i, j \in 1..n : /\ i # j /\ frows[i].live /\ frows[j].live /\ frows[i].project = frows[j].project
                            => frows[i].key # frows[j].key
  BY DEF FlagInv, FlagShapes, KeysAndCacheBounded, Ids
<1>1. ASSUME NEW p \in FlagProjects, NEW key \in FlagKeys, create(w, p, key) PROVE FlagInv'
  <2> DEFINE row == [project |-> p, key |-> key, version |-> 1, live |-> TRUE]
  <2>1. frows' = Append(frows, row) /\ Commit(w, p, n + 1) /\ ~KeyTaken(p, key, 0)
    BY <1>1 DEF create
  <2>2. row \in FlagRow /\ row.project = p /\ row.key = key
    BY DEF FlagRow
  <2> HIDE DEF row
  <2>3. frows' \in Seq(FlagRow) /\ Len(frows') = n + 1 /\ frows'[n + 1] = row
        /\ \A j \in 1..n : frows'[j] = frows[j]
    BY <1>0, <2>1, <2>2
  <2>4. \A j \in 1..n : ~(frows[j].project = p /\ frows[j].live /\ frows[j].key = key)
    BY <1>0, <2>1 DEF KeyTaken, Ids
  <2>5. \A j \in 1..(n + 1) : j \in 1..n \/ j = n + 1
    BY <1>0
  <2> HIDE DEF n
  <2>6. ASSUME NEW q \in FlagProjects, q # p PROVE load_live(q)' = load_live(q)
    <3> DEFINE m == n + 1
    <3>1. m \in Nat /\ n = Len(frows) /\ m = Len(frows') /\ n <= m
      BY <1>0, <2>3 DEF n
    <3>2. \A j \in 1..m : j \notin 1..n => frows'[j].project # q
      BY <2>2, <2>3, <2>5, <2>6
    <3> HIDE DEF m
    <3> QED BY <1>0, <2>3, <3>1, <3>2, SameLive
  <2>7. \A i, j \in 1..Len(frows') :
              /\ i # j /\ frows'[i].live /\ frows'[j].live /\ frows'[i].project = frows'[j].project
              => frows'[i].key # frows'[j].key
    <3> SUFFICES ASSUME NEW i \in 1..(n + 1), NEW j \in 1..(n + 1), i # j, frows'[i].live, frows'[j].live,
                        frows'[i].project = frows'[j].project
                 PROVE  frows'[i].key # frows'[j].key
      BY <2>3
    <3>1. CASE i \in 1..n /\ j \in 1..n
      BY <1>0, <2>3, <3>1
    <3>2. CASE i = n + 1 /\ j \in 1..n
      BY <2>2, <2>3, <2>4, <3>2
    <3>3. CASE i \in 1..n /\ j = n + 1
      BY <2>2, <2>3, <2>4, <3>3
    <3> QED BY <2>5, <3>1, <3>2, <3>3
  <2>8. n + 1 \in Nat
    BY <1>0
  <2> QED BY <2>1, <2>3, <2>6, <2>7, <2>8, FlagCommit
<1>2. ASSUME NEW i \in 1..n, NEW row \in FlagRow, frows' = [frows EXCEPT ![i] = row],
             row.project = frows[i].project, Commit(w, frows[i].project, 0),
             row.live => ~KeyTaken(frows[i].project, row.key, i)
      PROVE  FlagInv'
  <2>1. frows' \in Seq(FlagRow) /\ Len(frows') = n /\ frows'[i] = row
        /\ \A j \in 1..n : j # i => frows'[j] = frows[j]
    BY <1>0, <1>2
  <2> DEFINE p == frows[i].project
  <2>2. p \in FlagProjects /\ frows'[i].project = p
    BY <1>0, <1>2, <2>1 DEF FlagRow
  <2>3. \A j \in 1..n : j # i /\ row.live => ~(frows[j].project = p /\ frows[j].live /\ frows[j].key = row.key)
    BY <1>2 DEF KeyTaken, Ids
  <2> HIDE DEF n
  <2>4. ASSUME NEW q \in FlagProjects, q # p PROVE load_live(q)' = load_live(q)
    <3>1. n = Len(frows) /\ n = Len(frows') /\ n <= n
      BY <1>0, <2>1 DEF n
    <3>2. \A j \in 1..n : frows[j].project = q \/ frows'[j].project = q => frows'[j] = frows[j]
      BY <2>1, <2>2, <2>4
    <3> QED BY <1>0, <3>1, <3>2, SameLive
  <2>5. \A x, y \in 1..Len(frows') :
              /\ x # y /\ frows'[x].live /\ frows'[y].live /\ frows'[x].project = frows'[y].project
              => frows'[x].key # frows'[y].key
    BY <1>0, <1>2, <2>1, <2>3
  <2> HIDE DEF p
  <2>6. Commit(w, p, 0)
    BY <1>2 DEF p
  <2> QED BY <2>1, <2>2, <2>4, <2>5, <2>6, FlagCommit
<1>3. ASSUME NEW i \in Ids, delete(w, i) PROVE FlagInv'
  <2> DEFINE row == [frows[i] EXCEPT !.live = FALSE, !.version = @ + 1]
  <2>1. i \in 1..n /\ frows[i] \in FlagRow
    BY <1>0 DEF Ids
  <2>2. row \in FlagRow /\ row.project = frows[i].project /\ ~row.live
    <3> DEFINE c == frows[i]
               no == FALSE
               k == c.version + 1
               e == [c EXCEPT !.live = no]
    <3>1. c \in FlagRow /\ k \in Nat /\ no \in BOOLEAN /\ ~no
      BY <2>1 DEF FlagRow
    <3>2. row = [e EXCEPT !.version = k]
      OBVIOUS
    <3> HIDE DEF c, row, no, k
    <3>3. c = [project |-> c.project, key |-> c.key, version |-> c.version, live |-> c.live]
      BY <3>1 DEF FlagRow
    <3>4. e = [project |-> c.project, key |-> c.key, version |-> c.version, live |-> no]
      BY <3>3
    <3> HIDE DEF e
    <3>5. row = [project |-> c.project, key |-> c.key, version |-> k, live |-> no]
      BY <3>2, <3>4
    <3> QED BY <3>1, <3>5 DEF FlagRow, c
  <2>3. frows' = [frows EXCEPT ![i] = row] /\ Commit(w, frows[i].project, 0)
    BY <1>0, <1>3, <2>1 DEF delete
  <2> HIDE DEF row
  <2> QED BY <1>2, <2>1, <2>2, <2>3
<1>4. ASSUME NEW i \in Ids, NEW key \in FlagKeys, update(w, i, key) PROVE FlagInv'
  <2> DEFINE row == [frows[i] EXCEPT !.key = key, !.version = @ + 1]
  <2>1. i \in 1..n /\ frows[i] \in FlagRow
    BY <1>0 DEF Ids
  <2>2. row \in FlagRow /\ row.project = frows[i].project /\ row.key = key
    <3> DEFINE c == frows[i]
    <3>1. c \in FlagRow /\ c.version + 1 \in Nat
      BY <2>1 DEF FlagRow
    <3>2. row = [c EXCEPT !.key = key, !.version = c.version + 1]
      OBVIOUS
    <3> HIDE DEF c
    <3>3. c = [project |-> c.project, key |-> c.key, version |-> c.version, live |-> c.live]
      BY <3>1 DEF FlagRow
    <3> DEFINE e == [c EXCEPT !.key = key]
               k == c.version + 1
    <3>4. row = [project |-> c.project, key |-> key, version |-> c.version + 1, live |-> c.live]
      <4>1. e = [project |-> c.project, key |-> key, version |-> c.version, live |-> c.live]
        BY <3>3
      <4>2. row = [e EXCEPT !.version = k]
        BY <3>2
      <4> HIDE DEF e, row, k
      <4>3. row = [e EXCEPT !.version = k] /\ [e EXCEPT !.version = k] =
                [project |-> c.project, key |-> key, version |-> k, live |-> c.live]
        BY <4>1, <4>2
      <4> QED BY <4>3 DEF k
    <3> HIDE DEF row
    <3> QED BY <3>1, <3>2, <3>4 DEF FlagRow, c
  <2>3. frows' = [frows EXCEPT ![i] = row] /\ Commit(w, frows[i].project, 0)
        /\ ~KeyTaken(frows[i].project, key, i)
    BY <1>0, <1>4, <2>1 DEF update
  <2> HIDE DEF row
  <2> QED BY <1>2, <2>1, <2>2, <2>3
<1> QED BY <1>1, <1>3, <1>4 DEF FlagWrites

\* invalidate: the entry goes, and what readers loaded before is of an older
\* generation.
LEMMA InvalidateKeeps ==
    ASSUME FlagInv, NEW w \in FlagWriters, invalidate(w)
    PROVE  FlagInv'
<1> DEFINE p == fwriter[w].project
           C == Evict(fcache.projects, p)
           g == fcache.generation + 1
<1>1. /\ fwriter[w].pc = "committed" /\ fwriter' = [fwriter EXCEPT ![w] = NoFlagWork]
      /\ fcache' = [generation |-> g, projects |-> C] /\ UNCHANGED <<frows, freader>>
  BY DEF invalidate
<1>2. /\ DOMAIN C = Cached \ {p} /\ \A q \in Cached \ {p} : C[q] = fcache.projects[q]
      /\ g \in Nat /\ g > fcache.generation /\ fcache.generation \in Nat
  BY DEF Evict, Cached, FlagInv, FlagShapes
<1> HIDE DEF C, g
<1>3. Cached' = Cached \ {p} /\ fcache'.projects = C /\ fcache'.generation = g
  BY <1>1, <1>2 DEF Cached
<1>4. IsFiniteSet(Cached') /\ Cardinality(Cached') <= MaxCached
  <2>1. IsFiniteSet(Cached) /\ Cardinality(Cached) <= MaxCached /\ Cached' \subseteq Cached
    BY <1>3 DEF FlagInv, FlagShapes, KeysAndCacheBounded
  <2>2. IsFiniteSet(Cached') /\ Cardinality(Cached') <= Cardinality(Cached)
        /\ Cardinality(Cached) \in Nat /\ Cardinality(Cached') \in Nat
    BY <2>1, FS_Subset, FS_CardinalityType
  <2> QED BY <2>1, <2>2, CacheAssumption
<1>5. FlagShapes'
  BY <1>1, <1>2, <1>3, <1>4 DEF FlagInv, FlagShapes, IsLoaded
<1>6. ReadersCurrent'
  <2>1. \A r \in FlagReaders : freader[r].pc \in {"missed", "loaded"} => freader[r].generation \in Nat
    BY DEF FlagInv, FlagShapes, NoFlagWork, Missed, IsLoaded
  <2>2. \A r \in FlagReaders : freader[r].pc \in {"missed", "loaded"} => freader[r].generation < g
    BY <1>2, <2>1 DEF FlagInv, ReadersCurrent
  <2> QED BY <1>1, <1>2, <1>3, <2>1, <2>2 DEF ReadersCurrent
<1>7. CacheIsCurrent'
  <2> SUFFICES ASSUME NEW q \in Cached \ {p}, Settled(q)'
               PROVE  C[q] = load_live(q)'
    BY <1>3 DEF CacheIsCurrent, Settled
  <2>1. Settled(q)
    BY <1>1 DEF FlagInv, FlagShapes, Settled
  <2>2. load_live(q)' = load_live(q)
    BY <1>1 DEF load_live, Ids
  <2> QED BY <1>2, <2>1, <2>2 DEF FlagInv, CacheIsCurrent, Settled
<1>8. KeysAndCacheBounded'
  BY <1>1, <1>4 DEF FlagInv, KeysAndCacheBounded, Ids
<1> QED BY <1>5, <1>6, <1>7, <1>8 DEF FlagInv

\* A reader alone moves.
LEMMA ReaderMoves ==
    ASSUME FlagInv, NEW r \in FlagReaders, NEW v, freader' = [freader EXCEPT ![r] = v],
           UNCHANGED <<frows, fcache, fwriter>>,
           v = NoFlagWork \/ v \in Missed \/ IsLoaded(v),
           v # NoFlagWork => v.generation <= fcache.generation,
           IsLoaded(v) => v.flags = load_live(v.project)
    PROVE  FlagInv'
<1>1. /\ freader' = [x \in FlagReaders |-> freader'[x]] /\ freader'[r] = v
      /\ \A x \in FlagReaders : x # r => freader'[x] = freader[x]
  BY DEF FlagInv, FlagShapes
<1>2. FlagShapes'
  BY <1>1 DEF FlagInv, FlagShapes, Cached
<1>3. \A q : load_live(q)' = load_live(q) /\ (Settled(q)' <=> Settled(q))
  BY DEF load_live, Ids, Settled
<1>4. ReadersCurrent'
  <2> SUFFICES ASSUME NEW x \in FlagReaders, freader'[x].pc \in {"missed", "loaded"}
               PROVE  /\ freader'[x].generation <= fcache.generation
                      /\ /\ freader'[x].pc = "loaded" /\ freader'[x].generation = fcache.generation
                         /\ Settled(freader'[x].project)
                         => freader'[x].flags = load_live(freader'[x].project)
    BY <1>3 DEF ReadersCurrent, load_live, Ids, Settled
  <2>1. CASE x = r
    <3>1. v # NoFlagWork /\ (v.pc = "loaded" => IsLoaded(v))
      BY <1>1, <2>1 DEF NoFlagWork, Missed
    <3> QED BY <1>1, <2>1, <3>1
  <2>2. CASE x # r
    BY <1>1, <2>2 DEF FlagInv, ReadersCurrent
  <2> QED BY <2>1, <2>2
<1>5. CacheIsCurrent' /\ KeysAndCacheBounded'
  BY DEF FlagInv, CacheIsCurrent, KeysAndCacheBounded, Cached, Ids, load_live
<1> QED BY <1>2, <1>4, <1>5 DEF FlagInv

\* compiled: what is stored was loaded in the generation that is still current.
LEMMA CompiledKeeps ==
    ASSUME FlagInv, NEW r \in FlagReaders, compiled(r)
    PROVE  FlagInv'
<1> DEFINE p == freader[r].project
           C == Insert(p, freader[r].flags)
<1>1. /\ freader[r].pc = "loaded" /\ freader' = [freader EXCEPT ![r] = NoFlagWork] /\ UNCHANGED <<frows, fwriter>>
      /\ \/ fcache' = fcache
         \/ fcache.generation = freader[r].generation /\ fcache' = [fcache EXCEPT !.projects = C]
  BY DEF compiled
<1>2. p \in FlagProjects
  BY <1>1 DEF FlagInv, FlagShapes, NoFlagWork, Missed, IsLoaded
<1>3. CASE fcache' = fcache
  <2> DEFINE v == NoFlagWork
  <2>1. freader' = [freader EXCEPT ![r] = v] /\ v = NoFlagWork /\ ~IsLoaded(v)
    BY <1>1 DEF NoFlagWork, IsLoaded
  <2> HIDE DEF v
  <2> QED BY <1>1, <1>3, <2>1, ReaderMoves
<1>4. CASE fcache.generation = freader[r].generation /\ fcache' = [fcache EXCEPT !.projects = C]
  <2>1. /\ DOMAIN C \subseteq Cached \cup {p} /\ C[p] = freader[r].flags /\ p \in DOMAIN C
        /\ \A q \in DOMAIN C : q # p => q \in Cached /\ C[q] = fcache.projects[q]
    BY DEF Insert, Cached
  <2>2. IsFiniteSet(DOMAIN C) /\ Cardinality(DOMAIN C) <= MaxCached
    <3>0. IsFiniteSet(Cached) /\ Cardinality(Cached) \in Nat /\ MaxCached \in Nat /\ MaxCached >= 1
      BY CacheAssumption, FS_CardinalityType DEF FlagInv, FlagShapes
    <3>1. CASE Cardinality(Cached) >= MaxCached
      <4>1. DOMAIN C = {p}
        BY <3>1 DEF Insert
      <4>2. IsFiniteSet({p}) /\ Cardinality({p}) = 1
        BY FS_Singleton
      <4> QED BY <3>0, <4>1, <4>2
    <3>2. CASE ~(Cardinality(Cached) >= MaxCached)
      <4>1. DOMAIN C = Cached \cup {p}
        BY <3>2 DEF Insert, Cached
      <4>2. IsFiniteSet(Cached \cup {p})
            /\ Cardinality(Cached \cup {p}) = IF p \in Cached THEN Cardinality(Cached) ELSE Cardinality(Cached) + 1
        BY <3>0, FS_AddElement
      <4> QED BY <3>0, <3>2, <4>1, <4>2
    <3> QED BY <3>1, <3>2
  <2> HIDE DEF C
  <2>3. Cached' = DOMAIN C /\ fcache'.projects = C /\ fcache'.generation = fcache.generation
        /\ fcache' = [generation |-> fcache'.generation, projects |-> fcache'.projects]
    BY <1>4 DEF FlagInv, FlagShapes, Cached
  <2>4. /\ freader' = [x \in FlagReaders |-> freader'[x]] /\ freader'[r] = NoFlagWork
        /\ \A x \in FlagReaders : x # r => freader'[x] = freader[x]
    BY <1>1 DEF FlagInv, FlagShapes
  <2>5. FlagShapes'
    BY <1>1, <1>2, <2>1, <2>2, <2>3, <2>4 DEF FlagInv, FlagShapes
  <2>6. \A q : load_live(q)' = load_live(q) /\ (Settled(q)' <=> Settled(q))
    BY <1>1 DEF load_live, Ids, Settled
  <2>7. ReadersCurrent'
    <3> SUFFICES ASSUME NEW x \in FlagReaders, x # r, freader[x].pc \in {"missed", "loaded"}
                 PROVE  /\ freader[x].generation <= fcache.generation
                        /\ /\ freader[x].pc = "loaded" /\ freader[x].generation = fcache.generation
                           /\ Settled(freader[x].project)
                           => freader[x].flags = load_live(freader[x].project)
      BY <1>1, <2>3, <2>4, <2>6 DEF ReadersCurrent, NoFlagWork, load_live, Ids, Settled
    <3> QED BY DEF FlagInv, ReadersCurrent
  <2>8. CacheIsCurrent'
    <3> SUFFICES ASSUME NEW q \in DOMAIN C, Settled(q)
                 PROVE  C[q] = load_live(q)
      BY <1>1, <2>3 DEF CacheIsCurrent, Settled, load_live, Ids
    <3>1. CASE q = p
      BY <1>1, <1>4, <2>1, <3>1 DEF FlagInv, ReadersCurrent
    <3>2. CASE q # p
      BY <2>1, <3>2 DEF FlagInv, CacheIsCurrent, Settled
    <3> QED BY <3>1, <3>2
  <2>9. KeysAndCacheBounded'
    BY <1>1, <2>2, <2>3 DEF FlagInv, KeysAndCacheBounded, Ids
  <2> QED BY <2>5, <2>7, <2>8, <2>9 DEF FlagInv
<1> QED BY <1>1, <1>3, <1>4

\* The inductive invariant of the flag store.
THEOREM FlagInvAlways == FlagSpec => []FlagInv
<1>1. FlagInit => FlagInv
  <2> SUFFICES ASSUME FlagInit PROVE FlagInv
    OBVIOUS
  <2>1. /\ frows = <<>> /\ fcache = [generation |-> 0, projects |-> <<>>]
        /\ fwriter = [w \in FlagWriters |-> NoFlagWork] /\ freader = [r \in FlagReaders |-> NoFlagWork]
    BY DEF FlagInit
  <2>2. Cached = {} /\ Len(frows) = 0 /\ frows \in Seq(FlagRow)
    BY <2>1 DEF Cached
  <2>3. IsFiniteSet(Cached) /\ Cardinality(Cached) = 0
    BY <2>2, FS_EmptySet
  <2>4. FlagShapes
    BY <2>1, <2>2, <2>3 DEF FlagShapes
  <2>5. ReadersCurrent /\ CacheIsCurrent
    BY <2>1, <2>2 DEF ReadersCurrent, CacheIsCurrent, NoFlagWork
  <2>6. KeysAndCacheBounded
    BY <2>2, <2>3, CacheAssumption DEF KeysAndCacheBounded, Ids
  <2> QED BY <2>4, <2>5, <2>6 DEF FlagInv
<1>2. FlagInv /\ [FlagNext]_flagVars => FlagInv'
  <2> SUFFICES ASSUME FlagInv, [FlagNext]_flagVars PROVE FlagInv'
    OBVIOUS
  <2>1. ASSUME NEW r \in FlagReaders, NEW p \in FlagProjects, CacheMiss(r, p) PROVE FlagInv'
    <3> DEFINE v == [pc |-> "missed", project |-> p, generation |-> fcache.generation]
    <3>1. /\ freader' = [freader EXCEPT ![r] = v] /\ UNCHANGED <<frows, fcache, fwriter>>
          /\ v \in Missed /\ ~IsLoaded(v) /\ v.generation <= fcache.generation
      BY <2>1 DEF CacheMiss, Missed, IsLoaded, FlagInv, FlagShapes
    <3> HIDE DEF v
    <3> QED BY <3>1, ReaderMoves
  <2>2. ASSUME NEW r \in FlagReaders, LoadDefinitions(r) PROVE FlagInv'
    <3> DEFINE p == freader[r].project
               F == load_live(p)
               v == [pc |-> "loaded", project |-> p, generation |-> freader[r].generation, flags |-> F]
    <3>1. freader[r].pc = "missed" /\ freader' = [freader EXCEPT ![r] = v] /\ UNCHANGED <<frows, fcache, fwriter>>
      BY <2>2 DEF LoadDefinitions, FlagInv, FlagShapes
    <3>2. freader[r] \in Missed
      BY <3>1 DEF FlagInv, FlagShapes, NoFlagWork, IsLoaded
    <3>3. freader[r].generation <= fcache.generation
      BY <3>1 DEF FlagInv, ReadersCurrent
    <3> HIDE DEF F
    <3>4. IsLoaded(v) /\ v.generation <= fcache.generation /\ v.flags = F /\ v.project = p
      BY <3>2, <3>3 DEF IsLoaded, Missed
    <3>5. v.flags = load_live(v.project)
      BY <3>4 DEF F
    <3> HIDE DEF v, p
    <3> QED BY <3>1, <3>4, <3>5, ReaderMoves
  <2>3. ASSUME NEW r \in FlagReaders, FlagError(r) PROVE FlagInv'
    <3> DEFINE v == NoFlagWork
    <3>1. freader' = [freader EXCEPT ![r] = v] /\ UNCHANGED <<frows, fcache, fwriter>>
          /\ v = NoFlagWork /\ ~IsLoaded(v)
      BY <2>3 DEF FlagError, NoFlagWork, IsLoaded
    <3> HIDE DEF v
    <3> QED BY <3>1, ReaderMoves
  <2>4. CASE UNCHANGED flagVars
    BY <2>4 DEF flagVars, FlagInv, FlagShapes, ReadersCurrent, CacheIsCurrent, KeysAndCacheBounded,
                Cached, Ids, load_live, Settled, IsLoaded
  <2> QED BY <2>1, <2>2, <2>3, <2>4, FlagWritesKeep, InvalidateKeeps, CompiledKeeps DEF FlagNext
<1> QED BY <1>1, <1>2, PTL DEF FlagSpec

\* Once its writers were answered, a project's cached flags are its rows; live keys
\* are distinct and the cache is bounded: for any writers and readers.
THEOREM FlagCacheAlways == FlagSpec => []FlagCacheHolds
<1>1. FlagInv => FlagCacheHolds
  BY DEF FlagInv, FlagCacheHolds
<1> QED BY <1>1, FlagInvAlways, PTL

-----------------------------------------------------------------------------
(* The sign-in throttle.                                                    *)

Entry == [failures : Nat, since : Nat, until : Int]

\* A table within its bound, of entries that began in the past.
Bounded(t) ==
    /\ t = [k \in DOMAIN t |-> t[k]]
    /\ IsFiniteSet(DOMAIN t) /\ Cardinality(DOMAIN t) <= MaxKeysTracked
    /\ \A k \in DOMAIN t : t[k] \in Entry /\ t[k].since <= moment

ThrottleInv ==
    /\ moment \in Nat /\ Bounded(emails) /\ Bounded(sources)
    /\ \A e \in DOMAIN emails : emails[e].until - moment <= MaxDelay
    /\ \A s \in DOMAIN sources : sources[s].until - sources[s].since <= SourceWindow

\* The limits as numbers.
LEMMA ThrottleLimits ==
    /\ FreeFailures \in Nat /\ MaxDelay \in Nat /\ MaxDelay > 0 /\ EmailWindow \in Nat
    /\ SourceMaxFailures \in Nat /\ SourceWindow \in Nat /\ SourceWindow > 0
    /\ MaxKeysTracked \in Nat /\ MaxKeysTracked > 0
BY ThrottleAssumption

\* The shift stops at 6, so the power is a number, and the delay keeps its cap.
LEMMA DelayCapped ==
    ASSUME NEW n \in Nat, n >= FreeFailures
    PROVE  delay(n) \in Nat /\ delay(n) <= MaxDelay
<1> DEFINE k == Smaller(n - FreeFailures, 6)
<1>1. k \in 0..6
  BY ThrottleLimits DEF Smaller
<1> HIDE DEF k
<1>2. 2^k \in Nat
  <2>1. 2^0 \in Nat /\ 2^1 \in Nat /\ 2^2 \in Nat /\ 2^3 \in Nat /\ 2^4 \in Nat /\ 2^5 \in Nat /\ 2^6 \in Nat
    OBVIOUS
  <2>2. k = 0 \/ k = 1 \/ k = 2 \/ k = 3 \/ k = 4 \/ k = 5 \/ k = 6
    BY <1>1
  <2> QED BY <2>1, <2>2
<1> DEFINE power == 2^k
<1>3. delay(n) = IF power < MaxDelay THEN power ELSE MaxDelay
  BY DEF delay, Smaller, k
<1>4. power \in Nat
  BY <1>2
<1> HIDE DEF power
<1> QED BY <1>3, <1>4, ThrottleLimits

\* The fields of an entry that is written.
LEMMA EntryFields ==
    ASSUME NEW v \in Entry, NEW n \in Nat, NEW u \in Int
    PROVE  [v EXCEPT !.failures = n, !.until = u] = [failures |-> n, since |-> v.since, until |-> u]
<1>1. v = [failures |-> v.failures, since |-> v.since, until |-> v.until]
  BY DEF Entry
<1> DEFINE w == [v EXCEPT !.failures = n]
<1>2. w = [failures |-> n, since |-> v.since, until |-> v.until]
  BY <1>1
<1>3. [v EXCEPT !.failures = n, !.until = u] = [w EXCEPT !.until = u]
  OBVIOUS
<1> HIDE DEF w
<1>4. [w EXCEPT !.until = u] = [failures |-> n, since |-> v.since, until |-> u]
  BY <1>2
<1> QED BY <1>3, <1>4

\* The same of a window that begins again.
LEMMA WindowFields ==
    ASSUME NEW v \in Entry, NEW n \in Nat, NEW m \in Int
    PROVE  [v EXCEPT !.failures = n, !.since = m] = [failures |-> n, since |-> m, until |-> v.until]
<1>1. v = [failures |-> v.failures, since |-> v.since, until |-> v.until]
  BY DEF Entry
<1> DEFINE w == [v EXCEPT !.failures = n]
<1>2. w = [failures |-> n, since |-> v.since, until |-> v.until]
  BY <1>1
<1>3. [v EXCEPT !.failures = n, !.since = m] = [w EXCEPT !.since = m]
  OBVIOUS
<1> HIDE DEF w
<1>4. [w EXCEPT !.since = m] = [failures |-> n, since |-> m, until |-> v.until]
  BY <1>2
<1> QED BY <1>3, <1>4

\* A full table forgets an entry before it takes another.
LEMMA InsertBounded ==
    ASSUME moment \in Nat, NEW t, Bounded(t), NEW key, NEW win
    PROVE  LET T == insert_bounded(t, key, win)
           IN /\ Bounded(T) /\ key \in DOMAIN T
              /\ \A k \in DOMAIN T : (k \in DOMAIN t /\ T[k] = t[k]) \/ T[k] = NewEntry
<1> DEFINE M == MaxKeysTracked
           D == DOMAIN t
           full == key \notin D /\ Cardinality(D) >= M
           live == {k \in D : moment - t[k].since < win \/ t[k].until > moment}
           oldest == CHOOSE k \in live : \A j \in live : t[k].since <= t[j].since
           kept == IF ~full THEN D ELSE IF Cardinality(live) >= M THEN live \ {oldest} ELSE live
           T == [k \in kept \union {key} |-> IF k \in kept THEN t[k] ELSE NewEntry]
<1>1. insert_bounded(t, key, win) = T
  BY DEF insert_bounded
<1>2. /\ IsFiniteSet(D) /\ Cardinality(D) <= M /\ Cardinality(D) \in Nat /\ M \in Nat /\ M > 0
      /\ IsFiniteSet(live) /\ Cardinality(live) \in Nat /\ Cardinality(live) <= Cardinality(D)
  <2>1. IsFiniteSet(D) /\ Cardinality(D) <= M /\ live \subseteq D
    BY DEF Bounded
  <2> HIDE DEF D, live
  <2> QED BY <2>1, FS_Subset, FS_CardinalityType, ThrottleLimits
<1>3. live # {} => oldest \in live
  <2> SUFFICES ASSUME live # {} PROVE \E k \in live : \A j \in live : t[k].since <= t[j].since
    OBVIOUS
  <2> DEFINE S == {t[k].since : k \in live}
  <2>1. S \subseteq Nat /\ S # {}
    BY DEF Bounded, Entry
  <2>2. PICK m \in S : \A n \in S : m <= n
    <3> HIDE DEF S
    <3> QED BY <2>1, LeastNatural
  <2>3. PICK k \in live : m = t[k].since
    BY <2>2
  <2> QED BY <2>2, <2>3
<1>4. /\ kept \subseteq D /\ IsFiniteSet(kept) /\ Cardinality(kept) \in Nat
      /\ Cardinality(kept) + 1 <= M \/ (key \in kept /\ Cardinality(kept) <= M)
  <2>1. CASE ~full
    <3>1. kept = D
      BY <2>1
    <3> HIDE DEF kept
    <3> QED BY <1>2, <2>1, <3>1
  <2>2. CASE full /\ Cardinality(live) >= M
    <3>1. kept = live \ {oldest}
      BY <2>2
    <3>2. live # {}
      <4>1. Cardinality({}) = 0
        BY FS_EmptySet
      <4> HIDE DEF live
      <4> QED BY <1>2, <2>2, <4>1
    <3>3. oldest \in live
      BY <1>3, <3>2
    <3>4. live \subseteq D
      OBVIOUS
    <3> HIDE DEF kept, live, oldest
    <3>5. IsFiniteSet(live \ {oldest}) /\ Cardinality(live \ {oldest}) = Cardinality(live) - 1
      BY <1>2, <3>3, FS_RemoveElement
    <3> QED BY <1>2, <3>1, <3>3, <3>4, <3>5, FS_CardinalityType
  <2>3. CASE full /\ ~(Cardinality(live) >= M)
    <3>1. kept = live /\ live \subseteq D
      BY <2>3
    <3> HIDE DEF kept, live
    <3> QED BY <1>2, <2>3, <3>1
  <2> QED BY <2>1, <2>2, <2>3
<1> HIDE DEF kept
<1>5. DOMAIN T = kept \union {key} /\ \A k \in DOMAIN T : (k \in D /\ T[k] = t[k]) \/ T[k] = NewEntry
  BY <1>4
<1>6. IsFiniteSet(kept \union {key}) /\ Cardinality(kept \union {key}) <= M
  <2>1. IsFiniteSet(kept \union {key})
        /\ Cardinality(kept \union {key}) = IF key \in kept THEN Cardinality(kept) ELSE Cardinality(kept) + 1
    BY <1>4, FS_AddElement
  <2> QED BY <1>2, <1>4, <2>1
<1>7. NewEntry \in Entry /\ NewEntry.since <= moment
  BY DEF NewEntry, Entry, Never
<1>8. T = [k \in DOMAIN T |-> T[k]]
  OBVIOUS
<1> HIDE DEF T
<1>9. \A k \in DOMAIN T : T[k] \in Entry /\ T[k].since <= moment
  BY <1>5, <1>7 DEF Bounded
<1>10. Bounded(T)
  BY <1>5, <1>6, <1>8, <1>9 DEF Bounded
<1> QED BY <1>1, <1>5, <1>10

\* Writing the entry of a key that is there keeps the table.
LEMMA EntryWritten ==
    ASSUME moment \in Nat, NEW T, Bounded(T), NEW key \in DOMAIN T, NEW v \in Entry, v.since <= moment
    PROVE  LET U == [T EXCEPT ![key] = v]
           IN /\ Bounded(U) /\ DOMAIN U = DOMAIN T /\ U[key] = v
              /\ \A k \in DOMAIN T : k # key => U[k] = T[k]
<1> DEFINE U == [T EXCEPT ![key] = v]
<1>1. DOMAIN U = DOMAIN T /\ U[key] = v /\ \A k \in DOMAIN T : k # key => U[k] = T[k]
  OBVIOUS
<1>2. U = [k \in DOMAIN U |-> U[k]]
  BY DEF Bounded
<1> HIDE DEF U
<1>3. Bounded(U)
  BY <1>1, <1>2 DEF Bounded
<1> QED BY <1>1, <1>3 DEF U

\* A failed sign-in: the email waits at most the cap.
LEMMA EmailFailure ==
    ASSUME ThrottleInv, NEW e
    PROVE  /\ Bounded(EmailFailed(e))
           /\ \A x \in DOMAIN EmailFailed(e) : EmailFailed(e)[x].until - moment <= MaxDelay
<1> DEFINE T == insert_bounded(emails, e, EmailWindow)
           late == moment - T[e].since >= EmailWindow
           entry == IF late THEN [T[e] EXCEPT !.failures = 0, !.since = moment] ELSE T[e]
           n == entry.failures + 1
           u == IF n >= FreeFailures THEN moment + delay(n) ELSE entry.until
           v == [entry EXCEPT !.failures = n, !.until = u]
<1>0. moment \in Nat /\ Bounded(emails)
  BY DEF ThrottleInv
<1>1. EmailFailed(e) = [T EXCEPT ![e] = v]
  BY DEF EmailFailed
<1>2. /\ Bounded(T) /\ e \in DOMAIN T
      /\ \A k \in DOMAIN T : (k \in DOMAIN emails /\ T[k] = emails[k]) \/ T[k] = NewEntry
  BY <1>0, InsertBounded
<1> HIDE DEF T
<1>3. \A k \in DOMAIN T : T[k] \in Entry /\ T[k].since <= moment /\ T[k].until - moment <= MaxDelay
  <2>1. NewEntry.until = -1
    BY DEF NewEntry, Never
  <2>2. \A k \in DOMAIN T : T[k] \in Entry /\ T[k].since <= moment
    BY <1>2 DEF Bounded
  <2>3. -1 - moment <= MaxDelay
    BY <1>0, ThrottleLimits
  <2> QED BY <1>2, <2>1, <2>2, <2>3 DEF ThrottleInv
<1>4. entry \in Entry /\ entry.since <= moment /\ entry.until = T[e].until
  <2> DEFINE z == T[e]
             n0 == 0
  <2>1. z \in Entry /\ z.since <= moment /\ n0 \in Nat /\ moment \in Int
    BY <1>0, <1>2, <1>3
  <2> HIDE DEF z, n0
  <2> DEFINE m0 == moment
  <2>a. m0 \in Int
    BY <1>0
  <2> HIDE DEF m0
  <2>b. [z EXCEPT !.failures = n0, !.since = m0] = [failures |-> n0, since |-> m0, until |-> z.until]
    <3>1. z \in Entry /\ n0 \in Nat
      BY <2>1
    <3> QED BY <2>a, <3>1, WindowFields
  <2>2. [z EXCEPT !.failures = n0, !.since = moment] = [failures |-> n0, since |-> moment, until |-> z.until]
    BY <2>b DEF m0
  <2> DEFINE y == [failures |-> n0, since |-> moment, until |-> z.until]
  <2>3. y \in Entry /\ y.since = moment /\ y.until = z.until
    BY <1>0, <2>1 DEF Entry
  <2> HIDE DEF y
  <2>4. entry = y \/ entry = z
    BY <2>2 DEF y, z, n0
  <2> QED BY <1>0, <2>1, <2>3, <2>4 DEF z
<1> HIDE DEF entry
<1>5. n \in Nat
  BY <1>4 DEF Entry
<1>6. u \in Int /\ u - moment <= MaxDelay
  <2>1. CASE n >= FreeFailures
    <3>1. delay(n) \in Nat /\ delay(n) <= MaxDelay
      BY <1>5, <2>1, DelayCapped
    <3>2. u = moment + delay(n)
      BY <2>1
    <3> DEFINE d == delay(n)
    <3> HIDE DEF u, d
    <3>3. d \in Nat /\ d <= MaxDelay /\ u = moment + d
      BY <3>1, <3>2 DEF d
    <3> QED BY <1>0, <3>3, ThrottleLimits
  <2>2. CASE ~(n >= FreeFailures)
    <3>1. u = T[e].until /\ T[e] \in Entry /\ T[e].until - moment <= MaxDelay
      BY <1>2, <1>3, <1>4, <2>2
    <3> HIDE DEF u
    <3> QED BY <3>1 DEF Entry
  <2> QED BY <2>1, <2>2
<1> HIDE DEF n, u
<1>7. v = [failures |-> n, since |-> entry.since, until |-> u]
  BY <1>4, <1>5, <1>6, EntryFields
<1> HIDE DEF v
<1>8. v \in Entry /\ v.since <= moment /\ v.until - moment <= MaxDelay
  BY <1>4, <1>5, <1>6, <1>7 DEF Entry
<1> DEFINE U == [T EXCEPT ![e] = v]
<1>9. Bounded(U) /\ DOMAIN U = DOMAIN T /\ U[e] = v /\ \A k \in DOMAIN T : k # e => U[k] = T[k]
  BY <1>0, <1>2, <1>8, EntryWritten
<1> HIDE DEF U
<1>10. \A x \in DOMAIN U : U[x].until - moment <= MaxDelay
  BY <1>3, <1>8, <1>9
<1> QED BY <1>1, <1>9, <1>10 DEF U

\* A failed sign-in: a source waits at most to the end of its window.
LEMMA SourceFailure ==
    ASSUME ThrottleInv, NEW s
    PROVE  /\ Bounded(SourceFailed(s))
           /\ \A x \in DOMAIN SourceFailed(s) :
                 SourceFailed(s)[x].until - SourceFailed(s)[x].since <= SourceWindow
<1> DEFINE T == insert_bounded(sources, s, SourceWindow)
           entry == IF moment - T[s].since >= SourceWindow THEN NewEntry ELSE T[s]
           n == entry.failures + 1
           u == IF n >= SourceMaxFailures THEN entry.since + SourceWindow ELSE entry.until
           v == [entry EXCEPT !.failures = n, !.until = u]
<1>0. moment \in Nat /\ Bounded(sources)
  BY DEF ThrottleInv
<1>1. SourceFailed(s) = [T EXCEPT ![s] = v]
  BY DEF SourceFailed
<1>2. /\ Bounded(T) /\ s \in DOMAIN T
      /\ \A k \in DOMAIN T : (k \in DOMAIN sources /\ T[k] = sources[k]) \/ T[k] = NewEntry
  BY <1>0, InsertBounded
<1> HIDE DEF T
<1>3. NewEntry \in Entry /\ NewEntry.since <= moment /\ NewEntry.until - NewEntry.since <= SourceWindow
  <2>1. NewEntry \in Entry /\ NewEntry.since = moment /\ NewEntry.until = -1
    BY <1>0 DEF NewEntry, Never, Entry
  <2>2. -1 - moment <= SourceWindow
    BY <1>0, ThrottleLimits
  <2> QED BY <1>0, <2>1, <2>2
<1>4. \A k \in DOMAIN T : T[k] \in Entry /\ T[k].since <= moment /\ T[k].until - T[k].since <= SourceWindow
  BY <1>2, <1>3 DEF Bounded, ThrottleInv
<1>5. entry \in Entry /\ entry.since <= moment /\ entry.until - entry.since <= SourceWindow
  BY <1>2, <1>3, <1>4
<1> HIDE DEF entry
<1>6. n \in Nat /\ entry.since \in Nat /\ entry.until \in Int
  BY <1>5 DEF Entry
<1>7. u \in Int /\ u - entry.since <= SourceWindow
  BY <1>5, <1>6, ThrottleLimits
<1> HIDE DEF n, u
<1>8. v = [failures |-> n, since |-> entry.since, until |-> u]
  BY <1>5, <1>6, <1>7, EntryFields
<1> HIDE DEF v
<1>9. v \in Entry /\ v.since <= moment /\ v.until - v.since <= SourceWindow
  BY <1>5, <1>6, <1>7, <1>8 DEF Entry
<1> DEFINE U == [T EXCEPT ![s] = v]
<1>10. Bounded(U) /\ DOMAIN U = DOMAIN T /\ U[s] = v /\ \A k \in DOMAIN T : k # s => U[k] = T[k]
  BY <1>0, <1>2, <1>9, EntryWritten
<1> HIDE DEF U
<1>11. \A x \in DOMAIN U : U[x].until - U[x].since <= SourceWindow
  BY <1>4, <1>9, <1>10
<1> QED BY <1>1, <1>10, <1>11 DEF U

\* The inductive invariant of the throttle.
THEOREM ThrottleInvAlways == ThrottleSpec => []ThrottleInv
<1>1. ThrottleInit => ThrottleInv
  <2> SUFFICES ASSUME ThrottleInit PROVE ThrottleInv
    OBVIOUS
  <2>1. moment = 0 /\ emails = <<>> /\ sources = <<>>
    BY DEF ThrottleInit
  <2>2. DOMAIN <<>> = {} /\ <<>> = [k \in DOMAIN <<>> |-> <<>>[k]]
    OBVIOUS
  <2>3. IsFiniteSet({}) /\ Cardinality({}) = 0
    BY FS_EmptySet
  <2>4. Bounded(<<>>)
    BY <2>2, <2>3, ThrottleLimits DEF Bounded
  <2> QED BY <2>1, <2>2, <2>4 DEF ThrottleInv
<1>2. ThrottleInv /\ [ThrottleNext]_throttleVars => ThrottleInv'
  <2> SUFFICES ASSUME ThrottleInv, [ThrottleNext]_throttleVars PROVE ThrottleInv'
    OBVIOUS
  <2>0. moment \in Nat /\ Bounded(emails) /\ Bounded(sources)
    BY DEF ThrottleInv
  <2>1. ASSUME UNCHANGED <<moment, emails, sources>> PROVE ThrottleInv'
    BY <2>1 DEF ThrottleInv, Bounded
  <2>2. ASSUME NEW a \in hashing, record_failure(a) PROVE ThrottleInv'
    <3>1. emails' = EmailFailed(a[1]) /\ sources' \in {sources, SourceFailed(a[2])} /\ moment' = moment
      BY <2>2 DEF record_failure
    <3> DEFINE E == EmailFailed(a[1])
               S == SourceFailed(a[2])
    <3>2. Bounded(E) /\ \A x \in DOMAIN E : E[x].until - moment <= MaxDelay
      BY EmailFailure
    <3>3. Bounded(S) /\ \A x \in DOMAIN S : S[x].until - S[x].since <= SourceWindow
      BY SourceFailure
    <3>4. emails' = E /\ (sources' = sources \/ sources' = S)
      BY <3>1
    <3> HIDE DEF E, S
    <3>5. Bounded(emails)' /\ Bounded(sources)'
      BY <2>0, <3>1, <3>2, <3>3, <3>4 DEF Bounded
    <3> QED BY <3>1, <3>2, <3>3, <3>4, <3>5 DEF ThrottleInv
  <2>3. ASSUME NEW a \in hashing, record_success(a) PROVE ThrottleInv'
    <3> DEFINE E == [k \in DOMAIN emails \ {a[1]} |-> emails[k]]
               D == DOMAIN emails \ {a[1]}
    <3>1. emails' = E /\ UNCHANGED <<moment, sources>>
      BY <2>3 DEF record_success
    <3>2. DOMAIN E = D /\ D \subseteq DOMAIN emails /\ \A k \in D : E[k] = emails[k] /\ E = [k_1 \in DOMAIN E |-> E[k_1]]
      OBVIOUS
    <3>3. E = [k \in DOMAIN E |-> E[k]]
      OBVIOUS
    <3>4. IsFiniteSet(D) /\ Cardinality(D) <= MaxKeysTracked
      <4>1. IsFiniteSet(DOMAIN emails) /\ Cardinality(DOMAIN emails) <= MaxKeysTracked
        BY <2>0 DEF Bounded
      <4>2. D \subseteq DOMAIN emails
        OBVIOUS
      <4> HIDE DEF D
      <4>3. IsFiniteSet(D) /\ Cardinality(D) <= Cardinality(DOMAIN emails)
            /\ Cardinality(D) \in Nat /\ Cardinality(DOMAIN emails) \in Nat
        BY <4>1, <4>2, FS_Subset, FS_CardinalityType
      <4> QED BY <4>1, <4>3, ThrottleLimits
    <3> HIDE DEF E, D
    <3>5. Bounded(E)
      BY <2>0, <3>2, <3>3, <3>4 DEF Bounded
    <3>6. Bounded(emails)' /\ Bounded(sources)'
      BY <2>0, <3>1, <3>5 DEF Bounded
    <3> QED BY <3>1, <3>2, <3>6 DEF ThrottleInv
  <2>4. CASE MomentPasses
    <3>1. moment' = moment + 1 /\ UNCHANGED <<emails, sources>>
      BY <2>4 DEF MomentPasses
    <3>2. \A e \in DOMAIN emails : emails[e].since \in Nat /\ emails[e].until \in Int
      BY <2>0 DEF Bounded, Entry
    <3>3. \A s \in DOMAIN sources : sources[s].since \in Nat
      BY <2>0 DEF Bounded, Entry
    <3>4. Bounded(emails)' /\ Bounded(sources)'
      BY <2>0, <3>1, <3>2, <3>3 DEF Bounded
    <3> QED BY <2>0, <3>1, <3>2, <3>4, ThrottleLimits DEF ThrottleInv
  <2> QED BY <2>1, <2>2, <2>3, <2>4 DEF ThrottleNext, check, AttemptForgotten, throttleVars
<1> QED BY <1>1, <1>2, PTL DEF ThrottleSpec

\* However attempts overlap, nobody waits past the cap or the window, and the
\* tables stay bounded, whatever the limits.
THEOREM WaitsAreBoundedAlways == ThrottleSpec => []WaitsAreBounded
<1>1. ThrottleInv => WaitsAreBounded
  <2> SUFFICES ASSUME ThrottleInv PROVE WaitsAreBounded
    OBVIOUS
  <2>1. \A s \in DOMAIN sources : sources[s].since \in Nat /\ sources[s].until \in Int /\ sources[s].since <= moment
    BY DEF ThrottleInv, Bounded, Entry
  <2>2. \A s \in DOMAIN sources : sources[s].until - moment <= SourceWindow
    BY <2>1, ThrottleLimits DEF ThrottleInv
  <2> QED BY <2>2 DEF ThrottleInv, Bounded, WaitsAreBounded
<1> QED BY <1>1, ThrottleInvAlways, PTL

-----------------------------------------------------------------------------
(* The importer, of a source where no page is malformed as a whole.         *)

Dense == \A r \in Rows : \E q \in Rows : r <= q /\ q < r + PageRows /\ isource[q]

ImpCheckpoint == [after : 0..SourceRows, events : Nat, events_done : BOOLEAN, persons_done : BOOLEAN]

\* Where the importer is, and what it has behind it.
Progress ==
    \/ iproc = NotRunning
    \/ /\ iproc = [pc |-> iproc.pc, checkpoint |-> icheckpoint, after_person |-> iproc.after_person]
       /\ iproc.after_person \in Nat
       /\ iproc.pc # "persons" => iproc.after_person = 0
       /\ \/ iproc.pc = "flags"
          \/ iproc.pc = "page" /\ ~icheckpoint.events_done
          \/ /\ iproc.pc = "events_done" /\ ~icheckpoint.events_done
             /\ "events" \in imisread \/ WellFormed(SourceRows) \subseteq ihoglet.events
          \/ /\ iproc.pc = "persons" /\ icheckpoint.events_done /\ ~icheckpoint.persons_done
             /\ \A n \in 1..SourcePersons : n <= iproc.after_person => n \in ihoglet.persons
    \/ /\ iproc = [pc |-> "capture", checkpoint |-> icheckpoint, after_person |-> 0,
                   rest |-> iproc.rest, page |-> Page(icheckpoint.after)]
       /\ Page(icheckpoint.after) # {} /\ ~icheckpoint.events_done
       /\ iproc.rest \subseteq Batch(Page(icheckpoint.after))
       /\ Batch(Page(icheckpoint.after)) \subseteq ihoglet.events \cup iproc.rest

ImpInv ==
    /\ isource \in [Rows -> BOOLEAN] /\ Dense
    /\ icheckpoint \in ImpCheckpoint
    /\ icheckpoint.persons_done => icheckpoint.events_done
    /\ ihoglet = [events |-> ihoglet.events, persons |-> ihoglet.persons, flags |-> ihoglet.flags]
    /\ ihoglet.events \subseteq WellFormed(SourceRows) /\ ihoglet.persons \subseteq 1..SourcePersons
    /\ Progress
    /\ NothingSkipped

\* A range of rows is finite and counts as long as it is.
LEMMA RowRange ==
    ASSUME NEW a \in Nat, NEW k \in Nat, NEW n \in Nat, a + k <= n
    PROVE  LET S == {r \in 1..n : r > a /\ r <= a + k} IN IsFiniteSet(S) /\ Cardinality(S) = k
<1> DEFINE S == {r \in 1..n : r > a /\ r <= a + k}
<1>1. S = (a + 1)..(a + k)
  OBVIOUS
<1>2. IsFiniteSet((a + 1)..(a + k)) /\ Cardinality((a + 1)..(a + k)) = k
  <2>1. a + 1 \in Int /\ a + k \in Int
    OBVIOUS
  <2>2. Cardinality((a + 1)..(a + k)) = IF a + 1 > a + k THEN 0 ELSE (a + k) - (a + 1) + 1
    BY <2>1, FS_Interval
  <2>3. (IF a + 1 > a + k THEN 0 ELSE (a + k) - (a + 1) + 1) = k
    OBVIOUS
  <2> QED BY <2>1, <2>2, <2>3, FS_Interval
<1> QED BY <1>1, <1>2

\* What a page of a checkpoint adds: the cursor moves to its last well-formed row,
\* behind which lies what lay behind it and the batch, and nothing counts twice.
LEMMA PageAdvances ==
    ASSUME ImpInv, Page(icheckpoint.after) # {}
    PROVE  LET page == Page(icheckpoint.after)
               next == Advance(page, icheckpoint)
           IN /\ next \in ImpCheckpoint
              /\ next.after > icheckpoint.after
              /\ next.events_done = icheckpoint.events_done /\ next.persons_done = icheckpoint.persons_done
              /\ WellFormed(next.after) = WellFormed(icheckpoint.after) \cup Batch(page)
              /\ next.events = Cardinality(WellFormed(next.after))
              /\ Cardinality(page) < PageRows => WellFormed(SourceRows) = WellFormed(next.after)
<1> DEFINE a == icheckpoint.after
           page == Page(a)
           batch == Batch(page)
           last == CHOOSE r \in batch : \A q \in batch : q <= r
           total == icheckpoint.events + Cardinality(batch)
<1>1. /\ a \in 0..SourceRows /\ a \in Nat /\ SourceRows \in Nat /\ PageRows \in Nat \ {0}
      /\ icheckpoint.events \in Nat
  BY ImpAssumption DEF ImpInv, ImpCheckpoint
<1>2. page = {r \in 1..SourceRows : r > a /\ r <= a + PageRows} /\ batch = {r \in page : isource[r]}
  BY DEF Page, Batch, Rows
<1>3. batch # {}
  <2>1. PICK r \in 1..SourceRows : r > a
    BY <1>2
  <2>2. a + 1 \in 1..SourceRows
    BY <1>1, <2>1
  <2>3. PICK q \in 1..SourceRows : a + 1 <= q /\ q < a + 1 + PageRows /\ isource[q]
    BY <2>2 DEF ImpInv, Dense, Rows
  <2>4. q \in batch
    BY <1>1, <1>2, <2>3
  <2> QED BY <2>4
<1>4. batch \subseteq 0..SourceRows /\ batch \subseteq 1..SourceRows
  BY <1>1, <1>2
<1> HIDE DEF batch
<1>5. \E r \in batch : \A q \in batch : q <= r
  BY <1>1, <1>3, <1>4, GreatestNatural
<1>6. last \in batch /\ \A q \in batch : q <= last
  BY <1>5
<1> HIDE DEF last
<1>7. IsFiniteSet(batch) /\ Cardinality(batch) \in Nat /\ IsFiniteSet(WellFormed(a))
  <2>1. IsFiniteSet(1..SourceRows)
    BY <1>1, FS_Interval
  <2>2. WellFormed(a) \subseteq 1..SourceRows
    BY DEF WellFormed, Rows
  <2> QED BY <1>4, <2>1, <2>2, FS_Subset, FS_CardinalityType
<1> HIDE DEF total
<1>8. total \in Nat
  BY <1>1, <1>7 DEF total
<1>9. Advance(page, icheckpoint) = [icheckpoint EXCEPT !.after = last, !.events = total]
  BY <1>3 DEF Advance, last, total, batch
<1>10. [icheckpoint EXCEPT !.after = last, !.events = total]
         = [after |-> last, events |-> total, events_done |-> icheckpoint.events_done,
            persons_done |-> icheckpoint.persons_done]
  <2>1. icheckpoint = [after |-> icheckpoint.after, events |-> icheckpoint.events,
                       events_done |-> icheckpoint.events_done, persons_done |-> icheckpoint.persons_done]
    BY DEF ImpInv, ImpCheckpoint
  <2> DEFINE w == [icheckpoint EXCEPT !.after = last]
  <2>2. w = [after |-> last, events |-> icheckpoint.events, events_done |-> icheckpoint.events_done,
             persons_done |-> icheckpoint.persons_done]
    BY <2>1
  <2>3. [icheckpoint EXCEPT !.after = last, !.events = total] = [w EXCEPT !.events = total]
    OBVIOUS
  <2> HIDE DEF w
  <2> QED BY <2>2, <2>3
<1> DEFINE next == Advance(page, icheckpoint)
<1>11. /\ next.after = last /\ next.events = total /\ next.events_done = icheckpoint.events_done
       /\ next.persons_done = icheckpoint.persons_done /\ next \in ImpCheckpoint
  <2>1. last \in 0..SourceRows
    BY <1>4, <1>6
  <2>2. icheckpoint.events_done \in BOOLEAN /\ icheckpoint.persons_done \in BOOLEAN
    BY DEF ImpInv, ImpCheckpoint
  <2> QED BY <1>8, <1>9, <1>10, <2>1, <2>2 DEF ImpCheckpoint
<1> HIDE DEF next
<1>12. last > a
  BY <1>2, <1>6 DEF batch
<1>13. WellFormed(last) = WellFormed(a) \cup batch /\ WellFormed(a) \cap batch = {}
  <2>1. ASSUME NEW r \in WellFormed(last) PROVE r \in WellFormed(a) \cup batch
    <3>1. r \in 1..SourceRows /\ isource[r] /\ r <= last
      BY DEF WellFormed, Rows
    <3>2. last \in Nat /\ last <= a + PageRows
      BY <1>1, <1>2, <1>6, <1>12 DEF batch
    <3>3. CASE r <= a
      BY <3>1, <3>3 DEF WellFormed, Rows
    <3>4. CASE r > a
      BY <1>1, <1>2, <3>1, <3>2, <3>4
    <3> QED BY <1>1, <3>1, <3>3, <3>4
  <2>2. ASSUME NEW r \in batch PROVE r \in WellFormed(last)
    BY <1>1, <1>2, <1>6 DEF WellFormed, Rows
  <2>3. ASSUME NEW r \in WellFormed(a) PROVE r \in WellFormed(last) /\ r \notin batch
    <3>1. r \in 1..SourceRows /\ isource[r] /\ r <= a
      BY DEF WellFormed, Rows
    <3>2. last \in Nat
      BY <1>4, <1>6
    <3> QED BY <1>1, <1>2, <1>12, <3>1, <3>2 DEF WellFormed, Rows
  <2> QED BY <2>1, <2>2, <2>3
<1>14. total = Cardinality(WellFormed(last))
  <2>1. icheckpoint.events = Cardinality(WellFormed(a))
    BY DEF ImpInv, NothingSkipped
  <2>2. Cardinality(WellFormed(a) \cup batch) = Cardinality(WellFormed(a)) + Cardinality(batch) - Cardinality(WellFormed(a) \cap batch)
    BY <1>7, FS_Union
  <2>3. Cardinality(WellFormed(a) \cap batch) = 0
    BY <1>13, FS_EmptySet
  <2>4. Cardinality(WellFormed(a)) \in Nat
    BY <1>7, FS_CardinalityType
  <2> QED BY <1>7, <1>13, <2>1, <2>2, <2>3, <2>4 DEF total
<1>15. ASSUME Cardinality(page) < PageRows PROVE WellFormed(SourceRows) = WellFormed(last)
  <2>1. ~(a + PageRows <= SourceRows)
    <3>1. ASSUME a + PageRows <= SourceRows PROVE Cardinality(page) = PageRows
      <4>1. ASSUME NEW x \in Nat, x + PageRows <= SourceRows
            PROVE  Cardinality({r \in 1..SourceRows : r > x /\ r <= x + PageRows}) = PageRows
        BY <1>1, <4>1, RowRange
      <4> QED BY <1>1, <1>2, <3>1, <4>1
    <3> QED BY <1>1, <1>15, <3>1
  <2>2. ASSUME NEW r \in WellFormed(SourceRows) PROVE r \in WellFormed(a) \cup batch
    <3>1. r \in 1..SourceRows /\ isource[r]
      BY DEF WellFormed, Rows
    <3>2. CASE r <= a
      BY <3>1, <3>2 DEF WellFormed, Rows
    <3>3. CASE r > a
      BY <1>1, <1>2, <2>1, <3>1, <3>3
    <3> QED BY <1>1, <3>1, <3>2, <3>3
  <2>3. WellFormed(last) \subseteq WellFormed(SourceRows)
    BY <1>1 DEF WellFormed, Rows
  <2> QED BY <1>13, <2>2, <2>3
<1> QED BY <1>11, <1>12, <1>13, <1>14, <1>15 DEF next, batch

\* The checkpoint, the pages and the events are the source's, so that a step that
\* leaves it and the events alone keeps what lies behind it.
LEMMA RunStep ==
    ASSUME ImpInv, RunImporter
    PROVE  ImpInv'
<1>1. /\ UNCHANGED <<isource, icheckpoint, ihoglet, imisread>>
      /\ iproc' = [pc |-> iproc'.pc, checkpoint |-> icheckpoint, after_person |-> 0]
      /\ iproc'.after_person = 0
      /\ \/ iproc'.pc = "page" /\ ~icheckpoint.events_done
         \/ iproc'.pc = "persons" /\ icheckpoint.events_done /\ ~icheckpoint.persons_done
         \/ iproc'.pc = "flags"
  BY DEF RunImporter
<1>2. \A n \in 1..SourcePersons : ~(n <= 0)
  BY ImpAssumption
<1>3. Progress'
  BY <1>1, <1>2 DEF Progress
<1> QED BY <1>1, <1>3 DEF ImpInv, Dense, NothingSkipped, WellFormed

\* A page is there, or the events are, or the answer was not read.
LEMMA FetchStep ==
    ASSUME ImpInv, FetchPage
    PROVE  ImpInv'
<1> DEFINE page == Page(icheckpoint.after)
<1>1. /\ iproc = [pc |-> "page", checkpoint |-> icheckpoint, after_person |-> iproc.after_person]
      /\ iproc.after_person = 0 /\ ~icheckpoint.events_done
  BY DEF ImpInv, Progress, FetchPage, NotRunning
<1>2. UNCHANGED <<isource, icheckpoint, ihoglet>> /\ Page(icheckpoint.after)' = page
  BY DEF FetchPage, Page, Rows
<1>3. PICK rows \in {page, {}} :
        /\ iproc' = IF rows = {} THEN [iproc EXCEPT !.pc = "events_done"]
                    ELSE [pc |-> "capture", checkpoint |-> icheckpoint, after_person |-> 0,
                          rest |-> Batch(rows), page |-> rows]
        /\ imisread' = IF rows = page THEN imisread \ {"events"} ELSE imisread \cup {"events"}
  BY <1>1 DEF FetchPage, hogql, Answered
<1>4. NothingSkipped'
  <2>1. "persons" \in imisread' <=> "persons" \in imisread
    BY <1>3
  <2>2. WellFormed(icheckpoint.after)' = WellFormed(icheckpoint.after) /\ WellFormed(SourceRows)' = WellFormed(SourceRows)
    BY <1>2 DEF WellFormed, Rows
  <2> QED BY <1>1, <1>2, <2>1, <2>2 DEF ImpInv, NothingSkipped
<1>5. CASE rows = {}
  <2>1. iproc' = [iproc EXCEPT !.pc = "events_done"]
    BY <1>3, <1>5
  <2>2. iproc' = [pc |-> "events_done", checkpoint |-> icheckpoint, after_person |-> iproc.after_person]
    BY <1>1, <2>1
  <2>3. page = {} => WellFormed(SourceRows) \subseteq ihoglet.events
    <3>1. icheckpoint.after \in Nat /\ PageRows \in Nat \ {0} /\ SourceRows \in Nat
      BY ImpAssumption DEF ImpInv, ImpCheckpoint
    <3>2. ASSUME page = {}, NEW r \in WellFormed(SourceRows) PROVE r \in WellFormed(icheckpoint.after)
      <4>1. r \in 1..SourceRows /\ isource[r]
        BY DEF WellFormed, Rows
      <4>2. CASE r > icheckpoint.after
        <5>1. icheckpoint.after + 1 \in page
          BY <3>1, <4>1, <4>2 DEF Page, Rows
        <5> QED BY <3>2, <5>1
      <4> QED BY <3>1, <4>1, <4>2 DEF WellFormed, Rows
    <3> QED BY <3>2 DEF ImpInv, NothingSkipped
  <2>4. ("events" \in imisread \/ WellFormed(SourceRows) \subseteq ihoglet.events)'
    <3>1. CASE page = {}
      BY <1>2, <2>3, <3>1 DEF WellFormed
    <3>2. CASE page # {}
      BY <1>3, <1>5, <3>2
    <3> QED BY <3>1, <3>2
  <2>5. Progress'
    BY <1>1, <1>2, <2>2, <2>4 DEF Progress
  <2> QED BY <1>2, <1>4, <2>5 DEF ImpInv, Dense, WellFormed
<1>6. CASE rows # {}
  <2>0. rows = page
    BY <1>6
  <2>1. iproc' = [pc |-> "capture", checkpoint |-> icheckpoint, after_person |-> 0, rest |-> Batch(page), page |-> page]
    BY <1>3, <1>6, <2>0
  <2>2. Batch(page)' = Batch(page)
    BY <1>2 DEF Batch
  <2>3. page # {}
    BY <1>6, <2>0
  <2> HIDE DEF page
  <2>4. Progress'
    <3>1. iproc'.rest = Batch(page)
      BY <2>1
    <3>2. Batch(Page(icheckpoint.after))' = Batch(page)
      BY <1>2 DEF Batch
    <3> QED BY <1>1, <1>2, <2>1, <2>3, <3>1, <3>2 DEF Progress
  <2> QED BY <1>2, <1>4, <2>4 DEF ImpInv, Dense, WellFormed
<1> QED BY <1>5, <1>6

\* A request: what it sent is in Hoglet, and is the source's.
LEMMA CaptureStep ==
    ASSUME ImpInv, NEW answered \in BOOLEAN, capture(answered)
    PROVE  ImpInv'
<1> DEFINE page == Page(icheckpoint.after)
           chunk == FirstOf(iproc.rest, BatchRows)
<1>1. /\ iproc = [pc |-> "capture", checkpoint |-> icheckpoint, after_person |-> 0, rest |-> iproc.rest, page |-> page]
      /\ page # {} /\ iproc.rest \subseteq Batch(page) /\ Batch(page) \subseteq ihoglet.events \cup iproc.rest
      /\ ~icheckpoint.events_done
  BY DEF ImpInv, Progress, capture, NotRunning
<1>2. /\ UNCHANGED <<isource, icheckpoint, imisread>> /\ Page(icheckpoint.after)' = page /\ Batch(Page(icheckpoint.after))' = Batch(page)
      /\ \A n : WellFormed(n)' = WellFormed(n)
  BY DEF capture, Page, Batch, WellFormed, Rows
<1>3. chunk \subseteq iproc.rest /\ chunk \subseteq WellFormed(SourceRows)
  <2>1. chunk \subseteq iproc.rest
    BY DEF FirstOf
  <2>2. Batch(page) \subseteq WellFormed(SourceRows)
    BY ImpAssumption DEF Batch, Page, WellFormed, Rows
  <2> QED BY <1>1, <2>1, <2>2
<1>4. ihoglet' = [ihoglet EXCEPT !.events = @ \cup chunk] /\ (iproc' = [iproc EXCEPT !.rest = @ \ chunk] \/ iproc' = iproc)
  BY DEF capture
<1> HIDE DEF page, chunk
<1>5. /\ ihoglet' = [events |-> ihoglet'.events, persons |-> ihoglet'.persons, flags |-> ihoglet'.flags]
      /\ ihoglet'.events = ihoglet.events \cup chunk /\ ihoglet'.persons = ihoglet.persons
  BY <1>4 DEF ImpInv
<1>6. /\ iproc' = [pc |-> "capture", checkpoint |-> icheckpoint, after_person |-> 0, rest |-> iproc'.rest, page |-> page]
      /\ iproc'.rest \subseteq iproc.rest /\ iproc.rest \subseteq iproc'.rest \cup chunk
  <2>1. CASE iproc' = iproc
    BY <1>1, <2>1
  <2>2. CASE iproc' = [iproc EXCEPT !.rest = @ \ chunk]
    BY <1>1, <2>2
  <2> QED BY <1>4, <2>1, <2>2
<1>7. Progress'
  <2>1. iproc'.rest \subseteq Batch(page) /\ Batch(page) \subseteq ihoglet'.events \cup iproc'.rest
    BY <1>1, <1>5, <1>6
  <2> QED BY <1>1, <1>2, <1>6, <2>1 DEF Progress
<1>8. NothingSkipped'
  BY <1>2, <1>3, <1>5 DEF ImpInv, NothingSkipped
<1> QED BY <1>2, <1>3, <1>5, <1>7, <1>8 DEF ImpInv, Dense

\* The checkpoint is written after the page.
LEMMA SaveStep ==
    ASSUME ImpInv, save_checkpoint
    PROVE  ImpInv' /\ icheckpoint'.after > icheckpoint.after
<1> DEFINE page == Page(icheckpoint.after)
           next == Advance(page, icheckpoint)
           step == IF Cardinality(page) < PageRows THEN "events_done" ELSE "page"
<1>1. /\ iproc = [pc |-> "capture", checkpoint |-> icheckpoint, after_person |-> 0, rest |-> iproc.rest, page |-> page]
      /\ page # {} /\ Batch(page) \subseteq ihoglet.events \cup iproc.rest /\ iproc.rest = {}
      /\ ~icheckpoint.events_done
  BY DEF ImpInv, Progress, save_checkpoint, NotRunning
<1>2. /\ UNCHANGED <<isource, ihoglet, imisread>> /\ icheckpoint' = next
      /\ iproc' = [pc |-> step, checkpoint |-> icheckpoint', after_person |-> 0]
      /\ \A n : WellFormed(n)' = WellFormed(n)
  BY <1>1 DEF save_checkpoint, WellFormed, Rows
<1>3. /\ next \in ImpCheckpoint /\ next.after > icheckpoint.after
      /\ next.events_done = icheckpoint.events_done /\ next.persons_done = icheckpoint.persons_done
      /\ WellFormed(next.after) = WellFormed(icheckpoint.after) \cup Batch(page)
      /\ next.events = Cardinality(WellFormed(next.after))
      /\ Cardinality(page) < PageRows => WellFormed(SourceRows) = WellFormed(next.after)
  BY <1>1, PageAdvances
<1>4. step = "page" \/ (step = "events_done" /\ Cardinality(page) < PageRows)
  OBVIOUS
<1> HIDE DEF next, step, page
<1>5. WellFormed(next.after) \subseteq ihoglet.events
  BY <1>1, <1>3 DEF ImpInv, NothingSkipped
<1>6. NothingSkipped'
  <2>1. WellFormed(icheckpoint.after)' = WellFormed(next.after)
    BY <1>2 DEF WellFormed
  <2>2. WellFormed(SourceRows)' = WellFormed(SourceRows)
    BY <1>2
  <2> QED BY <1>2, <1>3, <1>5, <2>1, <2>2 DEF ImpInv, NothingSkipped
<1>7. Progress'
  <2>1. iproc'.pc = step /\ iproc'.after_person = 0
    BY <1>2
  <2>2. step = "events_done" => (WellFormed(SourceRows) \subseteq ihoglet.events)'
    BY <1>2, <1>3, <1>4, <1>5
  <2>3. ~icheckpoint'.events_done
    BY <1>1, <1>2, <1>3
  <2> QED BY <1>2, <1>4, <2>1, <2>2, <2>3 DEF Progress
<1> QED BY <1>2, <1>3, <1>6, <1>7 DEF ImpInv, Dense

\* All the events are there, and the checkpoint says so.
LEMMA FinishStep ==
    ASSUME ImpInv, FinishEvents
    PROVE  ImpInv' /\ icheckpoint'.after = icheckpoint.after
<1> DEFINE yes == TRUE
           a == icheckpoint.after
           c == [icheckpoint EXCEPT !.events_done = yes]
           next == [after |-> a, events |-> icheckpoint.events, events_done |-> yes,
                    persons_done |-> icheckpoint.persons_done]
<1>1. /\ iproc = [pc |-> "events_done", checkpoint |-> icheckpoint, after_person |-> iproc.after_person]
      /\ iproc.after_person = 0 /\ ~icheckpoint.events_done
      /\ "events" \in imisread \/ WellFormed(SourceRows) \subseteq ihoglet.events
  BY DEF ImpInv, Progress, FinishEvents, NotRunning
<1>2. iproc.checkpoint = icheckpoint
  BY <1>1
<1>3. /\ UNCHANGED <<isource, ihoglet, imisread>> /\ icheckpoint' = c
      /\ iproc' = [iproc EXCEPT !.pc = "persons", !.checkpoint = icheckpoint']
      /\ \A n : WellFormed(n)' = WellFormed(n)
  BY <1>2 DEF FinishEvents, WellFormed, Rows
<1>4. yes \in BOOLEAN /\ yes
  OBVIOUS
<1> HIDE DEF yes
<1>5. c = next /\ next \in ImpCheckpoint
  <2>1. icheckpoint = [after |-> icheckpoint.after, events |-> icheckpoint.events,
                       events_done |-> icheckpoint.events_done, persons_done |-> icheckpoint.persons_done]
        /\ icheckpoint \in ImpCheckpoint
    BY DEF ImpInv, ImpCheckpoint
  <2>2. c = next
    BY <2>1
  <2>3. next \in ImpCheckpoint
    BY <1>4, <2>1 DEF ImpCheckpoint
  <2> QED BY <2>2, <2>3
<1> HIDE DEF c, next
<1>6. iproc' = [pc |-> "persons", checkpoint |-> icheckpoint', after_person |-> iproc.after_person]
  <2> DEFINE w == [iproc EXCEPT !.pc = "persons"]
  <2>1. w = [pc |-> "persons", checkpoint |-> icheckpoint, after_person |-> iproc.after_person]
    BY <1>1
  <2>2. iproc' = [w EXCEPT !.checkpoint = icheckpoint']
    BY <1>3
  <2> HIDE DEF w
  <2> QED BY <2>1, <2>2
<1>7. /\ icheckpoint'.after = a /\ icheckpoint'.events = icheckpoint.events
      /\ icheckpoint'.persons_done = icheckpoint.persons_done /\ icheckpoint'.events_done /\ ~icheckpoint'.persons_done
  BY <1>1, <1>3, <1>4, <1>5 DEF next, ImpInv
<1>8. NothingSkipped'
  <2>1. WellFormed(icheckpoint.after)' = WellFormed(icheckpoint.after) /\ WellFormed(SourceRows)' = WellFormed(SourceRows)
    BY <1>3, <1>7 DEF WellFormed
  <2>2. "events" \in imisread \/ WellFormed(SourceRows) = ihoglet.events
    BY <1>1 DEF ImpInv
  <2> QED BY <1>3, <1>7, <2>1, <2>2 DEF ImpInv, NothingSkipped
<1>9. Progress'
  <2>1. iproc'.pc = "persons" /\ iproc'.after_person = 0
    BY <1>1, <1>6
  <2>2. \A n \in 1..SourcePersons : ~(n <= 0)
    BY ImpAssumption
  <2> QED BY <1>1, <1>6, <1>7, <2>1, <2>2 DEF Progress
<1> QED BY <1>3, <1>5, <1>7, <1>8, <1>9 DEF ImpInv, Dense

\* A page of persons; the last one finishes them, and so does an answer not read.
LEMMA PersonsStep ==
    ASSUME ImpInv, ImportPersonPage
    PROVE  ImpInv' /\ icheckpoint'.after = icheckpoint.after
<1> DEFINE p == iproc.after_person
           rows == {n \in 1..SourcePersons : n > p /\ n <= p + PageRows}
           yes == TRUE
           done == [icheckpoint EXCEPT !.persons_done = yes]
           next == [after |-> icheckpoint.after, events |-> icheckpoint.events,
                    events_done |-> icheckpoint.events_done, persons_done |-> yes]
<1>1. /\ iproc = [pc |-> "persons", checkpoint |-> icheckpoint, after_person |-> p]
      /\ p \in Nat /\ \A n \in 1..SourcePersons : n <= p => n \in ihoglet.persons
      /\ icheckpoint.events_done /\ ~icheckpoint.persons_done
  BY DEF ImpInv, Progress, ImportPersonPage, NotRunning
<1>2. iproc.checkpoint = icheckpoint
  BY <1>1
<1>a. PICK page \in {rows, {}} :
        LET last == Cardinality(page) < PageRows
        IN /\ imisread' = IF page = rows THEN imisread \ {"persons"} ELSE imisread \cup {"persons"}
           /\ ihoglet' = [ihoglet EXCEPT !.persons = @ \cup page]
           /\ iproc' = IF last THEN [pc |-> "flags", checkpoint |-> done, after_person |-> 0]
                       ELSE [iproc EXCEPT !.after_person = @ + PageRows]
           /\ icheckpoint' = IF last THEN done ELSE icheckpoint
  BY <1>2 DEF ImportPersonPage, hogql, Answered
<1> DEFINE last == Cardinality(page) < PageRows
<1>3. /\ isource' = isource /\ ihoglet' = [ihoglet EXCEPT !.persons = @ \cup page]
      /\ iproc' = IF last THEN [pc |-> "flags", checkpoint |-> done, after_person |-> 0]
                  ELSE [iproc EXCEPT !.after_person = @ + PageRows]
      /\ icheckpoint' = IF last THEN done ELSE icheckpoint
      /\ \A n : WellFormed(n)' = WellFormed(n)
  BY <1>a DEF ImportPersonPage, WellFormed, Rows
<1>4. p \in Nat /\ PageRows \in Nat \ {0} /\ SourcePersons \in Nat /\ yes \in BOOLEAN /\ yes
  BY <1>1, ImpAssumption
<1>5. /\ page \subseteq 1..SourcePersons
      /\ page = rows => \A n \in 1..SourcePersons : n > p /\ n <= p + PageRows => n \in page
  OBVIOUS
<1>6. page = rows /\ last => p + PageRows > SourcePersons
  <2>1. ASSUME NEW x \in Nat, x + PageRows <= SourcePersons
        PROVE  Cardinality({r \in 1..SourcePersons : r > x /\ r <= x + PageRows}) = PageRows
    BY <1>4, <2>1, RowRange
  <2>2. p + PageRows <= SourcePersons => Cardinality(rows) = PageRows
    BY <1>4, <2>1
  <2> HIDE DEF rows, p
  <2> QED BY <1>4, <2>2
<1>b. page = rows \/ last
  <2> HIDE DEF rows, last
  <2>1. CASE page = {}
    <3>1. Cardinality(page) = 0
      BY <2>1, FS_EmptySet
    <3> QED BY <1>4, <3>1 DEF last
  <2> QED BY <2>1
<1>c. /\ "events" \in imisread' <=> "events" \in imisread
      /\ page # rows => "persons" \in imisread'
  BY <1>a
<1> HIDE DEF yes
<1>7. done = next /\ next \in ImpCheckpoint
  <2>1. icheckpoint = [after |-> icheckpoint.after, events |-> icheckpoint.events,
                       events_done |-> icheckpoint.events_done, persons_done |-> icheckpoint.persons_done]
        /\ icheckpoint \in ImpCheckpoint
    BY DEF ImpInv, ImpCheckpoint
  <2>2. done = next
    BY <2>1
  <2>3. next \in ImpCheckpoint
    BY <1>4, <2>1 DEF ImpCheckpoint
  <2> QED BY <2>2, <2>3
<1> HIDE DEF rows, last, done
<1>8. /\ ihoglet' = [events |-> ihoglet'.events, persons |-> ihoglet'.persons, flags |-> ihoglet'.flags]
      /\ ihoglet'.events = ihoglet.events /\ ihoglet'.persons = ihoglet.persons \cup page
  BY <1>3 DEF ImpInv
<1>9. page = rows => \A n \in 1..SourcePersons : n <= p + PageRows => n \in ihoglet'.persons
  BY <1>1, <1>4, <1>5, <1>8
<1>10. CASE last
  <2> HIDE DEF p
  <2>1. page = rows => ihoglet'.persons = 1..SourcePersons
    BY <1>4, <1>5, <1>6, <1>8, <1>9, <1>10 DEF ImpInv
  <2>2. icheckpoint' = next /\ iproc' = [pc |-> "flags", checkpoint |-> icheckpoint', after_person |-> 0]
    BY <1>3, <1>7, <1>10
  <2>3. icheckpoint'.after = icheckpoint.after /\ icheckpoint'.events = icheckpoint.events
        /\ icheckpoint'.events_done = icheckpoint.events_done
    BY <2>2
  <2>4. NothingSkipped'
    <3>1. WellFormed(icheckpoint.after)' = WellFormed(icheckpoint.after) /\ WellFormed(SourceRows)' = WellFormed(SourceRows)
      BY <1>3, <2>3 DEF WellFormed
    <3> QED BY <1>8, <1>c, <2>1, <2>3, <3>1 DEF ImpInv, NothingSkipped
  <2>6. icheckpoint'.persons_done => icheckpoint'.events_done
    BY <1>1, <2>3
  <2> HIDE DEF next
  <2>5. Progress'
    BY <2>2 DEF Progress
  <2> QED BY <1>3, <1>5, <1>7, <1>8, <2>2, <2>3, <2>4, <2>5, <2>6 DEF ImpInv, Dense
<1>11. CASE ~last
  <2>1. icheckpoint' = icheckpoint /\ iproc' = [iproc EXCEPT !.after_person = p + PageRows]
    BY <1>3, <1>11
  <2> DEFINE q == p + PageRows
  <2>2. q \in Nat
    BY <1>4
  <2>3. iproc' = [iproc EXCEPT !.after_person = q]
    BY <2>1
  <2>6. \A n \in 1..SourcePersons : n <= q => n \in ihoglet'.persons
    BY <1>9, <1>b, <1>11
  <2> HIDE DEF q
  <2>4. iproc' = [pc |-> "persons", checkpoint |-> icheckpoint, after_person |-> q]
    BY <1>1, <2>3
  <2>8. iproc'.pc = "persons" /\ iproc'.after_person = q
    BY <2>4
  <2>5. Progress'
    BY <1>1, <2>1, <2>2, <2>4, <2>6, <2>8 DEF Progress
  <2>7. NothingSkipped'
    <3>1. WellFormed(icheckpoint.after)' = WellFormed(icheckpoint.after) /\ WellFormed(SourceRows)' = WellFormed(SourceRows)
      BY <1>3, <2>1 DEF WellFormed
    <3> QED BY <1>1, <1>8, <1>c, <2>1, <3>1 DEF ImpInv, NothingSkipped
  <2> QED BY <1>3, <1>5, <1>8, <2>1, <2>5, <2>7 DEF ImpInv, Dense
<1> QED BY <1>10, <1>11

\* What the importer keeps, whenever it is stopped and run again.
THEOREM ImpInvAlways ==
    ASSUME ~LongGaps
    PROVE  ImpSpec => []ImpInv
<1>1. ImpInit => ImpInv
  <2> SUFFICES ASSUME ImpInit PROVE ImpInv
    OBVIOUS
  <2>1. WellFormed(0) = {}
    BY DEF WellFormed, Rows
  <2>2. icheckpoint.after = 0 /\ icheckpoint.events = 0 /\ ihoglet.events = {} /\ ihoglet.persons = {}
        /\ ~icheckpoint.events_done /\ ~icheckpoint.persons_done
    BY DEF ImpInit
  <2>3. NothingSkipped
    BY <2>1, <2>2, FS_EmptySet DEF NothingSkipped
  <2>4. icheckpoint \in ImpCheckpoint
    <3> DEFINE no == FALSE
    <3>1. icheckpoint = [after |-> 0, events |-> 0, events_done |-> no, persons_done |-> no] /\ no \in BOOLEAN
      BY DEF ImpInit
    <3> HIDE DEF no
    <3> QED BY <3>1, ImpAssumption DEF ImpCheckpoint
  <2>5. isource \in [Rows -> BOOLEAN] /\ Dense /\ iproc = NotRunning
    BY DEF ImpInit, Dense
  <2>6. ihoglet = [events |-> ihoglet.events, persons |-> ihoglet.persons, flags |-> ihoglet.flags]
    BY DEF ImpInit
  <2> QED BY <2>2, <2>3, <2>4, <2>5, <2>6 DEF ImpInv, Progress
<1>2. ImpInv /\ [ImpNext]_impVars => ImpInv'
  <2> SUFFICES ASSUME ImpInv, [ImpNext]_impVars PROVE ImpInv'
    OBVIOUS
  <2>1. CASE RunImporter BY <2>1, RunStep
  <2>2. CASE FetchPage BY <2>2, FetchStep
  <2>3. CASE save_checkpoint BY <2>3, SaveStep
  <2>4. CASE FinishEvents BY <2>4, FinishStep
  <2>5. CASE ImportPersonPage BY <2>5, PersonsStep
  <2>6. CASE ImportFlags
    <3>1. /\ UNCHANGED <<isource, icheckpoint, imisread>> /\ iproc' = NotRunning
          /\ ihoglet' \in {ihoglet, [events |-> ihoglet.events, persons |-> ihoglet.persons, flags |-> 1]}
      BY <2>6 DEF ImportFlags, ImpInv
    <3>2. /\ ihoglet'.events = ihoglet.events /\ ihoglet'.persons = ihoglet.persons
          /\ ihoglet' = [events |-> ihoglet'.events, persons |-> ihoglet'.persons, flags |-> ihoglet'.flags]
      BY <3>1 DEF ImpInv
    <3> QED BY <3>1, <3>2 DEF ImpInv, Progress, Dense, NothingSkipped, WellFormed
  <2>7. CASE StopImporter
    BY <2>7 DEF StopImporter, ImpInv, Progress, Dense, NothingSkipped, WellFormed
  <2>8. CASE \E answered \in BOOLEAN : capture(answered) BY <2>8, CaptureStep
  <2>9. CASE UNCHANGED impVars
    BY <2>9 DEF impVars, ImpInv, Progress, Dense, NothingSkipped, WellFormed, Page, Batch
  <2> QED BY <2>1, <2>2, <2>3, <2>4, <2>5, <2>6, <2>7, <2>8, <2>9 DEF ImpNext
<1> QED BY <1>1, <1>2, PTL DEF ImpSpec

\* For every source without a malformed page, page size and batch size: however often
\* the importer of import.rs is stopped and run again, what lies behind its checkpoint
\* is in Hoglet, its count is exact, and done means all of it unless the answer that
\* ended the part could not be read.
THEOREM NothingSkippedAlways ==
    ASSUME ~LongGaps
    PROVE  ImpSpec => []NothingSkipped
<1>1. ImpInv => NothingSkipped
  BY DEF ImpInv
<1> QED BY <1>1, ImpInvAlways, PTL

\* The same importer's checkpoint never goes back (save_checkpoint of import.rs).
THEOREM CheckpointAdvancesAlways ==
    ASSUME ~LongGaps
    PROVE  ImpSpec => CheckpointAdvances
<1>1. ImpInv /\ [ImpNext]_impVars => [icheckpoint'.after >= icheckpoint.after]_impVars
  <2> SUFFICES ASSUME ImpInv, ImpNext PROVE icheckpoint'.after >= icheckpoint.after
    OBVIOUS
  <2>1. icheckpoint.after \in Int
    BY ImpAssumption DEF ImpInv, ImpCheckpoint
  <2>2. CASE save_checkpoint
    <3>1. ImpInv' /\ icheckpoint'.after > icheckpoint.after
      BY <2>2, SaveStep
    <3>2. icheckpoint'.after \in Int
      BY <3>1, ImpAssumption DEF ImpInv, ImpCheckpoint
    <3> QED BY <2>1, <3>1, <3>2
  <2>3. CASE FinishEvents BY <2>1, <2>3, FinishStep
  <2>4. CASE ImportPersonPage BY <2>1, <2>4, PersonsStep
  <2>5. CASE RunImporter \/ FetchPage \/ ImportFlags \/ StopImporter \/ \E answered \in BOOLEAN : capture(answered)
    BY <2>1, <2>5 DEF RunImporter, FetchPage, ImportFlags, StopImporter, capture
  <2> QED BY <2>2, <2>3, <2>4, <2>5 DEF ImpNext
<1> QED BY <1>1, ImpInvAlways, PTL DEF ImpSpec, CheckpointAdvances

-----------------------------------------------------------------------------
(* The storage bootstrap.                                                   *)

Paths == {"control", "projections", "control.migrating", "projections.migrating"}
BootFile == [pair : PairIds \cup {Foreign}, whole : BOOLEAN]
Directory == [Paths -> BootFile \cup {NoFile}]

Published(d) == Exists(d, "projections") \/ Exists(d, "control")
Opens(d) == Untouched(d) /\ Published(d) => Startable(d)

\* A finished pair, and one whose control database still waits for its name.
Finished(d) ==
    /\ Exists(d, "control") /\ Exists(d, "projections") /\ validate_pair(d["control"], d["projections"])
    /\ ~Exists(d, "control.migrating") /\ ~Exists(d, "projections.migrating")
HalfNamed(d) ==
    /\ ~Exists(d, "control") /\ Exists(d, "projections") /\ Exists(d, "control.migrating")
    /\ ~Exists(d, "projections.migrating") /\ validate_pair(d["control.migrating"], d["projections"])

\* What each step of the server finds in the directory.
StepFinds ==
    LET d == bdir
        pc == bserver.pc
    IN /\ pc \in {"remove_temporaries", "pair_id", "create_control", "create_projections", "rename_projections"}
             => ~Published(d)
       /\ pc \in {"pair_id", "create_control"} => ~Exists(d, "projections.migrating")
       /\ pc = "pair_id" => ~Exists(d, "control.migrating")
       /\ pc \in {"create_control", "create_projections", "rename_projections"}
             => bserver.pair \in PairIds /\ bserver = [pc |-> pc, pair |-> bserver.pair]
       /\ pc \in {"create_projections", "rename_projections"} => d["control.migrating"] = Database(bserver.pair)
       /\ pc = "rename_projections" => d["projections.migrating"] = Database(bserver.pair)
       /\ pc \in {"sync_projections", "rename_control"} => HalfNamed(d)
       /\ pc \in {"sync_control", "validate", "serving"} => Finished(d)

BootInv ==
    /\ bdir \in Directory /\ bpending \subseteq Directory
    /\ bserver = [pc |-> bserver.pc] \/ bserver = [pc |-> bserver.pc, pair |-> bserver.pair]
    /\ StepFinds
    /\ \A d \in bpending \cup {bdir} : Opens(d)

\* A directory with a finished pair, or with one that is half named, starts.
LEMMA PairsOpen ==
    ASSUME NEW d
    PROVE  Finished(d) \/ HalfNamed(d) => Startable(d)
<1>1. ASSUME Finished(d) PROVE Startable(d)
  <2>1. inspect_storage(d) = "ReadyV2"
    BY <1>1 DEF Finished, inspect_storage
  <2> QED BY <2>1 DEF Startable
<1>2. ASSUME HalfNamed(d) PROVE Startable(d)
  <2>1. inspect_storage(d) = "MigrationIncomplete"
    BY <1>2 DEF HalfNamed, inspect_storage
  <2> QED BY <1>2, <2>1 DEF Startable, HalfNamed, Recoverable, recoverable_fresh_bootstrap
<1> QED BY <1>1, <1>2

\* A database is a file.
LEMMA DatabaseIsFile ==
    ASSUME NEW pair \in PairIds \cup {Foreign}
    PROVE  /\ Database(pair) \in BootFile /\ Database(pair) # NoFile
           /\ Database(pair).whole /\ Database(pair).pair = pair
<1> DEFINE yes == TRUE
<1>1. yes \in BOOLEAN /\ yes /\ Database(pair) = [pair |-> pair, whole |-> yes]
  BY DEF Database
<1> HIDE DEF yes
<1>2. [pair |-> pair, whole |-> yes] \in BootFile
  BY <1>1 DEF BootFile
<1>3. Database(pair).whole = yes /\ Database(pair).pair = pair
  BY <1>1
<1>4. Database(pair) \in BootFile
  BY <1>1, <1>2
<1>5. NoFile \notin BootFile
  BY BootAssumption DEF BootFile
<1> QED BY <1>1, <1>3, <1>4, <1>5

\* One directory operation: the step that follows finds what it needs.
LEMMA DirectoryWritten ==
    ASSUME BootInv, NEW step, NEW next, NEW d \in Directory, Write(step, d, next), Opens(d), StepFinds'
    PROVE  BootInv'
<1>1. bdir' = d /\ bpending' = bpending \cup {bdir} /\ bserver' = [bserver EXCEPT !.pc = next]
  BY DEF Write, At
<1>2. bserver' = [pc |-> bserver'.pc] \/ bserver' = [pc |-> bserver'.pc, pair |-> bserver'.pair]
  BY <1>1 DEF BootInv
<1>3. \A x \in (bpending \cup {bdir})' : Opens(x)
  BY <1>1 DEF BootInv
<1>4. (\A x \in bpending \cup {bdir} : Opens(x))'
  BY <1>3 DEF Opens, Untouched, Published, Exists, Startable, Recoverable, recoverable_fresh_bootstrap,
              inspect_storage, validate_pair
<1> QED BY <1>1, <1>2, <1>4 DEF BootInv

\* The temporaries go; there is nothing else.
LEMMA RemoveStep ==
    ASSUME BootInv, RemoveTemporaries
    PROVE  BootInv'
<1> DEFINE d == [bdir EXCEPT !["control.migrating"] = NoFile, !["projections.migrating"] = NoFile]
<1>1. Write("remove_temporaries", d, "pair_id") /\ bserver.pc = "remove_temporaries" /\ ~Published(bdir)
  BY DEF RemoveTemporaries, Write, BootInv, StepFinds
<1>2. /\ d \in Directory /\ ~Published(d)
      /\ ~Exists(d, "control.migrating") /\ ~Exists(d, "projections.migrating")
  BY <1>1 DEF BootInv, Directory, Paths, Published, Exists
<1>3. bdir' = d /\ bserver'.pc = "pair_id"
  BY <1>1 DEF Write, At, BootInv
<1> HIDE DEF d
<1>4. StepFinds'
  BY <1>2, <1>3 DEF StepFinds, Published, Exists
<1> QED BY <1>1, <1>2, <1>4, DirectoryWritten DEF Opens

\* A file of the new pair appears, and then it is whole: nothing is published yet.
LEMMA FileWritten ==
    ASSUME BootInv, ~Published(bdir), bserver = [pc |-> bserver.pc, pair |-> bserver.pair],
           NEW path \in {"control.migrating", "projections.migrating"}, NEW file \in BootFile,
           NEW step, NEW next, Write(step, [bdir EXCEPT ![path] = file], next)
    PROVE  /\ bdir' \in Directory /\ ~Published(bdir') /\ bdir'[path] = file
           /\ \A q \in Paths : q # path => bdir'[q] = bdir[q]
           /\ bserver' = [pc |-> next, pair |-> bserver.pair]
           /\ StepFinds' => BootInv'
<1> DEFINE d == [bdir EXCEPT ![path] = file]
<1>1. d \in Directory /\ d[path] = file /\ \A q \in Paths : q # path => d[q] = bdir[q]
  BY DEF BootInv, Directory, Paths
<1>2. Write(step, d, next)
  OBVIOUS
<1> HIDE DEF d
<1>3. ~Published(d)
  BY <1>1 DEF Published, Exists, Paths
<1>4. bdir' = d /\ bserver' = [bserver EXCEPT !.pc = next]
  BY <1>2 DEF Write, At
<1>5. bserver' = [pc |-> next, pair |-> bserver.pair]
  BY <1>4
<1>6. StepFinds' => BootInv'
  BY <1>1, <1>2, <1>3, DirectoryWritten DEF Opens
<1> QED BY <1>1, <1>3, <1>4, <1>5, <1>6

\* A database that was started is not whole and is a file.
LEMMA HalfIsFile ==
    ASSUME NEW pair \in PairIds
    PROVE  [pair |-> pair, whole |-> FALSE] \in BootFile
<1> DEFINE no == FALSE
<1>1. no \in BOOLEAN
  OBVIOUS
<1> HIDE DEF no
<1>2. [pair |-> pair, whole |-> no] \in BootFile
  BY <1>1 DEF BootFile
<1> QED BY <1>2 DEF no

\* The control database of a new pair.
LEMMA CreateControl ==
    ASSUME BootInv, create_database("create_control", "control.migrating", "create_projections")
    PROVE  BootInv'
<1> DEFINE pair == bserver.pair
           half == [pair |-> pair, whole |-> FALSE]
<1>1. bserver.pc = "create_control"
  BY DEF create_database, Write
<1>2. /\ ~Published(bdir) /\ ~Exists(bdir, "projections.migrating") /\ bserver.pair \in PairIds
      /\ bserver = [pc |-> bserver.pc, pair |-> bserver.pair]
  BY <1>1 DEF BootInv, StepFinds
<1>3. Database(pair) \in BootFile /\ half \in BootFile
  BY <1>2, DatabaseIsFile, HalfIsFile
<1> HIDE DEF half
<1>4. CASE Write("create_control", [bdir EXCEPT !["control.migrating"] = half], "create_control")
  <2>1. /\ ~Published(bdir') /\ bserver' = [pc |-> "create_control", pair |-> bserver.pair]
        /\ bdir'["projections.migrating"] = bdir["projections.migrating"] /\ (StepFinds' => BootInv')
    BY <1>2, <1>3, <1>4, FileWritten DEF Paths
  <2>2. bserver'.pc = "create_control" /\ bserver'.pair = bserver.pair
    BY <2>1
  <2>3. StepFinds'
    BY <1>2, <2>1, <2>2 DEF StepFinds, Exists, Published
  <2> QED BY <2>1, <2>3
<1>5. CASE Write("create_control", [bdir EXCEPT !["control.migrating"] = Database(pair)], "create_projections")
  <2>1. /\ ~Published(bdir') /\ bserver' = [pc |-> "create_projections", pair |-> bserver.pair]
        /\ bdir'["control.migrating"] = Database(pair) /\ (StepFinds' => BootInv')
    BY <1>2, <1>3, <1>5, FileWritten
  <2>2. bserver'.pc = "create_projections" /\ bserver'.pair = bserver.pair
    BY <2>1
  <2>3. StepFinds'
    BY <1>2, <2>1, <2>2 DEF StepFinds, Exists, Published
  <2> QED BY <2>1, <2>3
<1> QED BY <1>4, <1>5 DEF create_database, half

\* Its projections.
LEMMA CreateProjections ==
    ASSUME BootInv, create_database("create_projections", "projections.migrating", "rename_projections")
    PROVE  BootInv'
<1> DEFINE pair == bserver.pair
           half == [pair |-> pair, whole |-> FALSE]
<1>1. bserver.pc = "create_projections"
  BY DEF create_database, Write
<1>2. /\ ~Published(bdir) /\ bdir["control.migrating"] = Database(pair) /\ bserver.pair \in PairIds
      /\ bserver = [pc |-> bserver.pc, pair |-> bserver.pair]
  BY <1>1 DEF BootInv, StepFinds
<1>3. Database(pair) \in BootFile /\ half \in BootFile
  BY <1>2, DatabaseIsFile, HalfIsFile
<1> HIDE DEF half
<1>4. CASE Write("create_projections", [bdir EXCEPT !["projections.migrating"] = half], "create_projections")
  <2>1. /\ ~Published(bdir') /\ bserver' = [pc |-> "create_projections", pair |-> bserver.pair]
        /\ bdir'["control.migrating"] = bdir["control.migrating"] /\ (StepFinds' => BootInv')
    BY <1>2, <1>3, <1>4, FileWritten DEF Paths
  <2>2. bserver'.pc = "create_projections" /\ bserver'.pair = bserver.pair
    BY <2>1
  <2>3. StepFinds'
    BY <1>2, <2>1, <2>2 DEF StepFinds, Exists, Published
  <2> QED BY <2>1, <2>3
<1>5. CASE Write("create_projections", [bdir EXCEPT !["projections.migrating"] = Database(pair)], "rename_projections")
  <2>1. /\ ~Published(bdir') /\ bserver' = [pc |-> "rename_projections", pair |-> bserver.pair]
        /\ bdir'["control.migrating"] = bdir["control.migrating"]
        /\ bdir'["projections.migrating"] = Database(pair) /\ (StepFinds' => BootInv')
    BY <1>2, <1>3, <1>5, FileWritten DEF Paths
  <2>2. bserver'.pc = "rename_projections" /\ bserver'.pair = bserver.pair
    BY <2>1
  <2>3. StepFinds'
    BY <1>2, <2>1, <2>2 DEF StepFinds, Exists, Published
  <2> QED BY <2>1, <2>3
<1> QED BY <1>4, <1>5 DEF create_database, half

\* The projections get their name: the pair is half named.
LEMMA RenameProjections ==
    ASSUME BootInv, Write("rename_projections", Renamed("projections.migrating", "projections"), "sync_projections")
    PROVE  BootInv'
<1> DEFINE d == Renamed("projections.migrating", "projections")
           base == Database(bserver.pair)
<1>1. bserver.pc = "rename_projections" /\ bdir' = d /\ bserver' = [bserver EXCEPT !.pc = "sync_projections"]
  BY DEF Write, At
<1>2. /\ ~Published(bdir) /\ bserver.pair \in PairIds
      /\ bdir["control.migrating"] = base /\ bdir["projections.migrating"] = base
  BY <1>1 DEF BootInv, StepFinds
<1>3. base # NoFile /\ base.whole
  BY <1>2, DatabaseIsFile
<1>4. /\ d \in Directory /\ d["projections"] = bdir["projections.migrating"] /\ d["projections.migrating"] = NoFile
      /\ d["control"] = bdir["control"] /\ d["control.migrating"] = bdir["control.migrating"]
  BY DEF BootInv, Directory, Paths, Renamed
<1> HIDE DEF d, base
<1>5. HalfNamed(d)
  BY <1>2, <1>3, <1>4 DEF HalfNamed, Exists, Published, validate_pair
<1>6. bserver'.pc = "sync_projections"
  BY <1>1 DEF BootInv
<1>7. StepFinds'
  BY <1>1, <1>5, <1>6 DEF StepFinds, HalfNamed, Exists, validate_pair
<1> QED BY <1>4, <1>5, <1>7, PairsOpen, DirectoryWritten DEF Opens, d

\* The control database gets its name: the pair is finished.
LEMMA RenameControl ==
    ASSUME BootInv, Write("rename_control", Renamed("control.migrating", "control"), "sync_control")
    PROVE  BootInv'
<1> DEFINE d == Renamed("control.migrating", "control")
<1>1. bserver.pc = "rename_control" /\ bdir' = d /\ bserver' = [bserver EXCEPT !.pc = "sync_control"]
  BY DEF Write, At
<1>2. HalfNamed(bdir)
  BY <1>1 DEF BootInv, StepFinds
<1>4. /\ d \in Directory /\ d["control"] = bdir["control.migrating"] /\ d["control.migrating"] = NoFile
      /\ d["projections"] = bdir["projections"] /\ d["projections.migrating"] = bdir["projections.migrating"]
  BY DEF BootInv, Directory, Paths, Renamed
<1> HIDE DEF d
<1>5. Finished(d)
  BY <1>2, <1>4 DEF HalfNamed, Finished, Exists
<1>6. bserver'.pc = "sync_control"
  BY <1>1 DEF BootInv
<1>7. StepFinds'
  BY <1>1, <1>5, <1>6 DEF StepFinds, Finished, Exists, validate_pair
<1> QED BY <1>4, <1>5, <1>7, PairsOpen, DirectoryWritten DEF Opens, d

\* A step that leaves the directory alone: the directory still opens.
LEMMA SameDirectory ==
    ASSUME BootInv, bdir' = bdir, bpending' \in {bpending, {}}, StepFinds',
           bserver' = [pc |-> bserver'.pc] \/ bserver' = [pc |-> bserver'.pc, pair |-> bserver'.pair]
    PROVE  BootInv'
<1>1. \A x \in bpending' \cup {bdir'} : Opens(x)
  BY DEF BootInv
<1>2. (\A x \in bpending \cup {bdir} : Opens(x))'
  BY <1>1 DEF Opens, Untouched, Published, Exists, Startable, Recoverable, recoverable_fresh_bootstrap,
              inspect_storage, validate_pair
<1>3. bdir' \in Directory /\ bpending' \subseteq Directory
  BY DEF BootInv
<1> QED BY <1>2, <1>3 DEF BootInv

\* Startup looks at the directory, or refuses it.
LEMMA PrepareStep ==
    ASSUME BootInv, prepare
    PROVE  BootInv'
<1>1. UNCHANGED <<bdir, bpending>> /\ Startable(bdir) /\ bserver' = [pc |-> bserver'.pc]
  BY DEF prepare
<1>2. /\ inspect_storage(bdir) = "Fresh" => bserver'.pc = "remove_temporaries"
      /\ inspect_storage(bdir) = "ReadyV2" => bserver'.pc = "validate"
      /\ inspect_storage(bdir) # "Fresh" /\ inspect_storage(bdir) # "ReadyV2" => bserver'.pc = "rename_control"
  BY DEF prepare
<1>3. CASE inspect_storage(bdir) = "Fresh"
  <2>1. ~Published(bdir)
    BY <1>3 DEF inspect_storage, Published
  <2>2. StepFinds'
    BY <1>1, <1>2, <1>3, <2>1 DEF StepFinds, Published, Exists
  <2> QED BY <1>1, <2>2, SameDirectory
<1>4. CASE inspect_storage(bdir) = "ReadyV2"
  <2>1. Finished(bdir)
    BY <1>4 DEF inspect_storage, Finished, Exists
  <2>2. StepFinds'
    BY <1>1, <1>2, <1>4, <2>1 DEF StepFinds, Finished, Exists, validate_pair
  <2> QED BY <1>1, <2>2, SameDirectory
<1>5. CASE inspect_storage(bdir) # "Fresh" /\ inspect_storage(bdir) # "ReadyV2"
  <2>1. HalfNamed(bdir)
    BY <1>1, <1>5 DEF Startable, Recoverable, recoverable_fresh_bootstrap, HalfNamed
  <2>2. StepFinds'
    BY <1>1, <1>2, <1>5, <2>1 DEF StepFinds, HalfNamed, Exists, validate_pair
  <2> QED BY <1>1, <2>2, SameDirectory
<1> QED BY <1>3, <1>4, <1>5

\* A fresh directory has no pair yet, and gets one.
LEMMA NewPairStep ==
    ASSUME BootInv, NEW id \in PairIds, NewPair(id)
    PROVE  BootInv'
<1>1. UNCHANGED <<bdir, bpending>> /\ bserver.pc = "pair_id" /\ bserver' = [pc |-> "create_control", pair |-> id]
  BY DEF NewPair
<1>2. bserver'.pc = "create_control" /\ bserver'.pair = id
  BY <1>1
<1>3. ~Published(bdir) /\ ~Exists(bdir, "projections.migrating")
  BY <1>1 DEF BootInv, StepFinds
<1>4. StepFinds'
  BY <1>1, <1>2, <1>3 DEF StepFinds, Published, Exists
<1> QED BY <1>1, <1>2, <1>4, SameDirectory

\* A sync, and the last validation.
LEMMA SyncAndServe ==
    ASSUME BootInv, sync_parent \/ install_runtime_pragmas
    PROVE  BootInv'
<1> DEFINE next == bserver'.pc
<1>1. bdir' = bdir /\ bpending' \in {bpending, {}}
  BY DEF sync_parent, install_runtime_pragmas
<1>2. \/ bserver.pc = "sync_projections" /\ bserver' = [bserver EXCEPT !.pc = "rename_control"]
      \/ bserver.pc = "sync_control" /\ bserver' = [bserver EXCEPT !.pc = "validate"]
      \/ bserver.pc = "validate" /\ bserver' = [bserver EXCEPT !.pc = "serving"]
  BY DEF sync_parent, install_runtime_pragmas, At
<1>3. bserver' = [pc |-> next] \/ bserver' = [pc |-> next, pair |-> bserver'.pair]
  BY <1>2 DEF BootInv
<1>4. \/ bserver.pc = "sync_projections" /\ next = "rename_control"
      \/ bserver.pc = "sync_control" /\ next = "validate"
      \/ bserver.pc = "validate" /\ next = "serving"
  BY <1>2 DEF BootInv
<1>5. (next = "rename_control" /\ HalfNamed(bdir)) \/ (next \in {"validate", "serving"} /\ Finished(bdir))
  BY <1>4 DEF BootInv, StepFinds
<1>6. StepFinds'
  BY <1>1, <1>5 DEF StepFinds, HalfNamed, Finished, Exists, validate_pair
<1> QED BY <1>1, <1>3, <1>6, SameDirectory

\* A server that is down asks nothing of the directory.
LEMMA DownFindsNothing ==
    ASSUME bserver' = Down
    PROVE  StepFinds' /\ bserver' = [pc |-> bserver'.pc]
<1>1. bserver'.pc = "down" /\ bserver' = [pc |-> bserver'.pc]
  BY DEF Down
<1> QED BY <1>1 DEF StepFinds

\* Kills, power losses, and a database of somewhere else.
LEMMA FaultStep ==
    ASSUME BootInv, \/ Kill \/ PowerLoss
                    \/ \E path \in {"control", "projections"} : RestoreOne(path)
    PROVE  BootInv'
<1>1. CASE Kill
  BY <1>1, DownFindsNothing, SameDirectory DEF Kill
<1>2. CASE PowerLoss
  <2>1. bdir' \in bpending /\ bpending' = {} /\ bserver' = Down
    BY <1>2 DEF PowerLoss
  <2>2. bdir' \in Directory /\ Opens(bdir')
    BY <2>1 DEF BootInv
  <2>3. (\A x \in bpending \cup {bdir} : Opens(x))'
    BY <2>1, <2>2 DEF Opens, Untouched, Published, Exists, Startable, Recoverable, recoverable_fresh_bootstrap,
                inspect_storage, validate_pair
  <2> QED BY <2>1, <2>2, <2>3, DownFindsNothing DEF BootInv
<1>3. ASSUME NEW path \in {"control", "projections"}, RestoreOne(path) PROVE BootInv'
  <2> DEFINE file == Database(Foreign)
             d == [bdir EXCEPT ![path] = file]
  <2>1. bdir' = d /\ bpending = {} /\ bpending' = {} /\ bserver' = Down
    BY <1>3 DEF RestoreOne
  <2>2. file \in BootFile /\ file # NoFile /\ file.pair = Foreign
    BY DatabaseIsFile
  <2> HIDE DEF file
  <2>3. d \in Directory /\ d[path] = file /\ path \in DOMAIN d
    BY <2>2 DEF BootInv, Directory, Paths
  <2> HIDE DEF d
  <2>4. ~Untouched(d)
    BY <2>2, <2>3 DEF Untouched, Exists
  <2>5. (\A x \in bpending \cup {bdir} : Opens(x))'
    BY <2>1, <2>4 DEF Opens, Untouched, Exists
  <2> QED BY <2>1, <2>3, <2>5, DownFindsNothing DEF BootInv
<1> QED BY <1>1, <1>2, <1>3

\* What every directory and every step of the server keeps.
THEOREM BootInvAlways == BootSpec => []BootInv
<1>1. BootInit => BootInv
  <2> SUFFICES ASSUME BootInit PROVE BootInv
    OBVIOUS
  <2>1. bdir \in Directory /\ bpending = {} /\ ~Published(bdir)
    BY DEF BootInit, Directory, Paths, Published, Exists
  <2>2. bserver.pc = "down" /\ bserver = [pc |-> bserver.pc]
    BY DEF BootInit, Down
  <2>3. StepFinds
    BY <2>2 DEF StepFinds
  <2> QED BY <2>1, <2>2, <2>3 DEF BootInv, Opens
<1>2. BootInv /\ [BootNext]_bootVars => BootInv'
  <2> SUFFICES ASSUME BootInv, [BootNext]_bootVars PROVE BootInv'
    OBVIOUS
  <2>1. CASE prepare BY <2>1, PrepareStep
  <2>2. CASE PrepareRefuses \/ UNCHANGED bootVars
    <3>1. UNCHANGED <<bdir, bpending, bserver>>
      BY <2>2 DEF PrepareRefuses, bootVars
    <3>2. StepFinds'
      BY <3>1 DEF BootInv, StepFinds, Published, Finished, HalfNamed, Exists, validate_pair, Database
    <3> QED BY <3>1, <3>2, SameDirectory DEF BootInv
  <2>3. CASE RemoveTemporaries BY <2>3, RemoveStep
  <2>4. CASE create_pair
    BY <2>4, CreateControl, CreateProjections, RenameProjections, RenameControl DEF create_pair
  <2>5. CASE sync_parent \/ install_runtime_pragmas BY <2>5, SyncAndServe
  <2>6. CASE Kill \/ PowerLoss \/ \E path \in {"control", "projections"} : RestoreOne(path)
    BY <2>6, FaultStep
  <2>7. CASE \E id \in PairIds : NewPair(id) BY <2>7, NewPairStep
  <2> QED BY <2>1, <2>2, <2>3, <2>4, <2>5, <2>6, <2>7 DEF BootNext
<1> QED BY <1>1, <1>2, PTL DEF BootSpec

\* Whatever is cut short, loses power or is restored, for any pair ids: a server
\* serves one whole pair, and a directory with a published database starts
\* (storage_bootstrap.rs).
THEOREM BootHoldsAlways == BootSpec => []BootHolds
<1>1. BootInv => BootHolds
  <2> SUFFICES ASSUME BootInv PROVE BootHolds
    OBVIOUS
  <2>1. ServesOnePair
    BY DEF BootInv, StepFinds, ServesOnePair, Finished, Has, validate_pair
  <2>2. PublishedPairOpens
    BY DEF BootInv, PublishedPairOpens, Outcomes, Opens, Published
  <2> QED BY <2>1, <2>2 DEF BootHolds
<1> QED BY <1>1, BootInvAlways, PTL

-----------------------------------------------------------------------------
(* Experience continuity, of visitors who are anonymous first.              *)

\* What is on the way, in order: events older than the clock, and the login last.
OnTheWay(s, n) ==
    /\ s \in Seq([kind : {"event", "identify"}, ts : Nat])
    /\ \A k \in 1..Len(s) : IF s[k].kind = "event" THEN s[k].ts < n ELSE k = Len(s) /\ s[k].ts = n

\* The visitor's person is the anonymous one, made before the login.
AnonPerson(p, n) == p = [key |-> "anon", created |-> p.created] /\ p.created \in Nat /\ p.created < n

ContinuityInv ==
    /\ client = [login |-> client.login, time |-> client.time, sent |-> client.sent]
    /\ client.login \in BOOLEAN /\ client.time \in Nat
    /\ pstore \in [{"anon", "user"} -> {pstore["anon"], pstore["user"]}]
    /\ OnTheWay(client.sent, client.time)
    /\ pstore["anon"] = NoPerson \/ AnonPerson(pstore["anon"], client.time)
    /\ IF client.login /\ client.sent = <<>>
       THEN pstore["user"] = pstore["anon"] /\ pstore["anon"] # NoPerson
       ELSE /\ pstore["user"] = NoPerson
            /\ client.login <=> \E k \in 1..Len(client.sent) : client.sent[k].kind = "identify"
            /\ pstore["anon"] = NoPerson => \/ ~client.login /\ client.time = 0
                                            \/ client.sent # <<>> /\ client.sent[1].kind = "event"

\* A person is somebody.
LEMMA AnonIsSomebody ==
    ASSUME NEW p, NEW n, AnonPerson(p, n)
    PROVE  p # NoPerson /\ p.key = "anon"
<1>1. p \in [key : {"anon", "user"}, created : Nat] /\ p.key = "anon"
  BY DEF AnonPerson
<1> QED BY <1>1, PersonAssumption

\* An event goes on its way.
LEMMA SentInOrder ==
    ASSUME NEW s, NEW n \in Nat, OnTheWay(s, n), \A k \in 1..Len(s) : s[k].kind = "event"
    PROVE  /\ OnTheWay(Append(s, [kind |-> "event", ts |-> n]), n + 1)
           /\ OnTheWay(Append(s, [kind |-> "identify", ts |-> n]), n)
<1> DEFINE row == [kind : {"event", "identify"}, ts : Nat]
<1>1. ASSUME NEW e \in row
      PROVE  /\ Append(s, e) \in Seq(row) /\ Len(Append(s, e)) = Len(s) + 1 /\ Len(s) \in Nat
             /\ \A k \in 1..Len(s) : Append(s, e)[k] = s[k] /\ s[k] \in row
             /\ Append(s, e)[Len(s) + 1] = e
  <2>1. s \in Seq(row)
    BY DEF OnTheWay
  <2> HIDE DEF row
  <2> QED BY <1>1, <2>1
<1>2. [kind |-> "event", ts |-> n] \in row /\ [kind |-> "identify", ts |-> n] \in row
  OBVIOUS
<1>3. OnTheWay(Append(s, [kind |-> "event", ts |-> n]), n + 1)
  <2> DEFINE e == [kind |-> "event", ts |-> n]
             t == Append(s, e)
  <2>1. /\ t \in Seq(row) /\ Len(t) = Len(s) + 1 /\ Len(s) \in Nat
        /\ \A k \in 1..Len(s) : t[k] = s[k] /\ s[k] \in row
        /\ t[Len(s) + 1] = e
    BY <1>1, <1>2
  <2>2. e.kind = "event" /\ e.ts = n
    OBVIOUS
  <2> HIDE DEF t, e
  <2>3. ASSUME NEW k \in 1..Len(t) PROVE t[k].kind = "event" /\ t[k].ts < n + 1
    <3>1. CASE k \in 1..Len(s)
      <4>1. t[k] = s[k] /\ s[k].ts \in Nat /\ s[k].kind = "event" /\ s[k].ts < n
        BY <2>1, <3>1 DEF OnTheWay
      <4> QED BY <4>1
    <3>2. CASE k = Len(s) + 1
      BY <2>1, <2>2, <3>2
    <3> QED BY <2>1, <3>1, <3>2
  <2> QED BY <2>1, <2>3 DEF OnTheWay, t, e
<1>4. OnTheWay(Append(s, [kind |-> "identify", ts |-> n]), n)
  <2> DEFINE e == [kind |-> "identify", ts |-> n]
             t == Append(s, e)
  <2>1. /\ t \in Seq(row) /\ Len(t) = Len(s) + 1 /\ Len(s) \in Nat
        /\ \A k \in 1..Len(s) : t[k] = s[k] /\ s[k] \in row
        /\ t[Len(s) + 1] = e
    BY <1>1, <1>2
  <2>2. e.kind = "identify" /\ e.ts = n
    OBVIOUS
  <2> HIDE DEF t, e
  <2>3. ASSUME NEW k \in 1..Len(t)
        PROVE  IF t[k].kind = "event" THEN t[k].ts < n ELSE k = Len(t) /\ t[k].ts = n
    <3>1. CASE k \in 1..Len(s)
      BY <2>1, <3>1 DEF OnTheWay
    <3>2. CASE k = Len(s) + 1
      BY <2>1, <2>2, <3>2
    <3> QED BY <2>1, <3>1, <3>2
  <2> QED BY <2>1, <2>3 DEF OnTheWay, t, e
<1> QED BY <1>3, <1>4

\* The visitor browses.
LEMMA BrowseStep ==
    ASSUME ContinuityInv, CaptureAnonymous
    PROVE  ContinuityInv'
<1> DEFINE s == client.sent
           n == client.time
           e == [kind |-> "event", ts |-> n]
           t == Append(s, e)
<1>1. /\ ~client.login /\ pstore' = pstore
      /\ client' = [client EXCEPT !.time = n + 1, !.sent = t]
  BY DEF CaptureAnonymous
<1>2. n \in Nat /\ OnTheWay(s, n) /\ \A k \in 1..Len(s) : s[k].kind = "event"
  <2>1. n \in Nat /\ OnTheWay(s, n) /\ \A k \in 1..Len(s) : s[k].kind # "identify"
    BY <1>1 DEF ContinuityInv
  <2> HIDE DEF s, n
  <2> DEFINE row == [kind : {"event", "identify"}, ts : Nat]
  <2>2. s \in Seq(row)
    BY <2>1 DEF OnTheWay
  <2> HIDE DEF row
  <2>3. \A k \in 1..Len(s) : s[k] \in row
    BY <2>2
  <2> QED BY <2>1, <2>3 DEF row
<1>3. OnTheWay(t, n + 1) /\ Len(t) = Len(s) + 1 /\ Len(s) \in Nat
      /\ t[1].kind = "event" /\ \A k \in 1..Len(t) : t[k].kind = "event"
  <2>1. OnTheWay(t, n + 1)
    <3> HIDE DEF s, n
    <3> QED BY <1>2, SentInOrder
  <2>2. s \in Seq([kind : {"event", "identify"}, ts : Nat]) /\ e.kind = "event"
    BY <1>2 DEF OnTheWay
  <2> HIDE DEF s, n, e
  <2>3. /\ Len(t) = Len(s) + 1 /\ Len(s) \in Nat
        /\ \A k \in 1..Len(s) : t[k] = s[k]
        /\ t[Len(s) + 1] = e
    BY <2>2
  <2> HIDE DEF t
  <2>4. ASSUME NEW k \in 1..Len(t) PROVE t[k].kind = "event"
    <3>1. k \in 1..Len(s) \/ k = Len(s) + 1
      BY <2>3
    <3> QED BY <1>2, <2>2, <2>3, <3>1
  <2>5. 1 \in 1..Len(t)
    BY <2>3
  <2> QED BY <2>1, <2>3, <2>4, <2>5 DEF t, e, n
<1>4. client' = [login |-> client.login, time |-> n + 1, sent |-> t]
  <2> DEFINE m == n + 1
             w == [client EXCEPT !.time = m]
  <2> HIDE DEF t, m
  <2>1. w = [login |-> client.login, time |-> m, sent |-> client.sent]
    BY DEF ContinuityInv
  <2>2. client' = [w EXCEPT !.sent = t]
    BY <1>1 DEF m
  <2> HIDE DEF w
  <2>3. client' = [login |-> client.login, time |-> m, sent |-> t]
    BY <2>1, <2>2
  <2> QED BY <2>3 DEF m
<1>5. t # <<>>
  <2> HIDE DEF t, s
  <2> QED BY <1>3
<1>6. client'.login = client.login /\ client'.time = n + 1 /\ client'.sent = t /\ n + 1 \in Nat
  BY <1>2, <1>4
<1>7. pstore'["anon"] = NoPerson \/ AnonPerson(pstore'["anon"], n + 1)
  BY <1>1, <1>2 DEF ContinuityInv, AnonPerson
<1> HIDE DEF t, s, n
<1>8. pstore["user"] = NoPerson
  BY <1>1 DEF ContinuityInv
<1> QED BY <1>1, <1>3, <1>4, <1>5, <1>6, <1>7, <1>8 DEF ContinuityInv

\* The visitor logs in.
LEMMA LogInStep ==
    ASSUME AnonymousFirst, ContinuityInv, LogIn
    PROVE  ContinuityInv'
<1> DEFINE s == client.sent
           n == client.time
           e == [kind |-> "identify", ts |-> n]
           t == Append(s, e)
           yes == TRUE
<1>1. /\ ~client.login /\ pstore' = pstore /\ n > 0
      /\ client' = [client EXCEPT !.login = yes, !.sent = t]
  BY DEF LogIn
<1>2. n \in Nat /\ OnTheWay(s, n) /\ \A k \in 1..Len(s) : s[k].kind = "event"
  <2>1. n \in Nat /\ OnTheWay(s, n) /\ \A k \in 1..Len(s) : s[k].kind # "identify"
    BY <1>1 DEF ContinuityInv
  <2> HIDE DEF s, n
  <2> DEFINE row == [kind : {"event", "identify"}, ts : Nat]
  <2>2. s \in Seq(row)
    BY <2>1 DEF OnTheWay
  <2> HIDE DEF row
  <2>3. \A k \in 1..Len(s) : s[k] \in row
    BY <2>2
  <2> QED BY <2>1, <2>3 DEF row
<1>3. /\ OnTheWay(t, n) /\ Len(t) = Len(s) + 1 /\ Len(s) \in Nat
      /\ t[Len(t)].kind = "identify" /\ \A k \in 1..Len(s) : t[k] = s[k]
  <2>1. OnTheWay(t, n)
    <3> HIDE DEF s, n
    <3> QED BY <1>2, SentInOrder
  <2>2. s \in Seq([kind : {"event", "identify"}, ts : Nat]) /\ e.kind = "identify"
    BY <1>2 DEF OnTheWay
  <2> HIDE DEF s, n, e
  <2>3. /\ Len(t) = Len(s) + 1 /\ Len(s) \in Nat
        /\ \A k \in 1..Len(s) : t[k] = s[k]
        /\ t[Len(s) + 1] = e
    BY <2>2
  <2> QED BY <2>1, <2>2, <2>3 DEF e, n
<1>4. client' = [login |-> yes, time |-> n, sent |-> t] /\ yes /\ yes \in BOOLEAN
  <2> DEFINE w == [client EXCEPT !.login = yes]
  <2>0. yes /\ yes \in BOOLEAN
    OBVIOUS
  <2> HIDE DEF t, yes
  <2>1. w = [login |-> yes, time |-> n, sent |-> client.sent]
    BY DEF ContinuityInv
  <2>2. client' = [w EXCEPT !.sent = t]
    BY <1>1
  <2> HIDE DEF w
  <2> QED BY <2>0, <2>1, <2>2
<1>5. t # <<>> /\ Len(t) \in 1..Len(t)
  <2> HIDE DEF t, s
  <2> QED BY <1>3
<1> HIDE DEF yes
<1>6. client'.login = yes /\ client'.time = n /\ client'.sent = t
  BY <1>4
<1>7. pstore["anon"] = NoPerson => t[1].kind = "event"
  <2> SUFFICES ASSUME pstore["anon"] = NoPerson PROVE t[1].kind = "event"
    OBVIOUS
  <2>1. s # <<>> /\ s[1].kind = "event" /\ s \in Seq([kind : {"event", "identify"}, ts : Nat])
    BY <1>1, <1>2 DEF ContinuityInv, OnTheWay
  <2> HIDE DEF s, t
  <2>2. 1 \in 1..Len(s)
    BY <2>1
  <2> QED BY <1>3, <2>1, <2>2
<1> HIDE DEF t, s, n
<1>8. pstore'["anon"] = NoPerson \/ AnonPerson(pstore'["anon"], n)
  BY <1>1 DEF ContinuityInv, n
<1>9. pstore["user"] = NoPerson
  BY <1>1 DEF ContinuityInv
<1> QED BY <1>1, <1>2, <1>3, <1>4, <1>5, <1>6, <1>7, <1>8, <1>9 DEF ContinuityInv

\* The next event is published; the login makes one person of two.
LEMMA PublishStep ==
    ASSUME ContinuityInv, PublishEvent
    PROVE  ContinuityInv'
<1> DEFINE row == [kind : {"event", "identify"}, ts : Nat]
           s == client.sent
           n == client.time
           e == Head(s)
           t == Tail(s)
<1>1. s # <<>> /\ s \in Seq(row) /\ n \in Nat /\ client.login \in BOOLEAN
  BY DEF PublishEvent, ContinuityInv, OnTheWay
<1>2. client' = [client EXCEPT !.sent = t]
  BY DEF PublishEvent
<1>3. client' = [login |-> client.login, time |-> n, sent |-> t]
  BY <1>2 DEF ContinuityInv
<1>4. client'.login = client.login /\ client'.time = n /\ client'.sent = t
  BY <1>3
<1>5. /\ t \in Seq(row) /\ Len(t) = Len(s) - 1 /\ Len(s) \in Nat \ {0} /\ e = s[1] /\ e \in row
      /\ \A k \in 1..Len(t) : t[k] = s[k + 1] /\ k + 1 \in 1..Len(s)
  <2> HIDE DEF row, s
  <2> QED BY <1>1
<1>6. IF e.kind = "event" THEN e.ts < n ELSE Len(s) = 1 /\ e.ts = n
  <2>1. 1 \in 1..Len(s) /\ OnTheWay(s, n)
    BY <1>5 DEF ContinuityInv
  <2>2. IF s[1].kind = "event" THEN s[1].ts < n ELSE 1 = Len(s) /\ s[1].ts = n
    BY <2>1 DEF OnTheWay
  <2> HIDE DEF s, n
  <2> QED BY <1>5, <2>2
<1>7. OnTheWay(t, n)
  <2>1. OnTheWay(s, n)
    BY DEF ContinuityInv
  <2> HIDE DEF s, n, t
  <2>2. ASSUME NEW k \in 1..Len(t)
        PROVE  IF t[k].kind = "event" THEN t[k].ts < n ELSE k = Len(t) /\ t[k].ts = n
    <3>1. t[k] = s[k + 1] /\ k + 1 \in 1..Len(s)
      BY <1>5
    <3>2. IF s[k + 1].kind = "event" THEN s[k + 1].ts < n ELSE k + 1 = Len(s) /\ s[k + 1].ts = n
      BY <2>1, <3>1 DEF OnTheWay
    <3> QED BY <1>5, <3>1, <3>2
  <2> QED BY <1>5, <2>2 DEF OnTheWay
<1>8. /\ pstore["user"] = NoPerson
      /\ (client.login <=> \E k \in 1..Len(s) : s[k].kind = "identify")
      /\ (pstore["anon"] = NoPerson => (~client.login /\ n = 0) \/ s[1].kind = "event")
  BY <1>1 DEF ContinuityInv
<1>9. pstore["anon"] = NoPerson \/ AnonPerson(pstore["anon"], n)
  BY DEF ContinuityInv
<1>10. pstore' = IF e.kind = "event" THEN [pstore EXCEPT !["anon"] = ensure_person("anon", e.ts)]
                 ELSE [id \in {"anon", "user"} |-> merge_persons(ensure_person("user", e.ts), ensure_person("anon", e.ts))]
  BY DEF PublishEvent
<1>11. e.ts \in Nat /\ e.kind \in {"event", "identify"}
  BY <1>5
<1> HIDE DEF s, n, e, t
<1>12. CASE e.kind = "event"
  <2>1. /\ pstore'["anon"] = ensure_person("anon", e.ts) /\ pstore'["user"] = pstore["user"]
        /\ pstore' \in [{"anon", "user"} -> {pstore'["anon"], pstore'["user"]}]
    BY <1>10, <1>12 DEF ContinuityInv
  <2>2. AnonPerson(pstore'["anon"], n)
    <3>1. CASE pstore["anon"] = NoPerson
      <4>1. pstore'["anon"] = [key |-> "anon", created |-> e.ts]
        BY <2>1, <3>1 DEF ensure_person
      <4> QED BY <1>6, <1>11, <1>12, <4>1 DEF AnonPerson
    <3>2. CASE pstore["anon"] # NoPerson
      BY <1>9, <2>1, <3>2 DEF ensure_person
    <3> QED BY <3>1, <3>2
  <2>3. pstore'["anon"] # NoPerson
    BY <2>2, AnonIsSomebody
  <2>4. client.login <=> \E k \in 1..Len(t) : t[k].kind = "identify"
    <3>1. ASSUME NEW k \in 1..Len(s), s[k].kind = "identify" PROVE \E j \in 1..Len(t) : t[j].kind = "identify"
      <4>1. k # 1
        BY <1>5, <1>12, <3>1
      <4>2. k - 1 \in 1..Len(t) /\ t[k - 1] = s[(k - 1) + 1] /\ (k - 1) + 1 = k
        BY <1>5, <4>1
      <4> QED BY <3>1, <4>2
    <3>2. ASSUME NEW k \in 1..Len(t), t[k].kind = "identify" PROVE \E j \in 1..Len(s) : s[j].kind = "identify"
      BY <1>5, <3>2
    <3> QED BY <1>1, <1>8, <3>1, <3>2
  <2>5. ~(client.login /\ t = <<>>)
    <3>1. t = <<>> => Len(t) = 0
      OBVIOUS
    <3>2. Len(t) = 0 => ~ \E k \in 1..Len(t) : TRUE
      OBVIOUS
    <3> QED BY <2>4, <3>1, <3>2
  <2> QED BY <1>1, <1>3, <1>4, <1>7, <1>8, <2>1, <2>2, <2>3, <2>4, <2>5 DEF ContinuityInv
<1>13. CASE e.kind = "identify"
  <2>1. Len(s) = 1 /\ e.ts = n /\ t = <<>>
    <3>1. Len(s) = 1 /\ e.ts = n
      BY <1>6, <1>13
    <3> QED BY <1>5, <3>1
  <2>2. AnonPerson(pstore["anon"], n) /\ pstore["anon"] # NoPerson /\ client.login
    <3>1. client.login
      BY <1>1, <1>5, <1>8, <1>13
    <3> QED BY <1>5, <1>8, <1>9, <1>13, <3>1
  <2>3. ensure_person("user", e.ts) = [key |-> "user", created |-> n] /\ ensure_person("anon", e.ts) = pstore["anon"]
    BY <1>8, <2>1, <2>2 DEF ensure_person
  <2>4. merge_persons(ensure_person("user", e.ts), ensure_person("anon", e.ts)) = pstore["anon"]
    BY <2>2, <2>3 DEF merge_persons, AnonPerson
  <2>5. pstore' = [id \in {"anon", "user"} |-> pstore["anon"]]
    BY <1>10, <1>13, <2>4
  <2>6. /\ pstore'["anon"] = pstore["anon"] /\ pstore'["user"] = pstore["anon"]
        /\ pstore' \in [{"anon", "user"} -> {pstore'["anon"], pstore'["user"]}]
    BY <2>5
  <2> QED BY <1>1, <1>3, <1>4, <1>7, <2>1, <2>2, <2>6 DEF ContinuityInv
<1> QED BY <1>11, <1>12, <1>13

\* What every visitor's events and persons keep.
THEOREM ContinuityInvAlways ==
    ASSUME AnonymousFirst
    PROVE  ContinuitySpec => []ContinuityInv
<1> DEFINE Fresh == /\ client = [login |-> FALSE, time |-> 0, sent |-> <<>>]
                    /\ pstore = [id \in {"anon", "user"} |-> NoPerson]
<1>1. Fresh => ContinuityInv
  <2> SUFFICES ASSUME Fresh PROVE ContinuityInv
    OBVIOUS
  <2> DEFINE no == FALSE
             s == <<>>
  <2>1. client = [login |-> no, time |-> 0, sent |-> s] /\ ~no /\ no \in BOOLEAN
    OBVIOUS
  <2>2. Len(s) = 0 /\ s \in Seq([kind : {"event", "identify"}, ts : Nat])
    OBVIOUS
  <2>3. pstore["anon"] = NoPerson /\ pstore["user"] = NoPerson
        /\ pstore \in [{"anon", "user"} -> {pstore["anon"], pstore["user"]}]
    OBVIOUS
  <2> HIDE DEF no, s, Fresh
  <2>4. ~client.login /\ client.login \in BOOLEAN /\ client.time = 0 /\ client.sent = s
        /\ client = [login |-> client.login, time |-> client.time, sent |-> client.sent]
    BY <2>1
  <2>5. OnTheWay(client.sent, client.time)
    BY <2>2, <2>4 DEF OnTheWay
  <2>6. ~ \E k \in 1..Len(client.sent) : TRUE
    BY <2>2, <2>4
  <2> QED BY <2>3, <2>4, <2>5, <2>6 DEF ContinuityInv
<1>2. ContinuityInit => ContinuityInv
  BY <1>1 DEF ContinuityInit
<1>3. ContinuityInv /\ [ContinuityNext]_continuityVars => ContinuityInv'
  <2> SUFFICES ASSUME ContinuityInv, [ContinuityNext]_continuityVars PROVE ContinuityInv'
    OBVIOUS
  <2>1. CASE NextVisitor
    <3>1. Fresh'
      BY <2>1 DEF NextVisitor
    <3>2. Fresh' => ContinuityInv'
      BY <1>1, PTL
    <3> QED BY <3>1, <3>2
  <2>2. CASE CaptureAnonymous BY <2>2, BrowseStep
  <2>3. CASE LogIn BY <2>3, LogInStep
  <2>4. CASE PublishEvent BY <2>4, PublishStep
  <2>5. CASE UNCHANGED continuityVars
    BY <2>5 DEF continuityVars, ContinuityInv, OnTheWay, AnonPerson
  <2> QED BY <2>1, <2>2, <2>3, <2>4, <2>5 DEF ContinuityNext
<1> QED BY <1>2, <1>3, PTL DEF ContinuitySpec

\* For every visitor whose SDK captured an older event before it identifies: the
\* bucketing id of resolve_subject (flags/mod.rs) is the anonymous one before, during
\* and after the publication of the login, with the person store there or not.
THEOREM BucketSurvivesLoginAlways ==
    ASSUME AnonymousFirst
    PROVE  ContinuitySpec => []BucketSurvivesLogin
<1>1. ContinuityInv => BucketSurvivesLogin
  <2> SUFFICES ASSUME ContinuityInv, NEW failed \in BOOLEAN PROVE BucketingId(failed) = "anon"
    BY DEF BucketSurvivesLogin
  <2>1. pstore["anon"] = NoPerson \/ pstore["anon"].key = "anon"
    BY AnonIsSomebody DEF ContinuityInv
  <2>2. pstore["user"] = NoPerson \/ pstore["user"] = pstore["anon"]
    BY DEF ContinuityInv
  <2> DEFINE h == CHOOSE x \in {"anon"} : TRUE
  <2>3. h = "anon" /\ {"anon"} # {}
    OBVIOUS
  <2> HIDE DEF h
  <2>4. resolve_subject("user", {"anon"}, failed) = "anon"
    BY <2>1, <2>2, <2>3 DEF resolve_subject, h
  <2>5. resolve_subject("anon", {}, failed) = "anon"
    BY <2>1 DEF resolve_subject
  <2> QED BY <2>4, <2>5 DEF BucketingId
<1> QED BY <1>1, ContinuityInvAlways, PTL

-----------------------------------------------------------------------------
(* Flag evaluation.                                                         *)

VariantRow(K) == [key : K, rollout : 0..Scale]

\* A product grows with its first factor.
LEMMA ProductGrows ==
    ASSUME NEW a \in Nat, NEW b \in Nat, NEW w \in Nat, a <= b
    PROVE  a * w <= b * w /\ a * w \in Nat /\ b * w \in Nat
<1> DEFINE d == b - a
<1>1. d \in Nat /\ b = a + d
  OBVIOUS
<1> HIDE DEF d
<1>2. (a + d) * w = a * w + d * w /\ d * w \in Nat /\ a * w \in Nat
  BY <1>1
<1> QED BY <1>1, <1>2

\* The steps g takes when it adds d and rounds with F.
Adds(g, d, F, L) ==
    /\ g[1] = 0
    /\ \A n \in 1..L : g[n] + d[n] \in Sums => g[n + 1] = F[g[n] + d[n]]

\* What it then is: among the sums, each step off by a rounding at most.
RoundedSum(g, d, F, L) ==
    /\ g[1] = 0 /\ \A n \in 1..(L + 1) : g[n] \in Nat /\ g[n] \in Sums
    /\ \A n \in 1..L : /\ g[n] + d[n] \in Sums /\ g[n + 1] = F[g[n] + d[n]]
                       /\ (g[n] + d[n]) - Rounding <= g[n + 1]
                       /\ g[n + 1] <= g[n] + d[n] + Rounding

SumStep == Scale + 2 * Rounding

\* A running sum of at most MaxVariants numbers stays among the sums, and each step
\* adds its number up to a rounding.
LEMMA RoundedSums ==
    ASSUME NEW L \in Nat, L <= MaxVariants, NEW F, Rounds(F),
           NEW d \in [1..L -> 0..(Scale + Rounding)], NEW g, Adds(g, d, F, L)
    PROVE  RoundedSum(g, d, F, L)
<1> DEFINE W == SumStep
           Small(n) == g[n] \in Nat /\ g[n] <= (n - 1) * W
<1>1. /\ Scale \in Nat /\ Rounding \in Nat /\ MaxVariants \in Nat /\ W \in Nat
      /\ W = Scale + 2 * Rounding /\ Sums = 0..(MaxVariants * W)
  BY EvalAssumption DEF SumStep, Sums
<1> HIDE DEF W
<1> DEFINE Stepped(n) == /\ g[n] + d[n] \in Sums /\ g[n + 1] = F[g[n] + d[n]]
                         /\ (g[n] + d[n]) - Rounding <= g[n + 1]
                         /\ g[n + 1] <= g[n] + d[n] + Rounding
<1>2. ASSUME NEW n \in 1..L, Small(n) PROVE Small(n + 1) /\ Stepped(n)
  <2>1. n - 1 \in Nat /\ n \in Nat /\ n <= MaxVariants /\ d[n] \in Nat /\ d[n] <= Scale + Rounding
    BY <1>1
  <2>2. n * W = (n - 1) * W + W /\ (n - 1) * W \in Nat
    BY <1>1, <2>1
  <2>3. n * W <= MaxVariants * W /\ MaxVariants * W \in Nat /\ n * W \in Nat
    BY <1>1, <2>1, ProductGrows
  <2> DEFINE a == (n - 1) * W
             b == n * W
             m == MaxVariants * W
             x == g[n] + d[n]
  <2>4. g[n] <= a /\ g[n] \in Nat /\ b = a + W /\ b <= m /\ a \in Nat /\ b \in Nat /\ m \in Nat
    BY <1>2, <2>2, <2>3
  <2>5. x \in 0..m
    <3> HIDE DEF a, b, m
    <3> QED BY <1>1, <2>1, <2>4
  <2>6. x \in Sums
    BY <1>1, <2>5
  <2>7. g[n + 1] = F[x]
    BY <2>6 DEF Adds
  <2>8. F[x] \in Nat /\ x - Rounding <= F[x] /\ F[x] <= x + Rounding
    BY <2>6 DEF Rounds
  <2>9. F[x] <= b
    <3> HIDE DEF a, b, m
    <3> QED BY <1>1, <2>1, <2>4, <2>8
  <2>10. Small(n + 1)
    <3>1. (n + 1) - 1 = n
      BY <2>1
    <3>2. ((n + 1) - 1) * W = b
      BY <3>1
    <3>3. g[n + 1] \in Nat /\ g[n + 1] <= b
      BY <2>7, <2>8, <2>9
    <3> HIDE DEF b
    <3> QED BY <3>2, <3>3
  <2>11. x - Rounding <= g[n + 1] /\ g[n + 1] <= x + Rounding
    <3> HIDE DEF x
    <3> QED BY <2>7, <2>8
  <2>12. Stepped(n)
    <3> HIDE DEF Small
    <3> QED BY <2>6, <2>7, <2>11
  <2> HIDE DEF Small, Stepped
  <2> QED BY <2>10, <2>12
<1>3. Small(1)
  <2>1. (1 - 1) * W = 0
    BY <1>1
  <2> QED BY <2>1 DEF Adds
<1>4. \A n \in 1..(L + 1) : Small(n)
  <2> DEFINE T == {n \in 1..(L + 1) : ~Small(n)}
  <2> HIDE DEF Small
  <2> SUFFICES ASSUME T # {} PROVE FALSE
    OBVIOUS
  <2>1. PICK n \in T : \A m \in T : n <= m
    <3>1. T \subseteq Nat
      OBVIOUS
    <3> HIDE DEF T
    <3> QED BY <3>1, LeastNatural
  <2>2. n # 1
    BY <1>3, <2>1
  <2>3. n - 1 \in 1..L /\ n - 1 \in 1..(L + 1) /\ (n - 1) + 1 = n /\ ~(n <= n - 1)
    BY <2>1, <2>2
  <2>4. Small(n - 1)
    BY <2>1, <2>3
  <2>5. Small(n)
    BY <1>2, <2>3, <2>4
  <2> QED BY <2>1, <2>5
<1>5. \A n \in 1..(L + 1) : g[n] \in Nat /\ g[n] \in Sums
  <2> SUFFICES ASSUME NEW n \in 1..(L + 1) PROVE g[n] \in Nat /\ g[n] \in 0..(MaxVariants * W)
    BY <1>1
  <2>1. n - 1 \in Nat /\ n - 1 <= MaxVariants
    BY <1>1
  <2>2. (n - 1) * W <= MaxVariants * W /\ MaxVariants * W \in Nat /\ (n - 1) * W \in Nat
    BY <1>1, <2>1, ProductGrows
  <2> DEFINE a == (n - 1) * W
             m == MaxVariants * W
  <2>3. g[n] \in Nat /\ g[n] <= a /\ a <= m /\ a \in Nat /\ m \in Nat
    BY <1>4, <2>2
  <2> HIDE DEF a, m
  <2>4. g[n] \in 0..m
    BY <2>3
  <2> QED BY <2>3, <2>4 DEF m
<1>6. \A n \in 1..L : n \in 1..(L + 1)
  OBVIOUS
<1> HIDE DEF Small, Stepped
<1>7. g[1] = 0
  BY DEF Adds
<1>8. \A n \in 1..L : Stepped(n)
  BY <1>2, <1>4, <1>6
<1> QED BY <1>5, <1>7, <1>8 DEF RoundedSum, Stepped

\* The definition of a running sum has a solution.
Running(f, d, F, L) == f = [n \in 1..(L + 1) |-> IF n = 1 THEN 0 ELSE F[f[n - 1] + d[n - 1]]]

LEMMA SumsExist ==
    ASSUME NEW L \in Nat, NEW F, NEW d
    PROVE  \E f : Running(f, d, F, L)
<1> DEFINE Next1(f, n) == IF n = 1 THEN 0 ELSE F[f[n - 1] + d[n - 1]]
           Runs(f, k) == f = [n \in 1..k |-> Next1(f, n)]
           N == L + 1
           RunsTo(k) == \E f : Runs(f, k)
<1>1. N \in Nat /\ N # 0
  OBVIOUS
<1>2. RunsTo(N)
  <2> DEFINE T == {k \in Nat : k # 0 /\ k <= N /\ ~RunsTo(k)}
  <2> SUFFICES ASSUME T # {} PROVE FALSE
    <3> HIDE DEF RunsTo, N
    <3> QED BY <1>1
  <2>1. PICK k \in T : \A m \in T : k <= m
    <3>1. T \subseteq Nat
      OBVIOUS
    <3> HIDE DEF T
    <3> QED BY <3>1, LeastNatural
  <2>2. CASE k = 1
    <3> DEFINE z == [n \in 1..1 |-> 0]
    <3>1. \A n \in 1..1 : Next1(z, n) = 0
      OBVIOUS
    <3>2. Runs(z, 1)
      BY <3>1
    <3>3. RunsTo(1)
      BY <3>2
    <3> HIDE DEF RunsTo
    <3> QED BY <2>1, <2>2, <3>3
  <2>3. CASE k # 1
    <3>1. RunsTo(k - 1) /\ k \in Nat /\ k # 0
      <4> HIDE DEF RunsTo, N
      <4> QED BY <1>1, <2>1, <2>3
    <3>2. PICK f : Runs(f, k - 1)
      BY <3>1
    <3> DEFINE g == [n \in 1..k |-> IF n = k THEN Next1(f, k) ELSE f[n]]
    <3>3. \A n \in 1..k : n # 1 => n - 1 \in 1..(k - 1) /\ g[n - 1] = f[n - 1]
      BY <3>1
    <3>4. \A n \in 1..k : Next1(g, n) = Next1(f, n)
      BY <3>3
    <3>5. \A n \in 1..k : n # k => n \in 1..(k - 1) /\ f[n] = Next1(f, n)
      <4>1. \A n \in 1..k : n # k => n \in 1..(k - 1)
        BY <3>1
      <4>2. \A n \in 1..(k - 1) : f[n] = Next1(f, n)
        BY <3>2
      <4> QED BY <4>1, <4>2
    <3>6. \A n \in 1..k : g[n] = Next1(g, n)
      BY <3>4, <3>5
    <3>7. Runs(g, k)
      BY <3>6
    <3>8. RunsTo(k)
      BY <3>7
    <3> HIDE DEF RunsTo
    <3> QED BY <2>1, <3>8
  <2> QED BY <2>2, <2>3
<1> QED BY <1>2 DEF Running

\* A percentage is a sum.
LEMMA ScaleInSums == 0..Scale \subseteq Sums
<1> DEFINE w == Scale + 2 * Rounding
           m == MaxVariants * w
<1>1. Scale \in Nat /\ Rounding \in Nat /\ MaxVariants \in Nat /\ 1 <= MaxVariants /\ w \in Nat
  BY EvalAssumption
<1>2. 1 * w <= m /\ m \in Nat /\ 1 * w = w
  <2> HIDE DEF w
  <2> QED BY <1>1, ProductGrows
<1>3. Sums = 0..m
  BY DEF Sums
<1> HIDE DEF m
<1> QED BY <1>1, <1>2, <1>3

\* Percentages of a list of variants, and their fractions.
LEMMA Increments ==
    ASSUME NEW K, NEW vs \in Seq(VariantRow(K))
    PROVE  /\ Len(vs) \in Nat
           /\ \A n \in 1..Len(vs) : /\ vs[n].rollout \in 0..Scale /\ Fraction[vs[n].rollout] \in 0..(Scale + Rounding)
                                    /\ vs[n].rollout - Rounding <= Fraction[vs[n].rollout]
                                    /\ Fraction[vs[n].rollout] <= vs[n].rollout + Rounding
<1>1. \A n \in 1..Len(vs) : vs[n] \in VariantRow(K)
  OBVIOUS
<1> SUFFICES ASSUME NEW n \in 1..Len(vs)
             PROVE  LET r == vs[n].rollout IN
                    /\ r \in 0..Scale /\ Fraction[r] \in 0..(Scale + Rounding)
                    /\ r - Rounding <= Fraction[r] /\ Fraction[r] <= r + Rounding
  OBVIOUS
<1> DEFINE r == vs[n].rollout
           y == Fraction[r]
           m == MaxVariants * (Scale + 2 * Rounding)
<1>2. r \in 0..Scale
  BY <1>1 DEF VariantRow
<1>3. Scale \in Nat /\ Rounding \in Nat /\ MaxVariants \in Nat \ {0}
  BY EvalAssumption
<1>4. 1 * (Scale + 2 * Rounding) <= m /\ m \in Nat /\ 1 * (Scale + 2 * Rounding) = Scale + 2 * Rounding
  <2>1. 1 \in Nat /\ 1 <= MaxVariants /\ Scale + 2 * Rounding \in Nat /\ MaxVariants \in Nat
    BY <1>3
  <2> QED BY <1>3, <2>1, ProductGrows
<1> HIDE DEF r, m
<1>5. r \in 0..m
  BY <1>2, <1>3, <1>4
<1>6. y \in Nat /\ r - Rounding <= y /\ y <= r + Rounding
  BY <1>5, EvalAssumption DEF Rounds, Sums, m
<1> HIDE DEF y
<1>7. y \in 0..(Scale + Rounding) /\ r - Rounding <= y /\ y <= r + Rounding
  BY <1>2, <1>3, <1>6
<1> QED BY <1>2, <1>7 DEF y, r

\* A sum of rounded numbers that leaves what is rounded alone never shrinks.
LEMMA SumsGrow ==
    ASSUME NEW L \in Nat, NEW F, Rounds(F), NEW d \in [1..L -> 0..(Scale + Rounding)], NEW g,
           RoundedSum(g, d, F, L)
    PROVE  \A n \in 1..L : g[n] <= g[n + 1]
<1>1. /\ g[1] = 0 /\ \A n \in 1..(L + 1) : g[n] \in Nat /\ g[n] \in Sums
      /\ \A n \in 1..L : g[n] + d[n] \in Sums /\ g[n + 1] = F[g[n] + d[n]]
  BY DEF RoundedSum
<1>2. \A n \in 1..(L + 1) : F[g[n]] = g[n]
  <2> SUFFICES ASSUME NEW n \in 1..(L + 1) PROVE F[g[n]] = g[n]
    OBVIOUS
  <2>1. CASE n = 1
    BY <1>1, <2>1 DEF Rounds
  <2>2. CASE n # 1
    <3>1. n - 1 \in 1..L /\ (n - 1) + 1 = n
      BY <2>2
    <3> DEFINE x == g[n - 1] + d[n - 1]
    <3>2. x \in Sums /\ g[n] = F[x] /\ g[n] \in Sums
      BY <1>1, <3>1
    <3> HIDE DEF x
    <3> QED BY <3>2 DEF Rounds
  <2> QED BY <2>1, <2>2
<1> SUFFICES ASSUME NEW n \in 1..L PROVE g[n] <= g[n + 1]
  OBVIOUS
<1> DEFINE x == g[n] + d[n]
           y == g[n]
<1>3. n \in 1..(L + 1) /\ d[n] \in Nat
  <2>1. d[n] \in 0..(Scale + Rounding)
    OBVIOUS
  <2> QED BY <2>1
<1>4. x \in Sums /\ y \in Sums /\ y <= x /\ g[n + 1] = F[x] /\ F[y] = y
  BY <1>1, <1>2, <1>3
<1> HIDE DEF x, y
<1>5. y <= F[x]
  BY <1>4 DEF Rounds
<1> QED BY <1>4, <1>5 DEF y

\* Two sums whose steps differ by at most c differ by c for every step.
Drifts(g, e, c, L) ==
    /\ g[1] = 0 /\ e[1] = 0 /\ \A n \in 1..(L + 1) : g[n] \in Int /\ e[n] \in Int
    /\ \A n \in 1..L : /\ (g[n + 1] - g[n]) - (e[n + 1] - e[n]) <= c
                       /\ (e[n + 1] - e[n]) - (g[n + 1] - g[n]) <= c

LEMMA SumsDrift ==
    ASSUME NEW L \in Nat, NEW c \in Nat, NEW g, NEW e, Drifts(g, e, c, L), NEW k \in 1..(L + 1)
    PROVE  g[k] - e[k] <= (k - 1) * c /\ e[k] - g[k] <= (k - 1) * c
<1> DEFINE Near(n) == g[n] - e[n] <= (n - 1) * c /\ e[n] - g[n] <= (n - 1) * c
           T == {n \in 1..(L + 1) : ~Near(n)}
<1>0. /\ g[1] = 0 /\ e[1] = 0 /\ \A n \in 1..(L + 1) : g[n] \in Int /\ e[n] \in Int
      /\ \A n \in 1..L : /\ (g[n + 1] - g[n]) - (e[n + 1] - e[n]) <= c
                         /\ (e[n + 1] - e[n]) - (g[n + 1] - g[n]) <= c
  BY DEF Drifts
<1> SUFFICES ASSUME T # {} PROVE FALSE
  OBVIOUS
<1>1. PICK n \in T : \A m \in T : n <= m
  <2>1. T \subseteq Nat
    OBVIOUS
  <2> HIDE DEF T
  <2> QED BY <2>1, LeastNatural
<1>2. Near(1)
  <2>1. (1 - 1) * c = 0
    OBVIOUS
  <2> QED BY <1>0, <2>1
<1>3. n # 1
  <2> HIDE DEF Near
  <2> QED BY <1>1, <1>2
<1>4. n - 1 \in 1..L /\ n - 1 \in 1..(L + 1) /\ n \in 1..(L + 1) /\ (n - 1) + 1 = n /\ ~(n <= n - 1)
  BY <1>1, <1>3
<1>5. Near(n - 1)
  <2> HIDE DEF Near
  <2> QED BY <1>1, <1>4
<1>6. (n - 1) * c = ((n - 1) - 1) * c + c
  BY <1>4
<1> DEFINE a == ((n - 1) - 1) * c
           b == (n - 1) * c
           p == g[n - 1]
           q == e[n - 1]
           s == g[n]
           t == e[n]
<1>7. /\ p - q <= a /\ q - p <= a /\ b = a + c
      /\ p \in Int /\ q \in Int /\ s \in Int /\ t \in Int /\ a \in Int
  BY <1>0, <1>4, <1>5, <1>6
<1>8. (s - p) - (t - q) <= c /\ (t - q) - (s - p) <= c
  BY <1>0, <1>4
<1> HIDE DEF a, b, p, q, s, t
<1>9. s - t <= b /\ t - s <= b
  BY <1>7, <1>8
<1>10. Near(n)
  BY <1>9 DEF s, t, b
<1> QED BY <1>1, <1>10

\* What a list of variants shares out: the ranges follow one another from 0, and the
\* running sums of validation and of evaluation stay near the exact ones.
LEMMA RangesFollow ==
    ASSUME NEW K, NEW vs \in Seq(VariantRow(K)), Len(vs) <= MaxVariants
    PROVE  LET s == RangeStart(vs)
               L == Len(vs) IN
           /\ s[1] = 0 /\ \A n \in 1..(L + 1) : s[n] \in Nat
           /\ \A n \in 1..L : s[n] <= s[n + 1]
           /\ \A n \in 1..L : /\ (s[n] + vs[n].rollout) - 2 * Rounding <= s[n + 1]
                              /\ s[n + 1] <= s[n] + vs[n].rollout + 2 * Rounding
<1> DEFINE L == Len(vs)
           d == [n \in 1..L |-> Fraction[vs[n].rollout]]
           s == RangeStart(vs)
           Runs(f) == f = [n \in 1..(L + 1) |-> IF n = 1 THEN 0 ELSE Fraction[f[n - 1] + Fraction[vs[n - 1].rollout]]]
<1>1. /\ L \in Nat /\ L <= MaxVariants /\ Rounding \in Nat /\ Rounds(Fraction)
      /\ \A n \in 1..L : /\ vs[n].rollout \in 0..Scale /\ Fraction[vs[n].rollout] \in 0..(Scale + Rounding)
                         /\ vs[n].rollout - Rounding <= Fraction[vs[n].rollout]
                         /\ Fraction[vs[n].rollout] <= vs[n].rollout + Rounding
  BY Increments, EvalAssumption
<1>2. d \in [1..L -> 0..(Scale + Rounding)]
  BY <1>1
<1>3. \A n \in 1..(L + 1) : n # 1 => n - 1 \in 1..L
  BY <1>1
<1>4. \E f : Runs(f)
  <2>1. PICK f : Running(f, d, Fraction, L)
    <3> HIDE DEF d, L
    <3> QED BY <1>1, SumsExist
  <2>2. \A n \in 1..(L + 1) : n # 1 => d[n - 1] = Fraction[vs[n - 1].rollout]
    BY <1>3
  <2>3. [n \in 1..(L + 1) |-> IF n = 1 THEN 0 ELSE Fraction[f[n - 1] + d[n - 1]]]
          = [n \in 1..(L + 1) |-> IF n = 1 THEN 0 ELSE Fraction[f[n - 1] + Fraction[vs[n - 1].rollout]]]
    <3> HIDE DEF d, L
    <3> QED BY <2>2
  <2>4. Runs(f)
    <3> HIDE DEF d, L
    <3> QED BY <2>1, <2>3 DEF Running
  <2> QED BY <2>4
<1>5. s = CHOOSE f : Runs(f)
  BY DEF RangeStart
<1>6. Runs(s)
  <2> HIDE DEF s, Runs
  <2> QED BY <1>4, <1>5
<1> HIDE DEF s
<1>7. s[1] = 0 /\ \A n \in 1..L : s[n + 1] = Fraction[s[n] + d[n]]
  <2>1. \A n \in 1..(L + 1) : s[n] = IF n = 1 THEN 0 ELSE Fraction[s[n - 1] + Fraction[vs[n - 1].rollout]]
    <3> HIDE DEF L
    <3> QED BY <1>6
  <2>2. 1 \in 1..(L + 1) /\ \A n \in 1..L : n + 1 \in 1..(L + 1) /\ n + 1 # 1 /\ (n + 1) - 1 = n
    BY <1>1
  <2>3. \A n \in 1..L : s[n + 1] = Fraction[s[n] + Fraction[vs[n].rollout]]
    <3> HIDE DEF L
    <3> QED BY <2>1, <2>2
  <2> HIDE DEF L
  <2> QED BY <2>1, <2>2, <2>3
<1>8. \A n \in 1..L : d[n] = Fraction[vs[n].rollout]
  OBVIOUS
<1> HIDE DEF d, L
<1>9. Adds(s, d, Fraction, L)
  BY <1>7 DEF Adds
<1>a. RoundedSum(s, d, Fraction, L)
  BY <1>1, <1>2, <1>9, RoundedSums
<1>10. /\ \A n \in 1..(L + 1) : s[n] \in Nat /\ s[n] \in Sums
       /\ \A n \in 1..L : /\ s[n] + d[n] \in Sums /\ s[n + 1] = Fraction[s[n] + d[n]]
                          /\ (s[n] + d[n]) - Rounding <= s[n + 1]
                          /\ s[n + 1] <= s[n] + d[n] + Rounding
  BY <1>a DEF RoundedSum
<1>11. \A n \in 1..L : s[n] <= s[n + 1]
  BY <1>1, <1>2, <1>a, SumsGrow
<1>12. ASSUME NEW n \in 1..L
       PROVE  /\ (s[n] + vs[n].rollout) - 2 * Rounding <= s[n + 1]
              /\ s[n + 1] <= s[n] + vs[n].rollout + 2 * Rounding
  <2>1. n \in 1..(L + 1) /\ n + 1 \in 1..(L + 1)
    BY <1>1
  <2>2. s[n] \in Nat /\ s[n + 1] \in Nat /\ d[n] \in Nat /\ vs[n].rollout \in Nat
    <3>1. d[n] \in 0..(Scale + Rounding) /\ vs[n].rollout \in 0..Scale
      BY <1>1, <1>2
    <3> QED BY <1>10, <2>1, <3>1
  <2>3. vs[n].rollout - Rounding <= d[n] /\ d[n] <= vs[n].rollout + Rounding
    BY <1>1, <1>8
  <2>4. (s[n] + d[n]) - Rounding <= s[n + 1] /\ s[n + 1] <= s[n] + d[n] + Rounding /\ Rounding \in Nat
    BY <1>1, <1>10
  <2> DEFINE p == s[n]
             q == s[n + 1]
             x == d[n]
             y == vs[n].rollout
  <2>5. /\ p \in Nat /\ q \in Nat /\ x \in Nat /\ y \in Nat /\ Rounding \in Nat
        /\ y - Rounding <= x /\ x <= y + Rounding /\ (p + x) - Rounding <= q /\ q <= p + x + Rounding
    BY <2>2, <2>3, <2>4
  <2> HIDE DEF p, q, x, y
  <2>6. (p + y) - 2 * Rounding <= q /\ q <= p + y + 2 * Rounding
    BY <2>5
  <2> QED BY <2>6 DEF p, q, y
<1> QED BY <1>7, <1>10, <1>11, <1>12 DEF L, s

\* The sum of validation.
LEMMA PercentsFollow ==
    ASSUME NEW K, NEW vs \in Seq(VariantRow(K)), Len(vs) <= MaxVariants
    PROVE  LET s == PercentSum(vs)
               L == Len(vs) IN
           /\ s[1] = 0 /\ \A n \in 1..(L + 1) : s[n] \in Nat
           /\ \A n \in 1..L : /\ (s[n] + vs[n].rollout) - Rounding <= s[n + 1]
                              /\ s[n + 1] <= s[n] + vs[n].rollout + Rounding
<1> DEFINE L == Len(vs)
           d == [n \in 1..L |-> vs[n].rollout]
           s == PercentSum(vs)
           Runs(f) == f = [n \in 1..(L + 1) |-> IF n = 1 THEN 0 ELSE Percent[f[n - 1] + vs[n - 1].rollout]]
<1>1. /\ L \in Nat /\ L <= MaxVariants /\ Rounding \in Nat /\ Scale \in Nat /\ Rounds(Percent)
      /\ \A n \in 1..L : vs[n].rollout \in 0..Scale
  BY Increments, EvalAssumption
<1>2. d \in [1..L -> 0..(Scale + Rounding)]
  BY <1>1
<1>3. \A n \in 1..(L + 1) : n # 1 => n - 1 \in 1..L
  BY <1>1
<1>4. \E f : Runs(f)
  <2>1. PICK f : Running(f, d, Percent, L)
    <3> HIDE DEF d, L
    <3> QED BY <1>1, SumsExist
  <2>2. \A n \in 1..(L + 1) : n # 1 => d[n - 1] = vs[n - 1].rollout
    BY <1>3
  <2>3. [n \in 1..(L + 1) |-> IF n = 1 THEN 0 ELSE Percent[f[n - 1] + d[n - 1]]]
          = [n \in 1..(L + 1) |-> IF n = 1 THEN 0 ELSE Percent[f[n - 1] + vs[n - 1].rollout]]
    <3> HIDE DEF d, L
    <3> QED BY <2>2
  <2>4. Runs(f)
    <3> HIDE DEF d, L
    <3> QED BY <2>1, <2>3 DEF Running
  <2> QED BY <2>4
<1>5. s = CHOOSE f : Runs(f)
  BY DEF PercentSum
<1>6. Runs(s)
  <2> HIDE DEF s, Runs
  <2> QED BY <1>4, <1>5
<1> HIDE DEF s
<1>7. s[1] = 0 /\ \A n \in 1..L : s[n + 1] = Percent[s[n] + d[n]]
  <2>1. \A n \in 1..(L + 1) : s[n] = IF n = 1 THEN 0 ELSE Percent[s[n - 1] + vs[n - 1].rollout]
    <3> HIDE DEF L
    <3> QED BY <1>6
  <2>2. 1 \in 1..(L + 1) /\ \A n \in 1..L : n + 1 \in 1..(L + 1) /\ n + 1 # 1 /\ (n + 1) - 1 = n
    BY <1>1
  <2>3. \A n \in 1..L : s[n + 1] = Percent[s[n] + vs[n].rollout]
    <3> HIDE DEF L
    <3> QED BY <2>1, <2>2
  <2> HIDE DEF L
  <2> QED BY <2>1, <2>2, <2>3
<1>8. \A n \in 1..L : d[n] = vs[n].rollout
  OBVIOUS
<1> HIDE DEF d, L
<1>9. Adds(s, d, Percent, L)
  BY <1>7 DEF Adds
<1>a. RoundedSum(s, d, Percent, L)
  BY <1>1, <1>2, <1>9, RoundedSums
<1>10. /\ \A n \in 1..(L + 1) : s[n] \in Nat /\ s[n] \in Sums
       /\ \A n \in 1..L : /\ s[n] + d[n] \in Sums /\ s[n + 1] = Percent[s[n] + d[n]]
                          /\ (s[n] + d[n]) - Rounding <= s[n + 1]
                          /\ s[n + 1] <= s[n] + d[n] + Rounding
  BY <1>a DEF RoundedSum
<1> QED BY <1>7, <1>8, <1>10 DEF L, s

\* The exact sum.
LEMMA ExactFollows ==
    ASSUME NEW K, NEW vs \in Seq(VariantRow(K)), Len(vs) <= MaxVariants
    PROVE  LET s == ExactStart(vs)
               L == Len(vs) IN
           /\ s[1] = 0 /\ \A n \in 1..(L + 1) : s[n] \in Nat
           /\ \A n \in 1..L : s[n + 1] = s[n] + vs[n].rollout
<1> DEFINE L == Len(vs)
           d == [n \in 1..L |-> vs[n].rollout]
           s == ExactStart(vs)
           Id == [x \in Sums |-> x]
           Runs(f) == f = [n \in 1..(L + 1) |-> IF n = 1 THEN 0 ELSE f[n - 1] + vs[n - 1].rollout]
<1>1. /\ L \in Nat /\ L <= MaxVariants /\ Rounding \in Nat /\ Scale \in Nat
      /\ \A n \in 1..L : vs[n].rollout \in 0..Scale
  BY Increments, EvalAssumption
<1>2. d \in [1..L -> 0..(Scale + Rounding)]
  BY <1>1
<1>3. \A n \in 1..(L + 1) : n # 1 => n - 1 \in 1..L /\ (n - 1) + 1 = n
  BY <1>1
<1>b. Rounds(Id)
  <2>1. Sums \subseteq Nat
    <3>1. MaxVariants * (Scale + 2 * Rounding) \in Nat
      <4>1. MaxVariants \in Nat /\ Scale + 2 * Rounding \in Nat
        BY EvalAssumption
      <4> QED BY <4>1, ProductGrows
    <3> QED BY <3>1 DEF Sums
  <2>2. 0 \in Sums
    <3>1. MaxVariants * (Scale + 2 * Rounding) \in Nat
      <4>1. MaxVariants \in Nat /\ Scale + 2 * Rounding \in Nat
        BY EvalAssumption
      <4> QED BY <4>1, ProductGrows
    <3> QED BY <3>1 DEF Sums
  <2>3. \A x \in Sums : x - Rounding <= x /\ x <= x + Rounding
    BY <1>1, <2>1
  <2> QED BY <2>1, <2>2, <2>3 DEF Rounds
<1>c. 1 \in 1..(L + 1) /\ \A n \in 1..L : n + 1 \in 1..(L + 1) /\ n + 1 # 1 /\ (n + 1) - 1 = n
  BY <1>1
<1>8. \A n \in 1..L : d[n] = vs[n].rollout
  OBVIOUS
<1>d. \A x \in Sums : Id[x] = x
  OBVIOUS
<1> HIDE DEF d, L, Id
<1>4. \E f : Runs(f)
  <2>1. PICK f : Running(f, d, Id, L)
    BY <1>1, SumsExist
  <2>2. \A n \in 1..(L + 1) : f[n] = IF n = 1 THEN 0 ELSE Id[f[n - 1] + d[n - 1]]
    BY <2>1 DEF Running
  <2>3. Adds(f, d, Id, L)
    BY <1>c, <2>2 DEF Adds
  <2>4. \A n \in 1..L : f[n] + d[n] \in Sums /\ f[n + 1] = Id[f[n] + d[n]]
    <3>1. RoundedSum(f, d, Id, L)
      BY <1>1, <1>2, <1>b, <2>3, RoundedSums
    <3> QED BY <3>1 DEF RoundedSum
  <2>5. \A n \in 1..(L + 1) : n # 1 => Id[f[n - 1] + d[n - 1]] = f[n - 1] + vs[n - 1].rollout
    <3> SUFFICES ASSUME NEW n \in 1..(L + 1), n # 1 PROVE Id[f[n - 1] + d[n - 1]] = f[n - 1] + vs[n - 1].rollout
      OBVIOUS
    <3> DEFINE m == n - 1
    <3>1. m \in 1..L
      BY <1>3
    <3> HIDE DEF m
    <3>2. Id[f[m] + d[m]] = f[m] + vs[m].rollout
      BY <1>8, <1>d, <2>4, <3>1
    <3> QED BY <3>2 DEF m
  <2>6. [n \in 1..(L + 1) |-> IF n = 1 THEN 0 ELSE Id[f[n - 1] + d[n - 1]]]
          = [n \in 1..(L + 1) |-> IF n = 1 THEN 0 ELSE f[n - 1] + vs[n - 1].rollout]
    BY <2>5
  <2>7. Runs(f)
    BY <2>1, <2>6 DEF Running
  <2> QED BY <2>7
<1>5. s = CHOOSE f : Runs(f)
  BY DEF ExactStart, L
<1>6. Runs(s)
  <2> HIDE DEF s, Runs
  <2> QED BY <1>4, <1>5
<1> HIDE DEF s
<1>7. s[1] = 0 /\ \A n \in 1..L : s[n + 1] = s[n] + d[n]
  <2>1. \A n \in 1..(L + 1) : s[n] = IF n = 1 THEN 0 ELSE s[n - 1] + vs[n - 1].rollout
    BY <1>6
  <2>3. \A n \in 1..L : s[n + 1] = s[n] + vs[n].rollout
    BY <1>c, <2>1
  <2> QED BY <1>8, <1>c, <2>1, <2>3
<1>9. Adds(s, d, Id, L)
  BY <1>7, <1>d DEF Adds
<1>10. \A n \in 1..(L + 1) : s[n] \in Nat
  <2>1. RoundedSum(s, d, Id, L)
    BY <1>1, <1>2, <1>9, <1>b, RoundedSums
  <2> QED BY <2>1 DEF RoundedSum
<1> QED BY <1>7, <1>8, <1>10 DEF L, s

\* How near evaluation and validation stay to the exact sums.
LEMMA SumsNear ==
    ASSUME NEW K, NEW vs \in Seq(VariantRow(K)), Len(vs) <= MaxVariants, NEW n \in 1..(Len(vs) + 1)
    PROVE  LET s == RangeStart(vs)
               p == PercentSum(vs)
               e == ExactStart(vs) IN
           /\ s[n] \in Nat /\ p[n] \in Nat /\ e[n] \in Nat
           /\ s[n] <= e[n] + 2 * (n - 1) * Rounding /\ e[n] <= s[n] + 2 * (n - 1) * Rounding
           /\ p[n] <= e[n] + (n - 1) * Rounding
<1> DEFINE s == RangeStart(vs)
           p == PercentSum(vs)
           e == ExactStart(vs)
           L == Len(vs)
           R == Rounding
<1>1. L \in Nat /\ R \in Nat /\ \A m \in 1..L : vs[m].rollout \in Nat
  <2>1. \A m \in 1..L : vs[m].rollout \in 0..Scale
    BY Increments
  <2> QED BY <2>1, EvalAssumption
<1>2. /\ s[1] = 0 /\ \A m \in 1..(L + 1) : s[m] \in Nat
      /\ \A m \in 1..L : (s[m] + vs[m].rollout) - 2 * R <= s[m + 1] /\ s[m + 1] <= s[m] + vs[m].rollout + 2 * R
  BY RangesFollow
<1>3. /\ p[1] = 0 /\ \A m \in 1..(L + 1) : p[m] \in Nat
      /\ \A m \in 1..L : (p[m] + vs[m].rollout) - R <= p[m + 1] /\ p[m + 1] <= p[m] + vs[m].rollout + R
  BY PercentsFollow
<1>4. /\ e[1] = 0 /\ \A m \in 1..(L + 1) : e[m] \in Nat
      /\ \A m \in 1..L : e[m + 1] = e[m] + vs[m].rollout
  BY ExactFollows
<1> HIDE DEF s, p, e, L, R
<1>5. \A m \in 1..L : m \in 1..(L + 1) /\ m + 1 \in 1..(L + 1)
  BY <1>1
<1> DEFINE c == 2 * R
<1>6. c \in Nat
  BY <1>1
<1>7. Drifts(s, e, c, L)
  <2> SUFFICES ASSUME NEW m \in 1..L
               PROVE  (s[m + 1] - s[m]) - (e[m + 1] - e[m]) <= c /\ (e[m + 1] - e[m]) - (s[m + 1] - s[m]) <= c
    BY <1>2, <1>4 DEF Drifts
  <2> DEFINE a == s[m]
             b == s[m + 1]
             f == e[m]
             g == e[m + 1]
             r == vs[m].rollout
  <2>1. /\ a \in Nat /\ b \in Nat /\ f \in Nat /\ g \in Nat /\ r \in Nat /\ R \in Nat
        /\ (a + r) - 2 * R <= b /\ b <= a + r + 2 * R /\ g = f + r
    BY <1>1, <1>2, <1>4, <1>5
  <2> HIDE DEF a, b, f, g, r
  <2>2. (b - a) - (g - f) <= 2 * R /\ (g - f) - (b - a) <= 2 * R
    BY <2>1
  <2> QED BY <2>2 DEF a, b, f, g, c
<1>8. Drifts(p, e, R, L)
  <2> SUFFICES ASSUME NEW m \in 1..L
               PROVE  (p[m + 1] - p[m]) - (e[m + 1] - e[m]) <= R /\ (e[m + 1] - e[m]) - (p[m + 1] - p[m]) <= R
    BY <1>3, <1>4 DEF Drifts
  <2> DEFINE a == p[m]
             b == p[m + 1]
             f == e[m]
             g == e[m + 1]
             r == vs[m].rollout
  <2>1. /\ a \in Nat /\ b \in Nat /\ f \in Nat /\ g \in Nat /\ r \in Nat /\ R \in Nat
        /\ (a + r) - R <= b /\ b <= a + r + R /\ g = f + r
    BY <1>1, <1>3, <1>4, <1>5
  <2> HIDE DEF a, b, f, g, r
  <2>2. (b - a) - (g - f) <= R /\ (g - f) - (b - a) <= R
    BY <2>1
  <2> QED BY <2>2 DEF a, b, f, g
<1>n. n \in 1..(L + 1)
  BY DEF L
<1>9. s[n] - e[n] <= (n - 1) * c /\ e[n] - s[n] <= (n - 1) * c
  BY <1>1, <1>6, <1>7, <1>n, SumsDrift
<1>10. p[n] - e[n] <= (n - 1) * R
  BY <1>1, <1>8, <1>n, SumsDrift
<1>11. n - 1 \in Nat /\ n \in 1..(L + 1)
  BY <1>1 DEF L
<1>12. (n - 1) * c = 2 * (n - 1) * R /\ (n - 1) * c \in Nat /\ (n - 1) * R \in Nat
  <2> DEFINE k == n - 1
  <2>1. k \in Nat
    BY <1>11
  <2> HIDE DEF k
  <2>2. k * (2 * R) = 2 * k * R /\ k * (2 * R) \in Nat /\ k * R \in Nat
    BY <1>1, <2>1
  <2> QED BY <2>2 DEF k, c
<1>13. s[n] \in Nat /\ p[n] \in Nat /\ e[n] \in Nat
  BY <1>2, <1>3, <1>4, <1>11
<1> DEFINE a == (n - 1) * c
           b == (n - 1) * R
           x == s[n]
           y == p[n]
           z == e[n]
<1>14. x - z <= a /\ z - x <= a /\ y - z <= b /\ a \in Nat /\ b \in Nat /\ x \in Nat /\ y \in Nat /\ z \in Nat
  BY <1>9, <1>10, <1>12, <1>13
<1> HIDE DEF a, b, x, y, z
<1>15. x <= z + a /\ z <= x + a /\ y <= z + b
  BY <1>14
<1>16. s[n] <= e[n] + 2 * (n - 1) * R /\ e[n] <= s[n] + 2 * (n - 1) * R /\ p[n] <= e[n] + (n - 1) * R
  BY <1>12, <1>15 DEF x, y, z, a, b
<1> QED BY <1>13, <1>16 DEF s, p, e, R

InRange(s, n, x) == s[n] <= x /\ x < s[n + 1]

\* The ranges partition the numbers below their end.
LEMMA RangesPartition ==
    ASSUME NEW K, NEW vs \in Seq(VariantRow(K)), Len(vs) <= MaxVariants, NEW x \in Nat
    PROVE  LET s == RangeStart(vs)
               L == Len(vs) IN
           /\ \A n \in 1..L : InRange(s, n, x) => x < s[L + 1]
           /\ x < s[L + 1] => \E n \in 1..L : InRange(s, n, x)
           /\ \A n, m \in 1..L : InRange(s, n, x) /\ InRange(s, m, x) => n = m
<1> DEFINE s == RangeStart(vs)
           L == Len(vs)
           In(n) == s[n] <= x /\ x < s[n + 1]
<1>1. L \in Nat /\ s[1] = 0 /\ (\A n \in 1..(L + 1) : s[n] \in Nat) /\ \A n \in 1..L : s[n] <= s[n + 1]
  BY RangesFollow
<1> HIDE DEF s, L
<1>2. \A n \in 1..L : n + 1 \in 1..(L + 1) /\ n \in 1..(L + 1) /\ s[n] <= s[n + 1]
  BY <1>1
<1>3. ASSUME NEW n \in 1..(L + 1), NEW m \in 1..(L + 1), n <= m PROVE s[n] <= s[m]
  <2> DEFINE T == {k \in 1..(L + 1) : n <= k /\ ~(s[n] <= s[k])}
  <2> SUFFICES ASSUME T # {} PROVE FALSE
    BY <1>3
  <2>1. PICK k \in T : \A j \in T : k <= j
    <3>1. T \subseteq Nat
      BY <1>1
    <3> HIDE DEF T
    <3> QED BY <3>1, LeastNatural
  <2>2. k # n
    BY <1>1, <2>1
  <2>3. k - 1 \in 1..L /\ k - 1 \in 1..(L + 1) /\ n <= k - 1 /\ (k - 1) + 1 = k /\ ~(k <= k - 1)
    BY <1>1, <2>1, <2>2
  <2>4. s[n] <= s[k - 1]
    BY <2>1, <2>3
  <2>5. s[k - 1] <= s[k]
    BY <1>2, <2>3
  <2>6. s[n] \in Nat /\ s[k - 1] \in Nat /\ s[k] \in Nat
    BY <1>1, <2>1, <2>3
  <2>7. s[n] <= s[k]
    BY <2>4, <2>5, <2>6
  <2> QED BY <2>1, <2>7
<1>4. ASSUME NEW n \in 1..L, In(n) PROVE x < s[L + 1]
  <2>1. n + 1 \in 1..(L + 1) /\ L + 1 \in 1..(L + 1) /\ n + 1 <= L + 1
    BY <1>1
  <2>2. s[n + 1] <= s[L + 1] /\ s[n + 1] \in Nat /\ s[L + 1] \in Nat
    BY <1>1, <1>3, <2>1
  <2> QED BY <1>4, <2>2
<1>5. ASSUME x < s[L + 1] PROVE \E n \in 1..L : In(n)
  <2> DEFINE T == {n \in 1..(L + 1) : x < s[n]}
  <2>1. L + 1 \in T /\ T \subseteq Nat
    BY <1>1, <1>5
  <2>2. PICK n \in T : \A m \in T : n <= m
    <3> HIDE DEF T
    <3> QED BY <2>1, LeastNatural
  <2>3. n # 1
    BY <1>1, <2>2
  <2>4. n - 1 \in 1..L /\ n - 1 \in 1..(L + 1) /\ (n - 1) + 1 = n /\ ~(n <= n - 1)
    BY <1>1, <2>2, <2>3
  <2>5. ~(x < s[n - 1]) /\ s[n - 1] \in Nat
    BY <1>1, <2>2, <2>4
  <2>6. In(n - 1)
    BY <2>2, <2>4, <2>5
  <2> QED BY <2>4, <2>6
<1>6. ASSUME NEW n \in 1..L, NEW m \in 1..L, In(n), In(m), n < m PROVE FALSE
  <2>1. n + 1 \in 1..(L + 1) /\ m \in 1..(L + 1) /\ n + 1 <= m
    BY <1>1, <1>6
  <2>2. s[n + 1] <= s[m] /\ s[n + 1] \in Nat /\ s[m] \in Nat
    BY <1>1, <1>3, <2>1
  <2> QED BY <1>6, <2>2
<1>7. ASSUME NEW n \in 1..L, NEW m \in 1..L, In(n), In(m) PROVE n = m
  <2>1. n < m \/ m < n \/ n = m
    BY <1>1
  <2> QED BY <1>6, <1>7, <2>1
<1> QED BY <1>4, <1>5, <1>7 DEF s, L, InRange

GroupRow == [properties : Filters, rollout : Rollouts \cup {NoValue}, variant : Variants \cup {NoValue}]
FlagDef == [active : BOOLEAN, groups : Seq(GroupRow), variants : Seq(VariantRow(Variants)),
            payloads : SUBSET (Variants \cup {"true"})]

\* The percentages of a stored flag add up, nearly.
Validates(vs) ==
    vs # <<>> => /\ Len(vs) <= MaxVariants
                /\ PercentSum(vs)[Len(vs) + 1] \in (Scale - Epsilon)..(Scale + Epsilon)

EvalInv == fdef \in FlagDef /\ Validates(fdef.variants)

\* Every rollout an owner sets is a number.
LEMMA RolloutsTyped == Rollouts \subseteq 0..Scale /\ 0..Scale \subseteq Nat
BY EvalAssumption

\* Every list of variants an owner sets is a list of keys and percentages.
LEMMA VariantsTyped == VariantLists \subseteq Seq(VariantRow(Variants))
BY EvalAssumption DEF VariantRow

\* What validates adds up.
LEMMA Validated ==
    ASSUME NEW def \in FlagDef, Edit(def)
    PROVE  EvalInv' /\ fdef' = def
<1>1. fdef' = def /\ validate_filters(def)
  BY DEF Edit
<1>2. Validates(def.variants)
  BY <1>1 DEF validate_filters, Validates
<1> QED BY <1>1, <1>2 DEF EvalInv

\* The edited groups of a raised rollout.
LEMMA RaisedGroups ==
    ASSUME EvalInv, NEW n, NEW r \in Rollouts, RaiseRollout(n, r)
    PROVE  /\ n \in 1..Len(fdef.groups) /\ r \in Nat /\ fdef.groups[n].rollout \in Nat
           /\ fdef.groups[n].rollout < r /\ fdef' \in FlagDef /\ EvalInv'
           /\ fdef' = [active |-> fdef.active, variants |-> fdef.variants, payloads |-> fdef.payloads,
                       groups |-> [fdef.groups EXCEPT ![n] = [fdef.groups[n] EXCEPT !.rollout = r]]]
<1> DEFINE g == fdef.groups
           h == [g EXCEPT ![n] = [g[n] EXCEPT !.rollout = r]]
           d == [active |-> fdef.active, groups |-> h, variants |-> fdef.variants, payloads |-> fdef.payloads]
<1>1. n \in 1..Len(g) /\ g[n].rollout # NoValue /\ r > g[n].rollout /\ Edit([fdef EXCEPT !.groups[n].rollout = r])
  BY DEF RaiseRollout
<1>2. fdef = [active |-> fdef.active, groups |-> g, variants |-> fdef.variants, payloads |-> fdef.payloads]
      /\ fdef \in FlagDef /\ g \in Seq(GroupRow) /\ fdef.active \in BOOLEAN
      /\ fdef.variants \in Seq(VariantRow(Variants)) /\ fdef.payloads \in SUBSET (Variants \cup {"true"})
  BY DEF EvalInv, FlagDef
<1>3. g[n] \in GroupRow
  BY <1>1, <1>2
<1>4. r \in Nat /\ g[n].rollout \in Nat
  BY <1>1, <1>3, RolloutsTyped DEF GroupRow
<1>5. [fdef EXCEPT !.groups[n].rollout = r] = d
  <2>1. [fdef EXCEPT !.groups[n].rollout = r] = [fdef EXCEPT !.groups = h]
    OBVIOUS
  <2> HIDE DEF h
  <2>2. [fdef EXCEPT !.groups = h] = d
    <3> DEFINE a == fdef.active
               b == fdef.variants
               c == fdef.payloads
    <3>1. fdef = [active |-> a, groups |-> g, variants |-> b, payloads |-> c]
      BY <1>2
    <3> HIDE DEF a, b, c, g
    <3> QED BY <3>1
  <2> QED BY <2>1, <2>2
<1>6. [g[n] EXCEPT !.rollout = r] \in GroupRow
  BY <1>3 DEF GroupRow
<1>7. h \in Seq(GroupRow)
  BY <1>1, <1>2, <1>6
<1> HIDE DEF h
<1>8. d \in FlagDef
  BY <1>2, <1>7 DEF FlagDef
<1>9. fdef' = d /\ EvalInv'
  BY <1>1, <1>5, <1>8, Validated
<1> QED BY <1>1, <1>4, <1>8, <1>9 DEF h

\* The edited groups of an appended condition set.
LEMMA AppendedGroups ==
    ASSUME EvalInv, NEW f \in Filters, NEW r \in Rollouts \cup {NoValue}, NEW v \in Variants \cup {NoValue},
           AppendGroup(f, r, v)
    PROVE  /\ fdef' \in FlagDef /\ EvalInv'
           /\ fdef' = [active |-> fdef.active, variants |-> fdef.variants, payloads |-> fdef.payloads,
                       groups |-> Append(fdef.groups, [properties |-> f, rollout |-> r, variant |-> v])]
<1> DEFINE x == [properties |-> f, rollout |-> r, variant |-> v]
           h == Append(fdef.groups, x)
           d == [active |-> fdef.active, groups |-> h, variants |-> fdef.variants, payloads |-> fdef.payloads]
<1>1. Edit([fdef EXCEPT !.groups = h])
  BY DEF AppendGroup
<1>2. fdef = [active |-> fdef.active, groups |-> fdef.groups, variants |-> fdef.variants, payloads |-> fdef.payloads]
      /\ fdef.groups \in Seq(GroupRow) /\ fdef.active \in BOOLEAN
      /\ fdef.variants \in Seq(VariantRow(Variants)) /\ fdef.payloads \in SUBSET (Variants \cup {"true"})
  BY DEF EvalInv, FlagDef
<1>3. x \in GroupRow
  BY DEF GroupRow
<1> HIDE DEF x
<1>4. h \in Seq(GroupRow)
  BY <1>2, <1>3
<1> HIDE DEF h
<1>5. [fdef EXCEPT !.groups = h] = d
  <2> DEFINE a == fdef.active
             b == fdef.variants
             c == fdef.payloads
             g == fdef.groups
  <2>1. fdef = [active |-> a, groups |-> g, variants |-> b, payloads |-> c]
    BY <1>2
  <2> HIDE DEF a, b, c, g
  <2>2. [fdef EXCEPT !.groups = h] = [active |-> a, groups |-> h, variants |-> b, payloads |-> c]
    BY <2>1
  <2> QED BY <2>2 DEF a, b, c
<1>6. d \in FlagDef
  BY <1>2, <1>4 DEF FlagDef
<1>7. fdef' = d /\ EvalInv'
  BY <1>1, <1>5, <1>6, Validated
<1> QED BY <1>6, <1>7 DEF h, x

\* The first definition of the flag.
LEMMA EvalStarts == EvalInit => EvalInv
<1> SUFFICES ASSUME EvalInit PROVE EvalInv
  OBVIOUS
<1>1. <<>> \in Seq(GroupRow) /\ <<>> \in Seq(VariantRow(Variants))
  OBVIOUS
<1> QED BY <1>1 DEF EvalInit, EvalInv, FlagDef, Validates

\* An edit leaves a definition that validates.
LEMMA EvalStep == EvalInv /\ [EvalNext]_evalVars => EvalInv'
<1> SUFFICES ASSUME EvalInv, [EvalNext]_evalVars PROVE EvalInv'
  OBVIOUS
<1>1. fdef = [active |-> fdef.active, groups |-> fdef.groups, variants |-> fdef.variants, payloads |-> fdef.payloads]
      /\ fdef.groups \in Seq(GroupRow) /\ fdef.active \in BOOLEAN
      /\ fdef.variants \in Seq(VariantRow(Variants)) /\ fdef.payloads \in SUBSET (Variants \cup {"true"})
  BY DEF EvalInv, FlagDef
<1>2. CASE SetActive
  <2> DEFINE d == [fdef EXCEPT !.active = ~@]
  <2>1. d = [active |-> ~fdef.active, groups |-> fdef.groups, variants |-> fdef.variants, payloads |-> fdef.payloads]
    BY <1>1
  <2>2. (~fdef.active) \in BOOLEAN
    OBVIOUS
  <2>3. d \in FlagDef
    BY <1>1, <2>1, <2>2 DEF FlagDef
  <2>4. Edit(d)
    BY <1>2 DEF SetActive
  <2> QED BY <2>3, <2>4, Validated
<1>3. ASSUME NEW n \in 1..MaxGroups, NEW r \in Rollouts, RaiseRollout(n, r) PROVE EvalInv'
  BY <1>3, RaisedGroups
<1>4. ASSUME NEW f \in Filters, NEW r \in Rollouts \cup {NoValue}, NEW v \in Variants \cup {NoValue},
             AppendGroup(f, r, v)
      PROVE  EvalInv'
  BY <1>4, AppendedGroups
<1>5. ASSUME NEW vs \in VariantLists, SetVariants(vs) PROVE EvalInv'
  <2> DEFINE d == [fdef EXCEPT !.variants = vs]
  <2>1. vs \in Seq(VariantRow(Variants))
    BY VariantsTyped
  <2>2. d \in FlagDef
    BY <1>1, <2>1 DEF FlagDef
  <2>3. Edit(d)
    BY <1>5 DEF SetVariants
  <2> QED BY <2>2, <2>3, Validated
<1>6. ASSUME NEW ks \in SUBSET (Variants \cup {"true"}), SetPayloads(ks) PROVE EvalInv'
  <2> DEFINE d == [fdef EXCEPT !.payloads = ks]
  <2>1. d \in FlagDef
    BY <1>1 DEF FlagDef
  <2>2. Edit(d)
    BY <1>6 DEF SetPayloads
  <2> QED BY <2>1, <2>2, Validated
<1>7. CASE UNCHANGED evalVars
  BY <1>7 DEF evalVars, EvalInv
<1>8. CASE \E key \in Variants \cup {"true"} : SetPayloads({key}) \/ SetPayloads({})
  BY <1>6, <1>8
<1> QED BY <1>2, <1>3, <1>4, <1>5, <1>7, <1>8 DEF EvalNext

\* The first condition set that matches.
LEMMA FirstMatches ==
    ASSUME NEW def \in FlagDef, NEW p, Matching(def, p) # {}
    PROVE  /\ FirstGroup(def, p) \in Matching(def, p)
           /\ \A n \in Matching(def, p) : (\A m \in Matching(def, p) : n <= m) => n = FirstGroup(def, p)
<1>1. def.groups \in Seq(GroupRow)
  BY DEF FlagDef
<1>2. Matching(def, p) \subseteq Nat
  BY <1>1 DEF Matching
<1> DEFINE M == Matching(def, p)
<1> HIDE DEF M
<1>3. M \subseteq Nat /\ M # {} /\ FirstGroup(def, p) = CHOOSE n \in M : \A m \in M : n <= m
  BY <1>2 DEF M, FirstGroup
<1>4. \E n \in M : \A m \in M : n <= m
  BY <1>3, LeastNatural
<1> DEFINE f == CHOOSE n \in M : \A m \in M : n <= m
<1>5. f \in M /\ \A m \in M : f <= m
  BY <1>4
<1> HIDE DEF f
<1>6. ASSUME NEW n \in M, \A m \in M : n <= m PROVE n = f
  <2>1. n <= f /\ f <= n /\ n \in Nat /\ f \in Nat
    BY <1>3, <1>5, <1>6
  <2> QED BY <2>1
<1>7. FirstGroup(def, p) = f
  BY <1>3 DEF f
<1> QED BY <1>5, <1>6, <1>7 DEF M

\* The variant a condition set gives.
GroupVariant(def, group, p) ==
    IF group.variant # NoValue /\ has_variant(def, group.variant) THEN group.variant ELSE matching_variant(def, p)

\* When a flag is on, and with which variant.
LEMMA Evaluated ==
    ASSUME NEW def \in FlagDef, NEW p
    PROVE  /\ evaluate(def, p).enabled <=> def.active /\ Matching(def, p) # {}
           /\ evaluate(def, p).enabled =>
                evaluate(def, p) = On(def, GroupVariant(def, def.groups[FirstGroup(def, p)], p))
           /\ evaluate(def, p).enabled \in BOOLEAN
           /\ ~evaluate(def, p).enabled => evaluate(def, p).variant = NoValue /\ evaluate(def, p).payload = NoValue
<1>1. def.active \in BOOLEAN
  BY DEF FlagDef
<1>2. CASE ~def.active
  <2>1. evaluate(def, p) = FlagOff("disabled")
    BY <1>2 DEF evaluate
  <2> QED BY <1>2, <2>1 DEF FlagOff
<1>3. CASE def.active /\ Matching(def, p) # {}
  <2>1. evaluate(def, p) = On(def, GroupVariant(def, def.groups[FirstGroup(def, p)], p))
    BY <1>3 DEF evaluate, GroupVariant
  <2> QED BY <1>3, <2>1 DEF On
<1>4. CASE def.active /\ Matching(def, p) = {}
  <2>1. PICK reason : evaluate(def, p) = FlagOff(reason)
    BY <1>4 DEF evaluate
  <2> QED BY <1>4, <2>1 DEF FlagOff
<1> QED BY <1>1, <1>2, <1>3, <1>4

\* A raised rollout keeps whom it had.
LEMMA RaiseAdds ==
    ASSUME EvalInv, NEW n, NEW r \in Rollouts, RaiseRollout(n, r), NEW p \in People, evaluate(fdef, p).enabled
    PROVE  evaluate(fdef', p).enabled /\ ~(Len(fdef'.groups) > Len(fdef.groups))
<1> DEFINE g == fdef.groups
           h == [g EXCEPT ![n] = [g[n] EXCEPT !.rollout = r]]
<1>1. /\ n \in 1..Len(g) /\ r \in Nat /\ g[n].rollout \in Nat /\ g[n].rollout < r /\ fdef' \in FlagDef
      /\ fdef' = [active |-> fdef.active, variants |-> fdef.variants, payloads |-> fdef.payloads, groups |-> h]
  BY RaisedGroups
<1>2. fdef \in FlagDef /\ g \in Seq(GroupRow) /\ g[n].rollout # NoValue
  BY DEF EvalInv, FlagDef, RaiseRollout
<1>3. fdef.active /\ Matching(fdef, p) # {}
  BY <1>2, Evaluated
<1>4. PICK m \in 1..Len(g) : match_group(g[m], p) = "Match"
  BY <1>3 DEF Matching
<1>5. Len(h) = Len(g) /\ fdef'.groups = h /\ fdef'.active = fdef.active
  BY <1>1, <1>2
<1>6. p.roll \in Nat /\ Fraction[g[n].rollout] \in Nat /\ Fraction[r] \in Nat /\ Fraction[g[n].rollout] <= Fraction[r]
  <2> DEFINE a == g[n].rollout
  <2>1. p.roll \in Nat
    <3>1. p.roll \in Hashes
      BY DEF People
    <3>2. p.roll \in 0..Scale
      BY <3>1, EvalAssumption DEF Places
    <3> QED BY <3>2, RolloutsTyped
  <2>2. a \in 0..Scale /\ r \in 0..Scale /\ a \in Nat /\ r \in Nat /\ a <= r
    <3>1. g[n] \in GroupRow
      BY <1>1, <1>2
    <3>2. a \in Rollouts
      BY <1>2, <3>1 DEF GroupRow
    <3> HIDE DEF a
    <3> QED BY <1>1, <3>2, RolloutsTyped DEF a
  <2> HIDE DEF a
  <2>3. a \in Sums /\ r \in Sums
    BY <2>2, ScaleInSums
  <2>4. Fraction[a] \in Nat /\ Fraction[r] \in Nat /\ Fraction[a] <= Fraction[r]
    BY <2>2, <2>3, EvalAssumption DEF Rounds
  <2> QED BY <2>1, <2>4 DEF a
<1>7. match_group(h[m], p) = "Match"
  <2>1. CASE m # n
    <3>1. h[m] = g[m]
      BY <1>2, <2>1
    <3> QED BY <1>4, <3>1
  <2>2. CASE m = n
    <3>1. g[n] \in GroupRow
      BY <1>1, <1>2
    <3>2. h[m] = [g[n] EXCEPT !.rollout = r]
      BY <1>1, <1>2, <2>2
    <3>3. h[m].properties = g[n].properties /\ h[m].rollout = r
      BY <3>1, <3>2 DEF GroupRow
    <3>4. ~(\E f \in g[n].properties : ~match_property(f, p.prop)) /\ ~(p.roll > Fraction[g[n].rollout])
      BY <1>2, <1>4, <2>2 DEF match_group
    <3>5. ~(p.roll > Fraction[r])
      BY <1>6, <3>4
    <3> QED BY <3>3, <3>4, <3>5 DEF match_group
  <2> QED BY <2>1, <2>2
<1>8. m \in Matching(fdef', p)
  <2> HIDE DEF h
  <2> QED BY <1>5, <1>7 DEF Matching
<1>9. evaluate(fdef', p).enabled
  BY <1>1, <1>3, <1>5, <1>8, Evaluated
<1>10. Len(g) \in Nat
  BY <1>2
<1> QED BY <1>5, <1>9, <1>10

\* An appended condition set changes nothing for whom the flag was on.
LEMMA AppendAdds ==
    ASSUME EvalInv, NEW f \in Filters, NEW r \in Rollouts \cup {NoValue}, NEW v \in Variants \cup {NoValue},
           AppendGroup(f, r, v), NEW p \in People, evaluate(fdef, p).enabled
    PROVE  evaluate(fdef', p).enabled /\ evaluate(fdef', p).variant = evaluate(fdef, p).variant
<1> DEFINE g == fdef.groups
           x == [properties |-> f, rollout |-> r, variant |-> v]
           h == Append(g, x)
<1>1. /\ fdef' \in FlagDef
      /\ fdef' = [active |-> fdef.active, variants |-> fdef.variants, payloads |-> fdef.payloads, groups |-> h]
  BY AppendedGroups
<1>2. fdef \in FlagDef /\ g \in Seq(GroupRow)
  BY DEF EvalInv, FlagDef
<1>3. fdef'.groups = h /\ fdef'.active = fdef.active /\ fdef'.variants = fdef.variants
  BY <1>1
<1> HIDE DEF x
<1>4. Len(g) \in Nat /\ Len(h) = Len(g) + 1 /\ \A m \in 1..Len(g) : h[m] = g[m]
  BY <1>2
<1>5. fdef.active /\ Matching(fdef, p) # {}
  BY <1>2, Evaluated
<1> HIDE DEF h
<1>6. Matching(fdef, p) \subseteq Matching(fdef', p) /\ Matching(fdef, p) \subseteq 1..Len(g)
      /\ \A m \in Matching(fdef', p) : m \in Matching(fdef, p) \/ m = Len(g) + 1
  BY <1>3, <1>4 DEF Matching
<1>7. FirstGroup(fdef, p) = FirstGroup(fdef', p) /\ FirstGroup(fdef, p) \in 1..Len(g)
  <2> DEFINE k == FirstGroup(fdef, p)
  <2>1. k \in Matching(fdef, p)
    BY <1>2, <1>5, FirstMatches
  <2>2. PICK j \in Matching(fdef, p) : \A m \in Matching(fdef, p) : j <= m
    <3>1. Matching(fdef, p) \subseteq Nat
      BY <1>6
    <3> QED BY <1>5, <3>1, LeastNatural
  <2>3. j = k
    BY <1>2, <1>5, <2>2, FirstMatches
  <2>4. \A m \in Matching(fdef', p) : j <= m
    BY <1>4, <1>6, <2>2
  <2>5. j = FirstGroup(fdef', p)
    BY <1>1, <1>6, <2>2, <2>4, FirstMatches
  <2> QED BY <1>6, <2>1, <2>3, <2>5
<1>8. evaluate(fdef', p).enabled
  BY <1>1, <1>3, <1>5, <1>6, Evaluated
<1> DEFINE k == FirstGroup(fdef, p)
<1>9. fdef'.groups[k] = g[k]
  BY <1>3, <1>4, <1>7
<1>10. evaluate(fdef, p) = On(fdef, GroupVariant(fdef, g[k], p))
       /\ evaluate(fdef', p) = On(fdef', GroupVariant(fdef', g[k], p))
  BY <1>1, <1>2, <1>7, <1>8, <1>9, Evaluated
<1>11. GroupVariant(fdef', g[k], p) = GroupVariant(fdef, g[k], p)
  BY <1>3 DEF GroupVariant, has_variant, matching_variant
<1> HIDE DEF k, g
<1>12. evaluate(fdef, p).variant = GroupVariant(fdef, g[k], p)
       /\ evaluate(fdef', p).variant = GroupVariant(fdef', g[k], p)
  BY <1>10 DEF On
<1> QED BY <1>8, <1>11, <1>12

\* Only an appended condition set makes the flag's list longer.
LEMMA Appends ==
    ASSUME EvalInv, EvalNext, Len(fdef'.groups) > Len(fdef.groups)
    PROVE  \E f \in Filters, r \in Rollouts \cup {NoValue}, v \in Variants \cup {NoValue} : AppendGroup(f, r, v)
<1>1. Len(fdef.groups) \in Nat /\ fdef \in FlagDef
  BY DEF EvalInv, FlagDef
<1>2. fdef = [active |-> fdef.active, groups |-> fdef.groups, variants |-> fdef.variants, payloads |-> fdef.payloads]
  BY <1>1 DEF FlagDef
<1>3. fdef'.groups # fdef.groups
  BY <1>1
<1>4. ~SetActive
  BY <1>2, <1>3 DEF SetActive, Edit
<1>5. ASSUME NEW vs PROVE ~SetVariants(vs) /\ ~SetPayloads(vs)
  BY <1>2, <1>3 DEF SetVariants, SetPayloads, Edit
<1>6. ASSUME NEW n \in 1..MaxGroups, NEW r \in Rollouts, RaiseRollout(n, r) PROVE FALSE
  <2>1. fdef'.groups = [fdef.groups EXCEPT ![n] = [fdef.groups[n] EXCEPT !.rollout = r]]
    BY <1>6, RaisedGroups
  <2>2. fdef.groups \in Seq(GroupRow)
    BY <1>1 DEF FlagDef
  <2>3. Len(fdef'.groups) = Len(fdef.groups)
    BY <2>1, <2>2
  <2> QED BY <1>1, <2>3
<1> QED BY <1>4, <1>5, <1>6 DEF EvalNext

\* A raised rollout and an added condition set take the flag from nobody.
LEMMA AddSteps == EvalInv /\ [EvalNext]_evalVars => [AddStep]_evalVars
<1> SUFFICES ASSUME EvalInv, EvalNext PROVE AddStep
  BY DEF evalVars
<1>1. CASE Len(fdef'.groups) > Len(fdef.groups)
  <2>1. PICK f \in Filters, r \in Rollouts \cup {NoValue}, v \in Variants \cup {NoValue} : AppendGroup(f, r, v)
    BY <1>1, Appends
  <2> QED BY <2>1, AppendAdds DEF AddStep
<1>2. CASE ~(Len(fdef'.groups) > Len(fdef.groups))
  BY <1>2, RaiseAdds DEF AddStep
<1> QED BY <1>1, <1>2

\* The variants a flag may give.
LEMMA VariantsAgree == EvalInv => VariantsPartition
<1> SUFFICES ASSUME EvalInv PROVE VariantsPartition
  OBVIOUS
<1> DEFINE vs == fdef.variants
           s == RangeStart(vs)
           p == PercentSum(vs)
           e == ExactStart(vs)
           L == Len(vs)
           hit(x) == {n \in 1..L : s[n] <= x /\ x < s[n + 1]}
<1>1. /\ vs \in Seq(VariantRow(Variants)) /\ L \in Nat /\ (vs = <<>> <=> L = 0) /\ L <= MaxVariants
      /\ vs # <<>> => p[L + 1] \in (Scale - Epsilon)..(Scale + Epsilon)
  <2>1. vs \in Seq(VariantRow(Variants)) /\ L \in Nat /\ (vs = <<>> <=> L = 0)
    BY DEF EvalInv, FlagDef
  <2>2. MaxVariants \in Nat
    BY EvalAssumption
  <2> QED BY <2>1, <2>2 DEF EvalInv, Validates
<1>2. Scale \in Nat /\ Epsilon \in Nat /\ Rounding \in Nat
  BY EvalAssumption
<1>3. \A n \in 1..(L + 1) : /\ s[n] \in Nat /\ p[n] \in Nat /\ e[n] \in Nat
                            /\ s[n] <= e[n] + 2 * (n - 1) * Rounding /\ e[n] <= s[n] + 2 * (n - 1) * Rounding
                            /\ p[n] <= e[n] + (n - 1) * Rounding
  BY <1>1, SumsNear
<1>4. ASSUME NEW x \in Nat
      PROVE  /\ \A n \in 1..L : InRange(s, n, x) => x < s[L + 1]
             /\ x < s[L + 1] => \E n \in 1..L : InRange(s, n, x)
             /\ \A n, m \in 1..L : InRange(s, n, x) /\ InRange(s, m, x) => n = m
  BY <1>1, RangesPartition
<1>5. ASSUME NEW x
      PROVE  Given(x) = IF hit(x) = {} THEN NoValue ELSE vs[CHOOSE n \in hit(x) : \A m \in hit(x) : n <= m].key
  BY DEF matching_variant, Given
<1>6. \A n \in 1..L : vs[n].key \in Variants
  <2>1. \A n \in 1..L : vs[n] \in VariantRow(Variants)
    BY <1>1
  <2> QED BY <2>1 DEF VariantRow
<1> HIDE DEF s, p, e, L, vs
<1>7. ASSUME NEW x, NEW n PROVE n \in hit(x) <=> n \in 1..L /\ InRange(s, n, x)
  BY DEF InRange
<1> HIDE DEF hit
\* A hash in the range of a variant is given that variant.
<1>8. ASSUME NEW x \in Nat, NEW n \in 1..L, InRange(s, n, x) PROVE Given(x) = vs[n].key
  <2>1. hit(x) = {n}
    BY <1>4, <1>7, <1>8
  <2>2. (CHOOSE k \in hit(x) : \A m \in hit(x) : k <= m) = n
    BY <1>1, <2>1
  <2> QED BY <1>5, <2>1, <2>2
<1>9. Places \subseteq Nat
  BY <1>2 DEF Places
<1>10. vs # <<>> => Scale <= s[L + 1] + Epsilon + 3 * L * Rounding
  <2> SUFFICES ASSUME vs # <<>> PROVE Scale <= s[L + 1] + Epsilon + 3 * L * Rounding
    OBVIOUS
  <2>1. L + 1 \in 1..(L + 1) /\ (L + 1) - 1 = L
    BY <1>1
  <2>2. /\ s[L + 1] \in Nat /\ p[L + 1] \in Nat /\ e[L + 1] \in Nat
        /\ e[L + 1] <= s[L + 1] + 2 * L * Rounding /\ p[L + 1] <= e[L + 1] + L * Rounding
    BY <1>3, <2>1
  <2> DEFINE a == L * Rounding
             x == s[L + 1]
             y == p[L + 1]
             z == e[L + 1]
  <2>3. 2 * L * Rounding = 2 * a /\ 3 * L * Rounding = 3 * a /\ a \in Nat
    BY <1>1, <1>2
  <2>4. y \in (Scale - Epsilon)..(Scale + Epsilon)
    BY <1>1
  <2>5. z <= x + 2 * a /\ y <= z + a /\ x \in Nat /\ y \in Nat /\ z \in Nat
    BY <2>2, <2>3
  <2> HIDE DEF a, x, y, z
  <2>6. Scale <= x + Epsilon + 3 * a
    BY <1>2, <2>3, <2>4, <2>5
  <2> QED BY <2>3, <2>6 DEF x
<1>11. ASSUME NEW x \in Places PROVE Given(x) = NoValue <=> x >= s[L + 1]
  <2>1. x \in Nat /\ L + 1 \in 1..(L + 1) /\ s[L + 1] \in Nat
    BY <1>1, <1>3, <1>9
  <2>2. CASE x < s[L + 1]
    <3>1. PICK n \in 1..L : InRange(s, n, x)
      BY <1>4, <2>1, <2>2
    <3>2. Given(x) \in Variants
      BY <1>6, <1>8, <2>1, <3>1
    <3>3. NoValue \notin Variants
      BY EvalAssumption
    <3> QED BY <2>1, <2>2, <3>2, <3>3
  <2>3. CASE x >= s[L + 1]
    <3>1. hit(x) = {}
      BY <1>4, <1>7, <2>1, <2>3
    <3> QED BY <1>5, <2>3, <3>1
  <2> QED BY <2>1, <2>2, <2>3
<1>12. ASSUME NEW n \in 1..L, NEW x \in Places,
              e[n] + 2 * (n - 1) * Rounding <= x, x < e[n + 1] - 2 * n * Rounding
       PROVE  Given(x) = vs[n].key
  <2>1. x \in Nat /\ n \in 1..(L + 1) /\ n + 1 \in 1..(L + 1) /\ (n + 1) - 1 = n /\ n \in Nat /\ n - 1 \in Nat
    BY <1>1, <1>9
  <2> DEFINE a == 2 * (n - 1) * Rounding
             b == 2 * n * Rounding
             s1 == s[n]
             s2 == s[n + 1]
             e1 == e[n]
             e2 == e[n + 1]
  <2>2. a \in Nat /\ b \in Nat
    <3> DEFINE k == n - 1
    <3>1. k \in Nat /\ n \in Nat
      BY <2>1
    <3> HIDE DEF k
    <3>2. 2 * k * Rounding \in Nat /\ 2 * n * Rounding \in Nat
      BY <1>2, <3>1
    <3> QED BY <3>2 DEF k
  <2>3. /\ s1 \in Nat /\ s2 \in Nat /\ e1 \in Nat /\ e2 \in Nat
        /\ s1 <= e1 + a /\ e2 <= s2 + b /\ e1 + a <= x /\ x < e2 - b
    BY <1>3, <1>12, <2>1
  <2> HIDE DEF a, b, s1, s2, e1, e2
  <2>4. s1 <= x /\ x < s2
    BY <2>1, <2>2, <2>3
  <2>5. InRange(s, n, x)
    BY <2>4 DEF s1, s2, InRange
  <2> QED BY <1>8, <2>1, <2>5
<1>13. \A x \in Places : Given(x) = NoValue <=> x >= s[L + 1]
  BY <1>11
<1>14. \A n \in 1..L, x \in Places :
          e[n] + 2 * (n - 1) * Rounding <= x /\ x < e[n + 1] - 2 * n * Rounding => Given(x) = vs[n].key
  BY <1>12
<1> QED BY <1>10, <1>13, <1>14 DEF VariantsPartition, s, e, L, vs

\* A flag gives the keys of its variants.
LEMMA GivenVariants ==
    ASSUME NEW def \in FlagDef, NEW p, evaluate(def, p).enabled
    PROVE  evaluate(def, p).variant \in Variants \cup {NoValue}
<1> DEFINE k == FirstGroup(def, p)
<1>1. def.groups \in Seq(GroupRow) /\ def.variants \in Seq(VariantRow(Variants))
  BY DEF FlagDef
<1>2. k \in 1..Len(def.groups)
  BY Evaluated, FirstMatches DEF Matching
<1>3. def.groups[k].variant \in Variants \cup {NoValue}
  <2>1. def.groups[k] \in GroupRow
    BY <1>1, <1>2
  <2> QED BY <2>1 DEF GroupRow
<1>4. matching_variant(def, p) \in Variants \cup {NoValue}
  <2> DEFINE s == RangeStart(def.variants)
             hit == {n \in 1..Len(def.variants) : s[n] <= p.pick /\ p.pick < s[n + 1]}
             first == CHOOSE n \in hit : \A m \in hit : n <= m
  <2>1. matching_variant(def, p) = IF hit = {} THEN NoValue ELSE def.variants[first].key
    BY DEF matching_variant
  <2>2. ASSUME hit # {} PROVE first \in 1..Len(def.variants)
    <3>1. hit \subseteq Nat /\ hit \subseteq 1..Len(def.variants)
      BY <1>1
    <3> HIDE DEF hit
    <3>2. \E n \in hit : \A m \in hit : n <= m
      BY <2>2, <3>1, LeastNatural
    <3>3. first \in hit
      BY <3>2
    <3> QED BY <3>1, <3>3
  <2>3. \A n \in 1..Len(def.variants) : def.variants[n].key \in Variants
    <3>1. \A n \in 1..Len(def.variants) : def.variants[n] \in VariantRow(Variants)
      BY <1>1
    <3> QED BY <3>1 DEF VariantRow
  <2> HIDE DEF hit, first
  <2> QED BY <2>1, <2>2, <2>3
<1>5. evaluate(def, p) = On(def, GroupVariant(def, def.groups[k], p))
  BY Evaluated
<1> HIDE DEF k
<1> QED BY <1>3, <1>4, <1>5 DEF On, GroupVariant

\* The filters that read no property match everybody alike.
LEMMA NoPropertyRead ==
    ASSUME NEW def \in FlagDef, ~reads_properties(def), NEW p, NEW q, p.roll = q.roll, p.pick = q.pick
    PROVE  evaluate(def, p) = evaluate(def, q)
<1>1. ASSUME NEW n \in 1..Len(def.groups) PROVE match_group(def.groups[n], p) = match_group(def.groups[n], q)
  <2>1. def.groups[n].properties = {}
    BY DEF reads_properties
  <2> QED BY <2>1 DEF match_group
<1>2. Matching(def, p) = Matching(def, q)
  BY <1>1 DEF Matching
<1>3. FirstGroup(def, p) = FirstGroup(def, q)
  BY <1>2 DEF FirstGroup
<1>4. matching_variant(def, p) = matching_variant(def, q)
  BY DEF matching_variant
<1>5. (\E n \in 1..Len(def.groups) : match_group(def.groups[n], p) = "OutOfRollout")
      <=> \E n \in 1..Len(def.groups) : match_group(def.groups[n], q) = "OutOfRollout"
  BY <1>1
<1> QED BY <1>2, <1>3, <1>4, <1>5 DEF evaluate

\* Every shape says the same of one evaluation.
LEMMA ShapesAgree ==
    ASSUME NEW def \in FlagDef, NEW p, NEW shape \in {"Detailed", "Legacy", "DecideList", "DecideMap"}
    PROVE  Agrees(evaluate(def, p), render(shape, evaluate(def, p)))
<1> DEFINE e == evaluate(def, p)
           a == render(shape, e)
           key == IF e.variant = NoValue THEN "true" ELSE e.variant
           value == IF shape = "DecideList" THEN "on" ELSE flag_value(e)
           payload == IF shape \in {"Detailed", "Legacy"} /\ e.enabled THEN e.payload ELSE NoValue
<1>1. /\ e.enabled \in BOOLEAN
      /\ ~e.enabled => e.variant = NoValue /\ e.payload = NoValue
      /\ e.enabled => e.variant \in Variants \cup {NoValue}
  BY Evaluated, GivenVariants
<1>2. ASSUME e.enabled PROVE e.payload = IF key \in def.payloads THEN key ELSE NoValue
  <2>1. PICK v : e = On(def, v)
    BY <1>2, Evaluated
  <2> HIDE DEF e
  <2> QED BY <2>1 DEF On
<1>3. a = [listed |-> shape = "DecideList" => e.enabled, value |-> value, payload |-> payload]
  BY DEF render
<1> HIDE DEF e
<1>4. "on" \notin Variants /\ "off" \notin Variants
  BY EvalAssumption
<1>5. CASE ~e.enabled /\ shape = "DecideList"
  <2>1. e.enabled = FALSE /\ payload = NoValue
    BY <1>1, <1>5
  <2>2. a = [listed |-> FALSE, value |-> value, payload |-> payload]
    BY <1>3, <1>5, <2>1
  <2> HIDE DEF a, value, payload
  <2>3. Agrees(e, a)
    BY <2>1, <2>2 DEF Agrees
  <2> QED BY <2>3 DEF a, e
<1>6. CASE ~e.enabled /\ shape # "DecideList"
  <2>1. e.enabled = FALSE /\ payload = NoValue /\ value = "off"
    BY <1>1, <1>6 DEF flag_value
  <2>2. a = [listed |-> TRUE, value |-> value, payload |-> payload]
    BY <1>3, <1>6
  <2> HIDE DEF a, value, payload
  <2>3. Agrees(e, a)
    BY <2>1, <2>2 DEF Agrees
  <2> QED BY <2>3 DEF a, e
<1>7. CASE e.enabled
  <2>1. a = [listed |-> TRUE, value |-> value, payload |-> payload] /\ e.enabled = TRUE
    BY <1>1, <1>3, <1>7
  <2>2. value # "off"
    BY <1>1, <1>4, <1>7 DEF flag_value
  <2>3. payload # NoValue => payload = IF value = "on" THEN "true" ELSE value
    <3> SUFFICES ASSUME payload # NoValue PROVE payload = IF value = "on" THEN "true" ELSE value
      OBVIOUS
    <3>1. payload = key /\ shape # "DecideList" /\ value = flag_value(e)
      BY <1>2, <1>7
    <3>2. CASE e.variant = NoValue
      BY <1>7, <3>1, <3>2 DEF flag_value
    <3>3. CASE e.variant # NoValue
      BY <1>1, <1>4, <1>7, <3>1, <3>3 DEF flag_value
    <3> QED BY <3>2, <3>3
  <2> HIDE DEF a, value, payload
  <2>4. Agrees(e, a)
    BY <2>1, <2>2, <2>3 DEF Agrees
  <2> QED BY <2>4 DEF a, e
<1> QED BY <1>1, <1>5, <1>6, <1>7 DEF e

\* A version of an endpoint is one of the four shapes.
LEMMA Selects ==
    \A endpoint \in {"flags", "decide"}, v \in 0..4 :
        select(endpoint, v) \in {"Detailed", "Legacy", "DecideList", "DecideMap"}
BY DEF select

\* The stored property is read only when it tells something.
LEMMA WireAgrees ==
    ASSUME EvalInv, NEW p \in People, NEW stored, NEW shape \in {"Detailed", "Legacy", "DecideList", "DecideMap"}
    PROVE  Agrees(evaluate(fdef, Completed(p, stored)), WireAnswer(p, stored, shape))
<1> DEFINE q == Completed(p, stored)
           o == [p EXCEPT !.prop = IF p.prop = "missing" /\ needs_person(fdef) THEN stored ELSE @]
           e == evaluate(fdef, q)
           a == WireAnswer(p, stored, shape)
<1>1. fdef \in FlagDef /\ fdef.active \in BOOLEAN
  BY DEF EvalInv, FlagDef
<1>3. p = [roll |-> p.roll, pick |-> p.pick, prop |-> p.prop]
  BY DEF People
<1>4. q.roll = p.roll /\ q.pick = p.pick /\ o.roll = p.roll /\ o.pick = p.pick
  BY <1>3 DEF Completed
<1>5. needs_person(fdef) => o = q
  BY <1>3 DEF Completed
<1>6. CASE fdef.active
  <2>1. a = render(shape, evaluate(fdef, o))
    BY <1>6 DEF WireAnswer, evaluate_wire
  <2>2. evaluate(fdef, o) = e
    <3> HIDE DEF o, q
    <3>1. CASE reads_properties(fdef)
      BY <1>5, <1>6, <3>1 DEF needs_person
    <3>2. CASE ~reads_properties(fdef)
      BY <1>1, <1>4, <3>2, NoPropertyRead
    <3> QED BY <3>1, <3>2
  <2> HIDE DEF a, q, o
  <2>3. a = render(shape, e)
    BY <2>1, <2>2
  <2>4. Agrees(e, a)
    BY <1>1, <2>3, ShapesAgree
  <2> QED BY <2>4 DEF a, q
<1>7. CASE ~fdef.active
  <2>1. a = Absent
    BY <1>7 DEF WireAnswer, evaluate_wire
  <2>2. e = FlagOff("disabled")
    BY <1>7 DEF evaluate
  <2> HIDE DEF a, e
  <2>3. Agrees(e, a)
    BY <2>1, <2>2 DEF Absent, FlagOff, Agrees
  <2> QED BY <2>3 DEF a, e, q
<1> QED BY <1>1, <1>6, <1>7

\* Every version of both endpoints answers with one of the four shapes.
LEMMA WiresAgree == EvalInv => WireAnswersAgree
<1> SUFFICES ASSUME EvalInv PROVE WireAnswersAgree
  OBVIOUS
<1>1. ASSUME NEW p \in People, NEW stored \in {"missing", "y"},
             NEW shape \in {"Detailed", "Legacy", "DecideList", "DecideMap"}
      PROVE  Agrees(evaluate(fdef, Completed(p, stored)), WireAnswer(p, stored, shape))
  BY WireAgrees
<1>2. {select(endpoint, v) : endpoint \in {"flags", "decide"}, v \in 0..4}
        \subseteq {"Detailed", "Legacy", "DecideList", "DecideMap"}
  <2> SUFFICES ASSUME NEW endpoint \in {"flags", "decide"}, NEW v \in 0..4
               PROVE  select(endpoint, v) \in {"Detailed", "Legacy", "DecideList", "DecideMap"}
    OBVIOUS
  <2> QED BY Selects
<1> SUFFICES ASSUME NEW p \in {q \in People : q.prop \in {"missing", "x"}}, NEW stored \in {"missing", "y"},
                    NEW shape \in {select(endpoint, v) : endpoint \in {"flags", "decide"}, v \in 0..4}
             PROVE  Agrees(evaluate(fdef, Completed(p, stored)), WireAnswer(p, stored, shape))
  BY DEF WireAnswersAgree
<1>3. p \in People /\ shape \in {"Detailed", "Legacy", "DecideList", "DecideMap"}
  BY <1>2
<1> QED BY <1>1, <1>3

\* The other services leave the flag's definition alone.
LEMMA EvalSteps == [ServicesNext]_servicesVars => [EvalNext]_evalVars
BY DEF ServicesNext, servicesVars, evalVars, ControlNext

\* For any variants, filters, rounding of f64 and slack of validation: the variants of
\* a flag that validate_filters stored share out the scale of matching_variant
\* (flags/eval.rs) from 0 without a hole up to an end that is below 100% by at most the
\* slack and three roundings for each variant, with nobody's share moved by more than
\* the roundings before it; and every shape of evaluate_wire (routes/flags.rs) says of
\* the flag what evaluate does with the stored property read.
THEOREM FlagAnswersHoldAlways == ServicesSpec => []FlagAnswersHold
<1>1. ServicesInit => EvalInv
  BY EvalStarts DEF ServicesInit
<1>2. EvalInv /\ [ServicesNext]_servicesVars => EvalInv'
  BY EvalSteps, EvalStep
<1>3. EvalInv => FlagAnswersHold
  BY VariantsAgree, WiresAgree DEF FlagAnswersHold
<1> QED BY <1>1, <1>2, <1>3, PTL DEF ServicesSpec

\* A raised rollout or an added condition set turns evaluate (flags/eval.rs) off for
\* nobody, and an added one leaves everybody who had a value with the same variant.
THEOREM RolloutOnlyAddsAlways == ServicesSpec => RolloutOnlyAdds
<1>1. ServicesInit => EvalInv
  BY EvalStarts DEF ServicesInit
<1>2. EvalInv /\ [ServicesNext]_servicesVars => EvalInv'
  BY EvalSteps, EvalStep
<1>3. EvalInv /\ [ServicesNext]_servicesVars => [AddStep]_evalVars
  BY EvalSteps, AddSteps
<1> QED BY <1>1, <1>2, <1>3, PTL DEF ServicesSpec, RolloutOnlyAdds
=============================================================================
