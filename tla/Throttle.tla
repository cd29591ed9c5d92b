------------------------------ MODULE Throttle ------------------------------
(***************************************************************************)
(* The sign-in throttle (src/src/security.rs LoginThrottle): a bounded     *)
(* table of failures per email, with a doubling delay, and one per source, *)
(* with a cap.  A sign-in checks, hashes the password without the lock,    *)
(* and then records the outcome: attempts overlap.                         *)
(***************************************************************************)
EXTENDS Integers, FiniteSets

CONSTANTS
    Emails, Sources,
    FreeFailures, MaxDelay, EmailWindow,   \* EMAIL_FREE_FAILURES, EMAIL_MAX_DELAY, EMAIL_WINDOW
    SourceMaxFailures, SourceWindow,       \* SOURCE_MAX_FAILURES, SOURCE_WINDOW
    MaxKeysTracked,                        \* MAX_TRACKED
    MaxOverlap, LastMoment                \* bounds: overlapping attempts, the clock

ASSUME ThrottleAssumption ==
    {FreeFailures, MaxDelay, EmailWindow, SourceMaxFailures, SourceWindow,
     MaxKeysTracked, MaxOverlap, LastMoment} \subseteq Nat \ {0}

VARIABLES
    moment,     \* the clock
    emails,     \* email -> Entry, a partial function
    sources,    \* source -> Entry
    hashing     \* attempts past the check: <<email, source, n>>

throttleVars == <<moment, emails, sources, hashing>>

Never == -1
NoSource == "none"      \* the peer is the proxy, and names no client
NewEntry == [failures |-> 0, since |-> moment, until |-> Never]

\* (NoEviction: a full table takes another entry.)
NoEviction(table, key, win) == [k \in DOMAIN table \union {key} |-> IF k \in DOMAIN table THEN table[k] ELSE NewEntry]

\* A full table forgets what its window has passed, else its oldest entry.
insert_bounded(table, key, win) ==
    LET full == key \notin DOMAIN table /\ Cardinality(DOMAIN table) >= MaxKeysTracked
        live == {k \in DOMAIN table : moment - table[k].since < win \/ table[k].until > moment}
        oldest == CHOOSE k \in live : \A j \in live : table[k].since <= table[j].since
        kept == IF ~full THEN DOMAIN table
                ELSE IF Cardinality(live) >= MaxKeysTracked THEN live \ {oldest} ELSE live
    IN  [k \in kept \union {key} |-> IF k \in kept THEN table[k] ELSE NewEntry]

Smaller(a, b) == IF a < b THEN a ELSE b

\* (Uncapped: the delay doubles without a ceiling.)
Uncapped(failures) == 2 ^ (failures - FreeFailures)

\* 1 s, doubling; the shift stops at 6, the delay at EMAIL_MAX_DELAY.
delay(failures) == Smaller(2 ^ Smaller(failures - FreeFailures, 6), MaxDelay)

EmailFailed(e) ==
    LET table == insert_bounded(emails, e, EmailWindow)
        entry == IF moment - table[e].since >= EmailWindow
                 THEN [table[e] EXCEPT !.failures = 0, !.since = moment] ELSE table[e]
        n     == entry.failures + 1
    IN  [table EXCEPT ![e] = [entry EXCEPT !.failures = n,
            !.until = IF n >= FreeFailures THEN moment + delay(n) ELSE @]]

SourceFailed(s) ==
    LET table == insert_bounded(sources, s, SourceWindow)
        entry == IF moment - table[s].since >= SourceWindow THEN NewEntry ELSE table[s]
        n     == entry.failures + 1
    IN  [table EXCEPT ![s] = [entry EXCEPT !.failures = n,
            !.until = IF n >= SourceMaxFailures THEN entry.since + SourceWindow ELSE @]]

Blocked(table, key) == key \in DOMAIN table /\ table[key].until > moment

\* check: refused attempts are not hashed.
check(e, s) ==
    /\ ~Blocked(emails, e) /\ ~Blocked(sources, s)
    /\ \E n \in 1 .. MaxOverlap :
         /\ \A a \in hashing : a[3] # n
         /\ hashing' = hashing \union {<<e, s, n>>}
    /\ UNCHANGED <<moment, emails, sources>>

record_failure(a) ==
    /\ emails' = EmailFailed(a[1])
    /\ sources' = IF a[2] = NoSource THEN sources ELSE SourceFailed(a[2])
    /\ hashing' = hashing \ {a}
    /\ UNCHANGED moment

\* The email's failures are forgotten, the source's are not.
record_success(a) ==
    /\ emails' = [k \in DOMAIN emails \ {a[1]} |-> emails[k]]
    /\ hashing' = hashing \ {a}
    /\ UNCHANGED <<moment, sources>>

\* Any other error, and a client that left: nothing is recorded.
AttemptForgotten(a) == hashing' = hashing \ {a} /\ UNCHANGED <<moment, emails, sources>>

\* LastMoment bounds the clock.
MomentPasses ==
    /\ moment < LastMoment /\ moment' = moment + 1
    /\ UNCHANGED <<emails, sources, hashing>>

ThrottleInit == moment = 0 /\ emails = <<>> /\ sources = <<>> /\ hashing = {}

ThrottleNext ==
    \/ \E e \in Emails, s \in Sources \union {NoSource} : check(e, s)
    \/ \E a \in hashing : record_failure(a) \/ record_success(a) \/ AttemptForgotten(a)
    \/ MomentPasses

ThrottleSpec == ThrottleInit /\ [][ThrottleNext]_throttleVars

\* However attempts overlap, an owner never waits longer than EMAIL_MAX_DELAY for
\* their email, no source is refused past the window its failures fell in, and
\* the tables stay bounded (security.rs LoginThrottle, insert_bounded).
WaitsAreBounded ==
    /\ \A e \in DOMAIN emails : emails[e].until - moment <= MaxDelay
    /\ \A s \in DOMAIN sources : sources[s].until - sources[s].since <= SourceWindow
                                 /\ sources[s].until - moment <= SourceWindow
    /\ Cardinality(DOMAIN emails) <= MaxKeysTracked
    /\ Cardinality(DOMAIN sources) <= MaxKeysTracked
=============================================================================
