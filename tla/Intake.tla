------------------------------- MODULE Intake -------------------------------
(***************************************************************************)
(* The capture edge: the handler of src/src/capture/mod.rs from the body   *)
(* to the acknowledgement, with what it shares between requests (decode    *)
(* gate, parse budget, token cache, rate limiter, writer queue).           *)
(*                                                                         *)
(* A request is a future: it stops at each await, and a client that leaves *)
(* drops it there, with the permits it holds.  What it handed to another   *)
(* thread (a decode, a queued batch) goes on without it.                   *)
(***************************************************************************)
EXTENDS Integers, Sequences, FiniteSets, FiniteSetsExt

CONSTANTS
    Callers,        \* requests
    Bodies,         \* the bodies they may send, see BodyType
    CaptureTokens,  \* tokens of the projects that exist or will exist
    NoToken,        \* an event that names no token
    MaxDecodes,     \* MAX_CONCURRENT_DECODES
    ParseBudget,    \* PARSE_BUDGET_BYTES, in events
    QueueEventsMax, \* QUEUE_BYTES, in events
    MaxPerSecond,   \* DEFAULT_MAX_PER_SEC
    MaxTracked,     \* MAX_TRACKED_TOKENS
    AcceptTtl, RejectTtl, \* TOKEN_CACHE_ACCEPT_TTL, TOKEN_CACHE_REJECT_TTL
    CacheTokens,    \* TOKEN_CACHE_ENTRIES
    EndOfSeconds    \* bound: seconds the clock runs

\* expands: may_expand; decodes: what decode_limited returns; batchToken: the token
\* of a batch-shaped body; events: raw events, `good` unless resolve_event refuses it.
BodyType ==
    [expands : BOOLEAN, decodes : {"text", "undecodable", "too_large"},
     batchToken : CaptureTokens \union {NoToken},
     events : Seq([token : CaptureTokens \union {NoToken},
                   shape : {"good", "malformed", "performance"}])]

ASSUME IntakeAssumption ==
    /\ IsFiniteSet(Callers)
    /\ Bodies \subseteq BodyType /\ NoToken \notin CaptureTokens
    /\ {MaxDecodes, ParseBudget, QueueEventsMax, MaxPerSecond, MaxTracked} \subseteq Nat \ {0}
    /\ {AcceptTtl, RejectTtl, CacheTokens, EndOfSeconds} \subseteq Nat

VARIABLES
    second,     \* the wall clock
    requests,   \* where each request is
    decoding,   \* requests whose decode runs on the blocking pool
    tokenCache, \* token -> [known, at]: the authorizer's cache
    registered, \* tokens of the projects control.db has
    window,     \* the limiter: [second, counts]
    writerQueue,\* batches in the writer's channel
    durable,    \* batches in the WAL: [by, projects, count]
    mirrored    \* requests whose events were offered to the forwarder

intakeVars == <<second, requests, decoding, tokenCache, registered, window,
                writerQueue, durable, mirrored>>

Idle == [at |-> "idle"]
Where(r) == requests[r].at
Go(r, to) == requests' = [requests EXCEPT ![r].at = to]

Request(body, at, status) ==
    [at |-> at, status |-> status, body |-> body, now |-> second, limited |-> FALSE,
     projects |-> {}, asked |-> NoToken, found |-> FALSE]

\* The response; what only the pending request needs is gone.
Answer(r, status) ==
    requests' = [requests EXCEPT ![r].at = "done", ![r].status = status,
                                 ![r].projects = {}, ![r].asked = NoToken, ![r].found = FALSE]

-----------------------------------------------------------------------------
(* Parsing (capture/event.rs). *)

\* The batch's token wins over the event's.
resolve_token(body, e) == IF body.batchToken # NoToken THEN body.batchToken ELSE e.token

\* $performance_event is dropped silently.
Kept(body) == {i \in DOMAIN body.events : body.events[i].shape # "performance"}

\* One bad event refuses the batch, in the order of the events.
parse_body(body) ==
    LET bad == {i \in Kept(body) : \/ body.events[i].shape = "malformed"
                                   \/ resolve_token(body, body.events[i]) = NoToken}
    IN  IF bad = {} THEN "parsed"
        ELSE IF resolve_token(body, body.events[Min(bad)]) = NoToken THEN "401" ELSE "400"

TokensOf(body) == {resolve_token(body, body.events[i]) : i \in Kept(body)}
CountOf(body, t) == Cardinality({i \in Kept(body) : resolve_token(body, body.events[i]) = t})
SizeOf(body) == Cardinality(Kept(body))
CostOf(body) == Min({SizeOf(body) + 1, ParseBudget})

-----------------------------------------------------------------------------
(* What the requests hold. *)

GateHeld == Cardinality({r \in Callers : Where(r) = "decoding"})
BudgetHolders == {r \in Callers : Where(r) \in {"authorize", "access", "admitted", "acking", "acked", "failed"}}
BudgetHeld == FoldSet(LAMBDA r, n : n + CostOf(requests[r].body), 0, BudgetHolders)
QueueHeld == FoldSet(LAMBDA k, n : n + SizeOf(writerQueue[k].body), 0, DOMAIN writerQueue)

-----------------------------------------------------------------------------
(* The handler, await by await. *)

Undecoded(body) == IF body.decodes = "too_large" THEN "413" ELSE "400"

\* Before the first await: anything that cannot expand is decoded in line.
Arrive(r, body) ==
    /\ Where(r) = "idle"
    /\ requests' = [requests EXCEPT ![r] =
         IF body.expands THEN Request(body, "gate", "none")
         ELSE IF body.decodes = "text" THEN Request(body, "budget", "none")
         ELSE Request(body, "done", Undecoded(body))]
    /\ UNCHANGED <<second, decoding, tokenCache, registered, window, writerQueue, durable, mirrored>>

\* DECODE_GATE.acquire, then spawn_blocking.
EnterGate(r) ==
    /\ Where(r) = "gate" /\ GateHeld < MaxDecodes
    /\ Go(r, "decoding")
    /\ decoding' = decoding \union {r}
    /\ UNCHANGED <<second, tokenCache, registered, window, writerQueue, durable, mirrored>>

\* The blocking task ends; the request, if it is still there, drops the gate.
DecodeEnds(r) ==
    /\ r \in decoding
    /\ decoding' = decoding \ {r}
    /\ LET body == requests[r].body IN
       IF Where(r) # "decoding" THEN UNCHANGED requests
       ELSE IF body.decodes = "text" THEN Go(r, "budget")
       ELSE Answer(r, Undecoded(body))
    /\ UNCHANGED <<second, tokenCache, registered, window, writerQueue, durable, mirrored>>

\* PARSE_BUDGET.acquire_many, then `now`, the parse (of a body over 64 KiB on the
\* blocking pool) and the enrichment, which touch nothing shared.  An empty batch
\* is a success.
Reserve(r) ==
    /\ Where(r) = "budget"
    /\ BudgetHeld + CostOf(requests[r].body) <= ParseBudget
    /\ LET body == requests[r].body
           parsed == parse_body(body)
       IN  requests' = [requests EXCEPT ![r] =
             IF parsed # "parsed" THEN Request(body, "done", parsed)
             ELSE IF Kept(body) = {} THEN Request(body, "done", "200")
             ELSE Request(body, "authorize", "none")]
    /\ UNCHANGED <<second, decoding, tokenCache, registered, window, writerQueue, durable, mirrored>>

\* PARSE_BUDGET_WAIT passes first.
BudgetTimeout(r) ==
    /\ Where(r) = "budget"
    /\ BudgetHeld + CostOf(requests[r].body) > ParseBudget
    /\ Answer(r, "503")
    /\ UNCHANGED <<second, decoding, tokenCache, registered, window, writerQueue, durable, mirrored>>

\* The decision the cache still holds for a token: "yes", "no", or "none".
cached(t) ==
    LET e == tokenCache[t]
    IN  IF e.known = "none" THEN "none"
        ELSE IF second - e.at < (IF e.known = "yes" THEN AcceptTtl ELSE RejectTtl) THEN e.known
        ELSE "none"

\* remember: expired entries go when the table is full, all of them when that
\* does not help.
remember(t, known) ==
    LET entries == {u \in CaptureTokens : tokenCache[u].known # "none"}
        fresh   == {u \in entries : cached(u) # "none"}
        kept    == IF Cardinality(entries) < CacheTokens THEN entries
                   ELSE IF Cardinality(fresh) < CacheTokens THEN fresh ELSE {}
    IN  [u \in CaptureTokens |->
           IF u = t THEN [known |-> known, at |-> second]
           ELSE IF u \in kept THEN tokenCache[u] ELSE [known |-> "none", at |-> 0]]

Unauthorized(r) == {t \in TokensOf(requests[r].body) : t \notin requests[r].projects}

\* (FirstTokenOnly: the batch inherits the first token's authorization.)
FirstTokenOnly(r) == IF requests[r].projects = {} THEN Unauthorized(r) ELSE {}

\* The distinct tokens still to be authorized, each before any durable write.
Pending(r) == Unauthorized(r)

\* authorize, answered by the cache: no await.
AuthorizeCached(r) ==
    /\ Where(r) = "authorize"
    /\ \E t \in Pending(r) :
         \/ cached(t) = "yes" /\ requests' = [requests EXCEPT ![r].projects = @ \union {t}]
         \/ cached(t) = "no" /\ Answer(r, "401")
    /\ UNCHANGED <<second, decoding, tokenCache, registered, window, writerQueue, durable, mirrored>>

\* authorize_capture on the control worker; another request may run meanwhile.
AskAccess(r) ==
    /\ Where(r) = "authorize"
    /\ \E t \in Pending(r) :
         /\ cached(t) = "none"
         /\ requests' = [requests EXCEPT ![r].at = "access", ![r].asked = t,
                                          ![r].found = t \in registered]
    /\ UNCHANGED <<second, decoding, tokenCache, registered, window, writerQueue, durable, mirrored>>

AccessAnswers(r) ==
    /\ Where(r) = "access"
    /\ LET t == requests[r].asked IN
       \/ /\ requests[r].found
          /\ tokenCache' = remember(t, "yes")
          /\ requests' = [requests EXCEPT ![r].at = "authorize", ![r].asked = NoToken,
                                           ![r].found = FALSE, ![r].projects = @ \union {t}]
       \/ /\ ~ requests[r].found
          /\ tokenCache' = remember(t, "no")
          /\ Answer(r, "401")
       \/ /\ Answer(r, "401")           \* the control plane is unavailable: fail closed
          /\ UNCHANGED tokenCache
    /\ UNCHANGED <<second, decoding, registered, window, writerQueue, durable, mirrored>>

-----------------------------------------------------------------------------
(* The limiter (ratelimit.rs) and the sink's queue (sink.rs append). *)

\* (NeverReset: the table is not cleared when the second changes.)
NeverReset(w, now) == [second |-> now, counts |-> w.counts]

\* The whole table resets when the second is another.
WindowAt(w, now) ==
    IF now # w.second THEN [second |-> now, counts |-> [t \in CaptureTokens |-> 0]] ELSE w

Tracked(w) == {t \in CaptureTokens : w.counts[t] > 0}

allow(w, t, n, now) ==
    LET v == WindowAt(w, now)
    IN  IF Cardinality(Tracked(v)) >= MaxTracked /\ v.counts[t] = 0 THEN [ok |-> TRUE, w |-> v]
        ELSE [ok |-> v.counts[t] + n <= MaxPerSecond,
              w |-> [v EXCEPT !.counts[t] = @ + n]]

\* The tokens in order, stopping at the first refusal.
LimitBatch(r) ==
    LET body == requests[r].body
        step(t, acc) == IF ~acc.ok THEN acc
                        ELSE LET a == allow(acc.w, t, CountOf(body, t), requests[r].now) IN a
    IN  FoldSet(step, [ok |-> TRUE, w |-> window], TokensOf(body))

\* No await from the limiter to the channel: allow, try_acquire, try_send.
Submit(r) ==
    /\ Where(r) = "authorize" /\ Pending(r) = {}
    /\ LET limit == LimitBatch(r)
           body  == requests[r].body
           room  == QueueHeld + SizeOf(body) <= QueueEventsMax
       IN  /\ window' = limit.w
           /\ requests' = [requests EXCEPT ![r].limited = TRUE, ![r].projects = {},
                ![r].at = IF limit.ok /\ room THEN "acking" ELSE "done",
                ![r].status = IF ~limit.ok THEN "429" ELSE IF ~room THEN "503" ELSE "none"]
           /\ writerQueue' = IF limit.ok /\ room
                             THEN Append(writerQueue, [by |-> r, body |-> body, projects |-> requests[r].projects])
                             ELSE writerQueue
    /\ UNCHANGED <<second, decoding, tokenCache, registered, durable, mirrored>>

\* The writer thread takes the next batch: durable and acknowledged, or refused.
WriterTakes ==
    /\ writerQueue # <<>>
    /\ LET b == Head(writerQueue) IN
       \E outcome \in {"acked", "failed"}, written \in BOOLEAN :
         /\ outcome = "acked" => written         \* a failed write may still be on disk
         /\ durable' = IF written THEN durable \union {b} ELSE durable
         /\ requests' = IF Where(b.by) = "acking" THEN [requests EXCEPT ![b.by].at = outcome] ELSE requests
    /\ writerQueue' = Tail(writerQueue)
    /\ UNCHANGED <<second, decoding, tokenCache, registered, window, mirrored>>

\* The acknowledgement arrives: only now are the events offered to the forwarder.
\* (A record the WAL never takes is a 400; the properties only see a refusal.)
Respond(r) ==
    /\ Where(r) \in {"acked", "failed"}
    /\ mirrored' = IF Where(r) = "acked" THEN mirrored \union {r} ELSE mirrored
    /\ Answer(r, IF Where(r) = "acked" THEN "200" ELSE "503")
    /\ UNCHANGED <<second, decoding, tokenCache, registered, window, writerQueue, durable>>

-----------------------------------------------------------------------------
(* Around it. *)

\* The client leaves: the future is dropped at its await.
Disconnect(r) ==
    /\ Where(r) \notin {"idle", "done"}
    /\ Answer(r, "gone")
    /\ UNCHANGED <<second, decoding, tokenCache, registered, window, writerQueue, durable, mirrored>>

Register(t) ==
    /\ t \notin registered
    /\ registered' = registered \union {t}
    /\ UNCHANGED <<second, requests, decoding, tokenCache, window, writerQueue, durable, mirrored>>

SecondPasses ==
    /\ second < EndOfSeconds
    /\ second' = second + 1
    /\ UNCHANGED <<requests, decoding, tokenCache, registered, window, writerQueue, durable, mirrored>>

\* All answered: the next callers come, to an edge that has drained.
NextCallers ==
    /\ \A r \in Callers : Where(r) = "done"
    /\ decoding = {} /\ writerQueue = <<>> /\ registered = CaptureTokens /\ second = EndOfSeconds
    /\ requests' = [r \in Callers |-> Idle]
    /\ second' = 0 /\ registered' = {} /\ durable' = {} /\ mirrored' = {}
    /\ tokenCache' = [t \in CaptureTokens |-> [known |-> "none", at |-> 0]]
    /\ window' = [second |-> 0, counts |-> [t \in CaptureTokens |-> 0]]
    /\ UNCHANGED <<decoding, writerQueue>>

IntakeInit ==
    /\ second = 0
    /\ requests = [r \in Callers |-> Idle]
    /\ decoding = {} /\ registered = {}
    /\ tokenCache = [t \in CaptureTokens |-> [known |-> "none", at |-> 0]]
    /\ window = [second |-> 0, counts |-> [t \in CaptureTokens |-> 0]]
    /\ writerQueue = <<>> /\ durable = {} /\ mirrored = {}

capture(r) ==
    \/ \E body \in Bodies : Arrive(r, body)
    \/ EnterGate(r) \/ DecodeEnds(r) \/ Reserve(r) \/ BudgetTimeout(r)
    \/ AuthorizeCached(r) \/ AskAccess(r) \/ AccessAnswers(r)
    \/ Submit(r) \/ Respond(r) \/ Disconnect(r)

IntakeNext ==
    \/ \E r \in Callers : capture(r)
    \/ WriterTakes \/ SecondPasses \/ NextCallers
    \/ \E t \in CaptureTokens : Register(t)

-----------------------------------------------------------------------------
(* Properties. *)

\* What is durable was authorized in full, each event under its own token's
\* project, never under the first token's; a request that was refused left
\* nothing behind; a request that was acknowledged is durable; and only durable
\* events are mirrored (capture/mod.rs capture, authorize).
StoredWholeAndOwn ==
    /\ \A b \in durable : b.projects = TokensOf(b.body) /\ b.projects \subseteq registered
    /\ \A r \in Callers : Where(r) = "done" =>
         LET mine == {b \in durable : b.by = r} IN
         /\ requests[r].status \in {"400", "401", "413", "429"} => mine = {}
         /\ requests[r].status = "200" /\ Kept(requests[r].body) # {} => mine # {}
    /\ mirrored \subseteq {b.by : b \in durable}

\* The requests of a second the limiter has seen, and their events for a token.
Limited(s) == {q \in Callers : Where(q) # "idle" /\ requests[q].limited /\ requests[q].now = s}
EventsLimited(t, s) ==
    SumFunction([q \in Limited(s) |-> CountOf(requests[q].body, t)])

\* The limiter refuses a batch only when its second's requests for one of its
\* tokens exceed the ceiling: no count of another second is left in the table
\* (ratelimit.rs allow).
LimiterSparesTheQuiet ==
    \A r \in Callers : Where(r) = "done" /\ requests[r].status = "429" =>
        \E t \in TokensOf(requests[r].body) :
            EventsLimited(t, requests[r].now) > MaxPerSecond

\* At most MAX_CONCURRENT_DECODES bodies are decoded at a time (mod.rs:201,
\* "Decodes that can expand run on the blocking pool, this many at a time").  It
\* does not hold: a client that leaves frees the permit, and its decode runs on.
DecodesBounded == Cardinality(decoding) <= MaxDecodes

\* The events accepted for a token with one second's timestamp stay within the
\* ceiling (ratelimit.rs:15, "per-token events/second ceiling").  It does not hold
\* with three callers: a request that took its time earlier opens the window anew.
RateCeiling ==
    \A t \in CaptureTokens, s \in 0 .. EndOfSeconds :
        FoldSet(LAMBDA b, n : n + CountOf(b.body, t), 0,
                {b \in durable : requests[b.by].now = s}) <= MaxPerSecond

=============================================================================
