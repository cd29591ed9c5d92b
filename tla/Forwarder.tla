----------------------------- MODULE Forwarder -----------------------------
(***************************************************************************)
(* Shadow mode: src/src/forward.rs.  Acknowledged events of a project are  *)
(* offered to a bounded queue; one thread sends them to PostHog in         *)
(* batches, with retries.  Events are numbered in the order in which they  *)
(* are offered.  A configuration is the host it names, or off, in the map  *)
(* the threads read; its row in control.db is read at startup only.        *)
(***************************************************************************)
EXTENDS Integers, Sequences, FiniteSets, SequencesExt

CONSTANTS
    FwdProjects, FwdHosts,
    QueueEvents,          \* QUEUE_EVENTS
    BatchEvents,          \* BATCH_EVENTS
    MaxAttempts,          \* MAX_ATTEMPTS
    MaxEvents             \* bound: events ever offered

ASSUME FwdAssumption ==
    /\ IsFiniteSet(FwdProjects)
    /\ {QueueEvents, MaxAttempts, MaxEvents} \subseteq Nat /\ BatchEvents \in Nat \ {0}

VARIABLES
    fconfig,    \* configs: the map in memory
    fqueue,     \* items of (project, events), and stopped
    fwork,      \* the forwarder thread
    fcount,     \* per project: forwarded, dropped, failed; and skipped, which nobody counts
    fposthog    \* what PostHog received: (host, project, event), in order

fwdVars == <<fconfig, fqueue, fwork, fcount, fposthog>>

Off == "off"
Waiting == [pc |-> "waiting"]
QueuedEvents(items) == SumFunction([k \in DOMAIN items |-> Len(items[k].events)])
Offered == SumFunction([p \in FwdProjects |-> fcount[p].offered])

-----------------------------------------------------------------------------
(* The capture path and the settings page.                                  *)

Count(p, what, n) == fcount' = [fcount EXCEPT ![p][what] = @ + n]

\* (OfferUnlessFull: the limit is met before the events are added.)
OfferUnlessFull(p, n) ==
    /\ Offered + n <= MaxEvents
    /\ fconfig[p] # Off /\ QueuedEvents(fqueue.items) < QueueEvents
    /\ fqueue' = [fqueue EXCEPT !.items = Append(@, [project |-> p, events |-> [k \in 1..n |-> Offered + k]])]
    /\ Count(p, "offered", n)
    /\ UNCHANGED <<fconfig, fwork, fposthog>>

\* offer: after the acknowledgement; off, and a full queue, never delay it.
offer(p, n) ==
    /\ Offered + n <= MaxEvents
    /\ LET events == [k \in 1..n |-> Offered + k]
           full == QueuedEvents(fqueue.items) + n > QueueEvents
           enabled == fconfig[p] # Off
       IN /\ fqueue' = IF enabled /\ ~full
                       THEN [fqueue EXCEPT !.items = Append(@, [project |-> p, events |-> events])]
                       ELSE fqueue
          /\ fcount' = [fcount EXCEPT ![p].offered = @ + n,
                                      ![p].dropped = IF enabled /\ full THEN @ + n ELSE @,
                                      ![p].skipped = IF enabled THEN @ ELSE @ + n]
    /\ UNCHANGED <<fconfig, fwork, fposthog>>

\* set_config: the row is written before, under another lock, so that requests may
\* reach the map in another order than control.db.
set_config(p, config) ==
    /\ fconfig' = [fconfig EXCEPT ![p] = config]
    /\ UNCHANGED <<fqueue, fwork, fcount, fposthog>>

stop ==
    /\ fqueue' = [fqueue EXCEPT !.stopped = TRUE]
    /\ UNCHANGED <<fconfig, fwork, fcount, fposthog>>

-----------------------------------------------------------------------------
(* The thread.                                                              *)

\* Pop one item and read its project's configuration, which is kept for all of
\* the item's batches; an item of a project that is off by now is forgotten.
TakeItem ==
    /\ fwork = Waiting /\ fqueue.items # <<>>
    /\ LET item == Head(fqueue.items)
           config == fconfig[item.project]
       IN IF config = Off
          THEN fwork' = Waiting /\ Count(item.project, "skipped", Len(item.events))
          ELSE /\ fwork' = [pc |-> "sending", project |-> item.project, rest |-> item.events,
                            host |-> config, attempt |-> 1]
               /\ UNCHANGED fcount
    /\ fqueue' = [fqueue EXCEPT !.items = Tail(@)]
    /\ UNCHANGED <<fconfig, fposthog>>

ThreadEnds ==
    /\ fwork = Waiting /\ fqueue.items = <<>> /\ fqueue.stopped
    /\ fwork' = [pc |-> "ended"]
    /\ UNCHANGED <<fconfig, fqueue, fcount, fposthog>>

Chunk == SubSeq(fwork.rest, 1, IF Len(fwork.rest) < BatchEvents THEN Len(fwork.rest) ELSE BatchEvents)
AfterChunk ==
    LET rest == SubSeq(fwork.rest, Len(Chunk) + 1, Len(fwork.rest))
    IN IF rest = <<>> THEN Waiting ELSE [fwork EXCEPT !.rest = rest, !.attempt = 1]

\* (RetryLater: a batch that failed goes to the end of the queue.)
RetryLater(received, answer) ==
    /\ fwork.pc = "sending"
    /\ fposthog' = IF received
                   THEN fposthog \o [k \in 1..Len(Chunk) |->
                          [host |-> fwork.host, project |-> fwork.project, event |-> Chunk[k]]]
                   ELSE fposthog
    /\ fwork' = AfterChunk
    /\ fqueue' = IF answer = "retry"
                 THEN [fqueue EXCEPT !.items = Append(@, [project |-> fwork.project, events |-> Chunk])]
                 ELSE fqueue
    /\ IF answer = "ok" THEN Count(fwork.project, "forwarded", Len(Chunk))
       ELSE IF answer = "refused" THEN Count(fwork.project, "failed", Len(Chunk)) ELSE UNCHANGED fcount
    /\ UNCHANGED fconfig

\* One attempt of send.  Whether PostHog took the batch and what the thread learns
\* are two things: 2xx, a final status, or 429, 5xx and a lost answer.
send(received, answer) ==
    /\ fwork.pc = "sending" /\ (answer = "ok" => received)
    /\ fposthog' = IF received
                   THEN fposthog \o [k \in 1..Len(Chunk) |->
                          [host |-> fwork.host, project |-> fwork.project, event |-> Chunk[k]]]
                   ELSE fposthog
    /\ CASE answer = "ok" -> fwork' = AfterChunk /\ Count(fwork.project, "forwarded", Len(Chunk))
         [] answer = "retry" /\ fwork.attempt < MaxAttempts ->
               fwork' = [fwork EXCEPT !.attempt = @ + 1] /\ UNCHANGED fcount
         [] OTHER -> fwork' = AfterChunk /\ Count(fwork.project, "failed", Len(Chunk))
    /\ UNCHANGED <<fconfig, fqueue>>

-----------------------------------------------------------------------------
FwdInit ==
    /\ fconfig = [p \in FwdProjects |-> Off]
    /\ fqueue = [items |-> <<>>, stopped |-> FALSE]
    /\ fwork = Waiting
    /\ fcount = [p \in FwdProjects |->
                   [offered |-> 0, forwarded |-> 0, dropped |-> 0, failed |-> 0, skipped |-> 0]]
    /\ fposthog = <<>>

FwdNext ==
    \/ stop \/ TakeItem \/ ThreadEnds
    \/ \E p \in FwdProjects : \/ \E n \in 1..(BatchEvents + 1) : offer(p, n)
                              \/ \E c \in FwdHosts \cup {Off} : set_config(p, c)
    \/ \E received \in BOOLEAN, answer \in {"ok", "retry", "refused"} : send(received, answer)

FwdSpec == FwdInit /\ [][FwdNext]_fwdVars

-----------------------------------------------------------------------------
(* Properties.                                                              *)

InThread(p) == IF fwork.pc = "sending" /\ fwork.project = p THEN Len(fwork.rest) ELSE 0
InQueue(p) ==
    SumFunction([k \in DOMAIN fqueue.items |->
                   IF fqueue.items[k].project = p THEN Len(fqueue.items[k].events) ELSE 0])

\* Every acknowledged event is counted once: forwarded, failed, dropped, queued, in the
\* thread's hands, or left out because forwarding was off; the queue keeps its limit,
\* and what counts as forwarded was received (offer, run and the chunks of an item).
EveryEventCounted ==
    /\ \A p \in FwdProjects :
          fcount[p].offered = fcount[p].forwarded + fcount[p].failed + fcount[p].dropped
                              + fcount[p].skipped + InQueue(p) + InThread(p)
    /\ QueuedEvents(fqueue.items) <= QueueEvents
    /\ \A p \in FwdProjects :
          fcount[p].forwarded <= Cardinality({x.event : x \in {y \in ToSet(fposthog) : y.project = p}})

\* PostHog gets a project's events in the order in which they were offered: a repeated
\* batch repeats whole, and nothing overtakes it, over any retries, drops and changes
\* of the settings.
ForwardedInOrder ==
    \A i, j \in 1..Len(fposthog) :
        /\ i < j /\ fposthog[i].project = fposthog[j].project
        /\ fposthog[j].event < fposthog[i].event
        => \E k \in 1..(i - 1) : fposthog[k] = fposthog[j]

\* The bridge to PostHog loses nothing silently and keeps the order (forward.rs).
ForwardingHolds == EveryEventCounted /\ ForwardedInOrder
=============================================================================
