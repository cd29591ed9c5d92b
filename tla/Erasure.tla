------------------------------ MODULE Erasure ------------------------------
(***************************************************************************)
(* Erasing a person (sink.rs): the writer thread seals what is             *)
(* acknowledged and hands the request over; the publisher thread finishes  *)
(* earlier erasures, publishes up to the seal, removes the person and      *)
(* records their distinct ids as pending in one transaction, rewrites the  *)
(* event files, and clears the pending rows.                               *)
(*                                                                         *)
(* One project.  The log is the sequence of acknowledged events, a pair    *)
(* <<distinct id, other id of a merge or itself>>; positions in it stand   *)
(* for WAL cursors.  WriteAheadLog, Lake and Identity model what is one    *)
(* step here.  Person ids are distinct ids.                                *)
(***************************************************************************)
EXTENDS Naturals, Sequences, FiniteSets

CONSTANTS
    Ids,             \* distinct ids
    NoOne,           \* owner of an id without a row
    MaxLog,          \* bound: acknowledged events
    MaxRequests,     \* bound: erasure requests
    MaxPending,      \* MAX_PENDING_ERASURES_PER_PROJECT
    SignalMax,       \* capacity of the channel to the publisher
    Faults, MaxFaults  \* which of "io", "kill", "seal"; bound on them

ASSUME IdsAssumption == NoOne \notin Ids
ASSUME ErasureLimits ==
    /\ MaxLog \in Nat /\ MaxRequests \in Nat /\ MaxFaults \in Nat
    /\ MaxPending \in Nat \ {0} /\ SignalMax \in Nat \ {0}
    /\ Faults \subseteq {"io", "kill", "seal"}

VARIABLES
    log,             \* acknowledged events
    closed,          \* end of the segment before the active one
    sealed,          \* end of what the reader can publish
    writer,          \* "up", "poisoned" (the log refuses writes), "stopped"
    queue,           \* signals to the publisher
    ckpt,            \* the checkpoint: events published
    lake,            \* positions of the events in the files
    owner,           \* distinct_ids: id -> person
    pending,         \* pending_erasures
    pc, phase,       \* publisher thread: its place; what it rewrites for
    cur, through,    \* its request (0: startup) and that request's seal
    batch,           \* distinct ids being rewritten or cleared
    reqs,            \* observed: requests and their answers
    erasedAt,        \* observed: id -> checkpoint when its row was last erased
    faults

logVars == <<log, closed, sealed, writer>>
storeVars == <<ckpt, lake, owner, pending, erasedAt>>
jobVars == <<pc, phase, cur, through, batch>>
vars == <<logVars, storeVars, jobVars, queue, reqs, faults>>

IdOf(i) == log[i][1]
Fault(kind) == kind \in Faults /\ faults < MaxFaults /\ faults' = faults + 1

Init ==
    /\ log = <<>> /\ closed = 0 /\ sealed = 0 /\ writer = "up" /\ queue = <<>>
    /\ ckpt = 0 /\ lake = {} /\ owner = [d \in Ids |-> NoOne] /\ pending = {}
    /\ pc = "idle" /\ phase = "resume" /\ cur = 0 /\ through = 0 /\ batch = {}
    /\ reqs = <<>> /\ erasedAt = [d \in Ids |-> 0] /\ faults = 0

-----------------------------------------------------------------------------
(* The writer thread.                                                       *)

\* A group is written, fsynced and acknowledged.
Capture ==
    /\ writer = "up" /\ Len(log) < MaxLog
    /\ \E d, e \in Ids : log' = Append(log, <<d, e>>)
    /\ UNCHANGED <<closed, sealed, writer, queue, storeVars, jobVars, reqs, faults>>

\* WriteAheadLog::seal; after is the state the writer goes on in.
SealOk(after) ==
    /\ writer = "up" /\ writer' = after
    /\ closed' = Len(log) /\ sealed' = Len(log)
    /\ UNCHANGED faults

\* A failed seal poisons the log; its segment may already have its final name.
SealFails(after) ==
    /\ closed < Len(log) /\ closed' = closed /\ writer' = after
    /\ \/ writer = "poisoned" /\ UNCHANGED <<sealed, faults>>
       \/ writer = "up" /\ Fault("seal") /\ sealed' \in {sealed, Len(log)}

Signal(kind, r, upTo) == [kind |-> kind, req |-> r, through |-> upTo]
TrySend(q, s) == IF Len(q) < SignalMax THEN Append(q, s) ELSE q
AfterSeal == IF closed' > closed THEN TrySend(queue, Signal("sealed", 0, 0)) ELSE queue

SealTick ==
    /\ writer = "up" /\ closed < Len(log)
    /\ SealOk("up") \/ SealFails("poisoned")
    /\ queue' = AfterSeal
    /\ UNCHANGED <<log, storeVars, jobVars, reqs>>

\* (UpToLastTick: the erasure is handed over as of before its own seal.)
UpToLastTick == closed

\* active_segment - 1, after the seal.
UpTo == closed'

\* A full channel is answered with an error.
EraseRequest ==
    /\ writer # "stopped" /\ Len(reqs) < MaxRequests
    /\ SealOk("up") \/ SealFails("poisoned")
    /\ queue' = TrySend(AfterSeal, Signal("erase", Len(reqs) + 1, UpTo))
    /\ \E p \in Ids :
         reqs' = Append(reqs,
             [person |-> p, asked |-> Len(log), ids |-> {},
              state |-> IF Len(AfterSeal) < SignalMax THEN "waiting" ELSE "error"])
    /\ UNCHANGED <<log, storeVars, jobVars>>

\* The final seal, then a send that waits for room.
Shutdown ==
    /\ writer # "stopped" /\ Len(queue) < SignalMax
    /\ SealOk("stopped") \/ SealFails("stopped")
    /\ queue' = Append(queue, Signal("shutdown", 0, 0))
    /\ UNCHANGED <<log, storeVars, jobVars, reqs>>

-----------------------------------------------------------------------------
(* The publisher thread.                                                    *)

\* What an event makes of the owners: its ids get persons, a merge may join
\* them, either way round (Identity says when and which).
OwnersAfter(d, e) ==
    LET known == [x \in Ids |-> IF x \in {d, e} /\ owner[x] = NoOne THEN x ELSE owner[x]]
        folded(into, from) == [x \in Ids |-> IF known[x] = from THEN into ELSE known[x]]
    IN {known, folded(known[d], known[e]), folded(known[e], known[d])}

\* Publisher::publish_window, a window of one event.
PublishWindow ==
    /\ ckpt < sealed
    /\ ckpt' = ckpt + 1
    /\ lake' = lake \cup {ckpt + 1}
    /\ owner' \in OwnersAfter(log[ckpt + 1][1], log[ckpt + 1][2])
    /\ UNCHANGED <<pending, erasedAt>>

\* A tick, or a seal signal: publish until done, failed or out of budget.
Tick ==
    /\ pc = "idle"
    /\ \/ queue = <<>> /\ ckpt < sealed /\ UNCHANGED queue
       \/ queue # <<>> /\ Head(queue).kind = "sealed" /\ queue' = Tail(queue)
    /\ pc' = "tick"
    /\ UNCHANGED <<logVars, storeVars, phase, cur, through, batch, reqs, faults>>

TickPublish ==
    /\ pc = "tick" /\ PublishWindow
    /\ UNCHANGED <<logVars, jobVars, queue, reqs, faults>>

TickEnd ==
    /\ pc = "tick" /\ pc' = "idle"
    /\ UNCHANGED <<logVars, storeVars, phase, cur, through, batch, queue, reqs, faults>>

TakeErase ==
    /\ pc = "idle" /\ queue # <<>> /\ Head(queue).kind = "erase"
    /\ cur' = Head(queue).req /\ through' = Head(queue).through
    /\ queue' = Tail(queue)
    /\ pc' = "resume"
    /\ UNCHANGED <<logVars, storeVars, phase, batch, reqs, faults>>

TakeShutdown ==
    /\ pc = "idle" /\ queue # <<>> /\ Head(queue).kind = "shutdown"
    /\ queue' = Tail(queue) /\ pc' = "drain"
    /\ UNCHANGED <<logVars, storeVars, phase, cur, through, batch, reqs, faults>>

Drain ==
    /\ pc = "drain" /\ PublishWindow
    /\ UNCHANGED <<logVars, jobVars, queue, reqs, faults>>

Stopped ==
    /\ pc = "drain"
    /\ \/ ckpt = sealed /\ UNCHANGED faults
       \/ Fault("io")
    /\ pc' = "down"
    /\ UNCHANGED <<logVars, storeVars, phase, cur, through, batch, queue, reqs>>

\* resume_pending_erasures takes one bounded batch of the pending ids.
Resume ==
    /\ pc = "resume" /\ pc' = "rewrite"
    /\ batch' \in {B \in SUBSET pending :
                     B = pending \/ Cardinality(B) = MaxPending}
    /\ Cardinality(batch') <= MaxPending
    /\ UNCHANGED <<logVars, storeVars, phase, cur, through, queue, reqs, faults>>

Doomed == {i \in lake : IdOf(i) \in batch}

\* Compactor::erase rewrites one partition after the other.
Rewrite ==
    /\ pc = "rewrite"
    /\ \E i \in Doomed : lake' = lake \ {i}
    /\ UNCHANGED <<logVars, ckpt, owner, pending, erasedAt, jobVars, queue, reqs, faults>>

RewriteDone ==
    /\ pc = "rewrite" /\ Doomed = {} /\ pc' = "clear"
    /\ UNCHANGED <<logVars, storeVars, phase, cur, through, batch, queue, reqs, faults>>

\* clear_pending_erasures: one statement for each id.
Clear ==
    /\ pc = "clear"
    /\ \E d \in batch : pending' = pending \ {d} /\ batch' = batch \ {d}
    /\ UNCHANGED <<logVars, ckpt, lake, owner, erasedAt, pc, phase, cur, through,
                   queue, reqs, faults>>

Resumed ==
    /\ pc = "clear" /\ batch = {} /\ phase = "resume"
    /\ pc' = "publish"
    /\ UNCHANGED <<logVars, storeVars, phase, cur, through, batch, queue, reqs, faults>>

\* publish_through the request's seal, or publish_all at startup.
Limit == IF cur = 0 THEN sealed ELSE through

PublishThrough ==
    /\ pc = "publish" /\ ckpt < Limit /\ PublishWindow
    /\ UNCHANGED <<logVars, jobVars, queue, reqs, faults>>

Started ==
    /\ pc = "publish" /\ cur = 0 /\ ckpt >= Limit
    /\ pc' = "idle" /\ writer' = "up"
    /\ UNCHANGED <<log, closed, sealed, storeVars, phase, cur, through, batch, queue,
                   reqs, faults>>

\* (Unrecorded: the ids are not kept for a later resumption.)
Unrecorded(ids) == pending

Recorded(ids) == pending \cup ids

\* projections::erase_person and its commit.
EraseIdentity ==
    /\ pc = "publish" /\ cur # 0 /\ ckpt >= Limit
    /\ LET ids == {d \in Ids : owner[d] = reqs[cur].person} IN
       /\ owner' = [d \in Ids |-> IF d \in ids THEN NoOne ELSE owner[d]]
       /\ pending' = Recorded(ids)
       /\ erasedAt' = [d \in Ids |-> IF d \in ids THEN ckpt ELSE erasedAt[d]]
       /\ reqs' = [reqs EXCEPT ![cur].ids = ids]
       /\ batch' = ids
    /\ phase' = "erase" /\ pc' = "rewrite"
    /\ UNCHANGED <<logVars, ckpt, lake, cur, through, queue, faults>>

Answer(state) ==
    /\ reqs' = [reqs EXCEPT ![cur].state = state]
    /\ pc' = "idle" /\ cur' = 0 /\ batch' = {} /\ through' = 0 /\ phase' = "resume"

EraseDone ==
    /\ pc = "clear" /\ batch = {} /\ phase = "erase"
    /\ Answer(IF reqs[cur].ids = {} THEN "not_found" ELSE "ok")
    /\ UNCHANGED <<logVars, storeVars, queue, faults>>

Erasing == pc \in {"resume", "rewrite", "clear", "publish"}

\* (FailsSilently: a failed step drops the request.)
FailsSilently ==
    /\ Erasing /\ cur # 0 /\ Fault("io")
    /\ pc' = "idle" /\ cur' = 0 /\ batch' = {} /\ through' = 0 /\ phase' = "resume"
    /\ UNCHANGED <<logVars, storeVars, queue, reqs>>

\* Any step can fail: the request is answered 503.
EraseFails ==
    /\ Erasing /\ cur # 0 /\ Fault("io")
    /\ Answer("error")
    /\ UNCHANGED <<logVars, storeVars, queue>>

-----------------------------------------------------------------------------
(* Crash and startup.                                                       *)

\* Every thread is gone: a kill, or a step of startup that failed.
Kill ==
    /\ pc # "down"
    /\ Fault("kill") \/ (Erasing /\ cur = 0 /\ Fault("io"))
    /\ writer' = "stopped" /\ queue' = <<>>
    /\ reqs' = [r \in DOMAIN reqs |->
                  IF reqs[r].state = "waiting" THEN [reqs[r] EXCEPT !.state = "lost"]
                  ELSE reqs[r]]
    /\ pc' = "down" /\ cur' = 0 /\ batch' = {} /\ through' = 0 /\ phase' = "resume"
    /\ UNCHANGED <<log, closed, sealed, storeVars>>

\* (PublishFirst: startup publishes before it finishes erasures.)
PublishFirst == "publish"

FirstStep == "resume"

\* DurableWalSink::open recovers and seals the log.
Open ==
    /\ pc = "down"
    /\ closed' = Len(log) /\ sealed' = Len(log)
    /\ pc' = FirstStep
    /\ UNCHANGED <<log, writer, storeVars, phase, cur, through, batch, queue, reqs, faults>>

-----------------------------------------------------------------------------
Writing == Capture \/ SealTick \/ EraseRequest \/ Shutdown

Publishing ==
    \/ Tick \/ TickPublish \/ TickEnd \/ TakeErase \/ TakeShutdown \/ Drain \/ Stopped
    \/ Resume \/ Rewrite \/ RewriteDone \/ Clear \/ Resumed \/ PublishThrough
    \/ Started \/ EraseIdentity \/ EraseDone

Next == Writing \/ Publishing \/ EraseFails \/ Kill \/ Open

Spec == Init /\ [][Next]_vars

\* The publisher thread runs as long as the process does.
FairSpec == Spec /\ WF_vars(Publishing)

-----------------------------------------------------------------------------
(* Properties.                                                              *)

Signals == [kind : {"sealed", "erase", "shutdown"}, req : Nat, through : Nat]
Requests == [person : Ids, asked : Nat, ids : SUBSET Ids,
             state : {"waiting", "ok", "not_found", "error", "lost"}]

LogOK == log \in Seq(Ids \X Ids) /\ writer \in {"up", "poisoned", "stopped"}
CursorsOK ==
    /\ ckpt \in Nat /\ closed \in Nat /\ sealed \in Nat
    /\ ckpt <= sealed /\ closed <= sealed /\ sealed <= Len(log)
StoreOK ==
    /\ lake \subseteq 1..ckpt /\ erasedAt \in [Ids -> 0..ckpt]
    /\ owner \in [Ids -> Ids \cup {NoOne}] /\ pending \subseteq Ids
JobOK ==
    /\ pc \in {"idle", "tick", "drain", "down", "resume", "rewrite", "clear", "publish"}
    /\ phase \in {"resume", "erase"} /\ batch \subseteq Ids
    /\ cur \in Nat /\ through \in Nat
MessagesOK == queue \in Seq(Signals) /\ reqs \in Seq(Requests)

\* Cursors are in order, and the files hold published events only.
TypeOK == LogOK /\ CursorsOK /\ StoreOK /\ JobOK /\ MessagesOK

\* An erasure that was answered covers every event acknowledged before the
\* request: all of them were published, and none of the person's ids is left
\* in the files, then or ever after (Eraser::erase_person).
ErasedIsGone ==
    \A r \in DOMAIN reqs : reqs[r].state = "ok" =>
        \A i \in 1..reqs[r].asked :
            IdOf(i) \in reqs[r].ids => i <= ckpt /\ i \notin lake

\* A stored event whose person was erased after it was published is never
\* forgotten: its id stays pending through failures and crashes until the
\* event is gone.
NoOrphanedEvents ==
    \A i \in lake : i <= erasedAt[IdOf(i)] => IdOf(i) \in pending

\* Published events disappear only when their person is erased after them:
\* finishing an old erasure does not take events sent since.
LaterEventsKept ==
    \A i \in 1..ckpt : i \notin lake => i <= erasedAt[IdOf(i)]

\* Every request is answered, or lost with the process.
EraseAnswered ==
    \A r \in 1..MaxRequests :
        (r \in DOMAIN reqs /\ reqs[r].state = "waiting")
            ~> (r \in DOMAIN reqs /\ reqs[r].state # "waiting")
=============================================================================
