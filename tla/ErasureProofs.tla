---------------------------- MODULE ErasureProofs ---------------------------
(***************************************************************************)
(* Erasure, for any ids, limits and faults: the types, that no event of an *)
(* erased person is ever forgotten, that events sent later are kept, and   *)
(* what an answer promises.                                                *)
(***************************************************************************)
EXTENDS Erasure, FiniteSetTheorems, TLAPS

\* An id leaves the pending list only when the files no longer hold it: the
\* step that makes NoOrphanedEvents inductive.
ClearedAreGone == pc = "clear" => Doomed = {}

Inv == TypeOK /\ NoOrphanedEvents /\ ClearedAreGone

\* A signal that fits, or does not fit, leaves the channel well formed.
LEMMA TrySendType ==
    ASSUME NEW q \in Seq(Signals), NEW s \in Signals
    PROVE  TrySend(q, s) \in Seq(Signals)
BY DEF TrySend

\* So does the seal's own signal.
LEMMA AfterSealType ==
    ASSUME MessagesOK
    PROVE  AfterSeal \in Seq(Signals)
<1>1. Signal("sealed", 0, 0) \in Signals
  BY DEF Signal, Signals
<1> QED BY <1>1, TrySendType DEF AfterSeal, MessagesOK

\* A seal moves the cursors forward, never past the log.
LEMMA SealType ==
    ASSUME LogOK, CursorsOK, NEW after \in {"up", "poisoned", "stopped"},
           SealOk(after) \/ SealFails(after), UNCHANGED <<log, ckpt>>
    PROVE  LogOK' /\ CursorsOK'
BY DEF LogOK, CursorsOK, SealOk, SealFails, Fault

\* A window of one event: the files stay within the checkpoint, and the new
\* event is later than every erasure.
LEMMA PublishKeeps ==
    ASSUME TypeOK, NoOrphanedEvents, PublishWindow, UNCHANGED logVars
    PROVE  LogOK' /\ CursorsOK' /\ StoreOK' /\ NoOrphanedEvents'
<1>1. /\ ckpt' = ckpt + 1 /\ lake' = lake \cup {ckpt + 1} /\ erasedAt' = erasedAt
      /\ pending' = pending /\ log' = log /\ ckpt + 1 \in 1..Len(log)
      /\ sealed' = sealed /\ closed' = closed /\ writer' = writer /\ ckpt + 1 <= sealed
  BY DEF PublishWindow, TypeOK, LogOK, CursorsOK, logVars
<1>2. log[ckpt + 1] \in Ids \X Ids
  BY <1>1 DEF TypeOK, LogOK
<1>3. owner' \in [Ids -> Ids \cup {NoOne}]
  <2>1. PICK d \in Ids, e \in Ids : owner' \in OwnersAfter(d, e)
    BY <1>2 DEF PublishWindow
  <2> QED BY <2>1 DEF OwnersAfter, TypeOK, StoreOK
<1>4. LogOK' /\ CursorsOK'
  BY <1>1 DEF TypeOK, LogOK, CursorsOK
<1>5. StoreOK'
  BY <1>1, <1>3 DEF TypeOK, StoreOK, CursorsOK
<1>6. NoOrphanedEvents'
  <2> SUFFICES ASSUME NEW i \in lake', i <= erasedAt[IdOf(i)] PROVE IdOf(i) \in pending
    BY <1>1 DEF NoOrphanedEvents, IdOf
  <2>1. CASE i \in lake
    BY <2>1 DEF NoOrphanedEvents
  <2>2. CASE i = ckpt + 1
    BY <1>1, <1>2, <2>2 DEF TypeOK, StoreOK, CursorsOK, IdOf
  <2> QED BY <1>1, <2>1, <2>2
<1> QED BY <1>4, <1>5, <1>6

\* Every invariant holds initially.
LEMMA InvInit == Init => Inv
BY DEF Init, Inv, TypeOK, LogOK, CursorsOK, StoreOK, JobOK, MessagesOK, NoOrphanedEvents,
       ClearedAreGone

\* A step that leaves the store and the log alone keeps NoOrphanedEvents.
LEMMA StoreSame ==
    ASSUME NoOrphanedEvents, UNCHANGED <<log, storeVars>>
    PROVE  NoOrphanedEvents'
BY DEF NoOrphanedEvents, storeVars, IdOf

\* Steps of the writer thread.
LEMMA WritingKeeps == Inv /\ Writing => Inv'
<1> SUFFICES ASSUME Inv, Writing PROVE Inv'
  OBVIOUS
<1>0. LogOK /\ CursorsOK /\ StoreOK /\ JobOK /\ MessagesOK /\ NoOrphanedEvents /\ ClearedAreGone
  BY DEF Inv, TypeOK
<1>1. CASE Capture
  <2>1. PICK d \in Ids, e \in Ids : log' = Append(log, <<d, e>>)
    BY <1>1 DEF Capture
  <2>2. /\ log' \in Seq(Ids \X Ids) /\ Len(log') = Len(log) + 1
        /\ \A i \in 1..Len(log) : log'[i] = log[i]
    BY <1>0, <2>1 DEF LogOK
  <2>3. /\ UNCHANGED <<closed, sealed, writer, queue, reqs, pc, phase, cur, through, batch>>
        /\ UNCHANGED <<ckpt, lake, owner, pending, erasedAt>>
    BY <1>1 DEF Capture, storeVars, jobVars
  <2>4. LogOK' /\ CursorsOK'
    BY <1>0, <2>2, <2>3 DEF LogOK, CursorsOK
  <2>5. StoreOK' /\ JobOK' /\ MessagesOK'
    BY <1>0, <2>3 DEF StoreOK, JobOK, MessagesOK
  <2>6. \A i \in lake : log'[i] = log[i]
    <3>1. Len(log) \in Nat
      BY <1>0 DEF LogOK
    <3>2. \A i \in 1..ckpt : i \in 1..Len(log)
      BY <1>0, <3>1 DEF CursorsOK
    <3> QED BY <1>0, <2>2, <3>2 DEF StoreOK
  <2>7. NoOrphanedEvents'
    BY <1>0, <2>3, <2>6 DEF NoOrphanedEvents, IdOf
  <2>8. ClearedAreGone'
    BY <1>0, <2>3, <2>6 DEF ClearedAreGone, Doomed, IdOf
  <2> QED BY <2>4, <2>5, <2>7, <2>8 DEF Inv, TypeOK
<1>2. ASSUME UNCHANGED <<log, storeVars, jobVars>>, LogOK', CursorsOK',
             queue' \in Seq(Signals), reqs' \in Seq(Requests)
      PROVE  Inv'
  <2>1. StoreOK' /\ JobOK' /\ MessagesOK'
    BY <1>0, <1>2 DEF StoreOK, JobOK, MessagesOK, storeVars, jobVars
  <2>2. ClearedAreGone'
    BY <1>0, <1>2 DEF ClearedAreGone, Doomed, storeVars, jobVars, IdOf
  <2> QED BY <1>0, <1>2, <2>1, <2>2, StoreSame DEF Inv, TypeOK
<1>3. ASSUME UNCHANGED <<log, storeVars>>, NEW x \in {"up", "poisoned", "stopped"},
             SealOk(x) \/ SealFails(x)
      PROVE  LogOK' /\ CursorsOK'
  BY <1>0, <1>3, SealType DEF storeVars
<1>4. CASE SealTick
  <2>1. UNCHANGED <<log, storeVars, jobVars, reqs>> /\ queue' = AfterSeal
        /\ (SealOk("up") \/ SealFails("poisoned"))
    BY <1>4 DEF SealTick
  <2>2. queue' \in Seq(Signals) /\ reqs' \in Seq(Requests)
    BY <1>0, <2>1, AfterSealType DEF MessagesOK
  <2> QED BY <1>2, <1>3, <2>1, <2>2
<1>5. CASE EraseRequest
  <2>1. /\ UNCHANGED <<log, storeVars, jobVars>>
        /\ SealOk("up") \/ SealFails("poisoned")
    BY <1>5 DEF EraseRequest
  <2>2. LogOK' /\ CursorsOK'
    BY <1>3, <2>1
  <2>3. Signal("erase", Len(reqs) + 1, UpTo) \in Signals
    BY <1>0, <2>2 DEF Signal, Signals, UpTo, CursorsOK, MessagesOK
  <2>4. queue' \in Seq(Signals)
    BY <1>0, <1>5, <2>3, AfterSealType, TrySendType DEF EraseRequest
  <2>5. \A p \in Ids, x \in {"waiting", "error"} :
          [person |-> p, asked |-> Len(log), ids |-> {}, state |-> x] \in Requests
    BY <1>0 DEF Requests, LogOK
  <2>6. PICK r \in Requests : reqs' = Append(reqs, r)
    BY <1>5, <2>5 DEF EraseRequest
  <2>7. reqs' \in Seq(Requests)
    BY <1>0, <2>6 DEF MessagesOK
  <2> QED BY <1>2, <2>1, <2>2, <2>4, <2>7
<1>6. CASE Shutdown
  <2>1. UNCHANGED <<log, storeVars, jobVars, reqs>>
        /\ queue' = Append(queue, Signal("shutdown", 0, 0))
        /\ (SealOk("stopped") \/ SealFails("stopped"))
    BY <1>6 DEF Shutdown
  <2>2. Signal("shutdown", 0, 0) \in Signals
    BY DEF Signal, Signals
  <2>3. queue' \in Seq(Signals) /\ reqs' \in Seq(Requests)
    BY <1>0, <2>1, <2>2 DEF MessagesOK
  <2> QED BY <1>2, <1>3, <2>1, <2>3
<1> QED BY <1>1, <1>4, <1>5, <1>6 DEF Writing

\* What the publisher notes on a request keeps the requests well formed.
LEMMA NoteType ==
    ASSUME NEW q \in Seq(Requests), NEW c \in Nat, NEW I \in SUBSET Ids,
           NEW x \in {"ok", "not_found", "error"}
    PROVE  /\ [q EXCEPT ![c].ids = I] \in Seq(Requests)
           /\ [q EXCEPT ![c].state = x] \in Seq(Requests)
<1>1. \A v \in Requests : /\ [v EXCEPT !.ids = I] \in Requests
                          /\ [v EXCEPT !.state = x] \in Requests
  BY DEF Requests
<1>2. DOMAIN q = 1..Len(q) /\ Len(q) \in Nat /\ \A r \in DOMAIN q : q[r] \in Requests
  OBVIOUS
<1>3. /\ [q EXCEPT ![c].ids = I] \in [1..Len(q) -> Requests]
      /\ [q EXCEPT ![c].state = x] \in [1..Len(q) -> Requests]
  BY <1>1, <1>2
<1> QED BY <1>2, <1>3

\* Steps of the publisher thread, and its failures.
LEMMA PublishingKeeps == Inv /\ (Publishing \/ EraseFails) => Inv'
<1> SUFFICES ASSUME Inv, Publishing \/ EraseFails PROVE Inv'
  OBVIOUS
<1>0. LogOK /\ CursorsOK /\ StoreOK /\ JobOK /\ MessagesOK /\ NoOrphanedEvents /\ ClearedAreGone
  BY DEF Inv, TypeOK
<1>1. ASSUME UNCHANGED <<logVars, storeVars>>, JobOK', MessagesOK', ClearedAreGone'
      PROVE  Inv'
  <2>1. LogOK' /\ CursorsOK' /\ StoreOK'
    BY <1>0, <1>1 DEF LogOK, CursorsOK, StoreOK, logVars, storeVars
  <2>2. NoOrphanedEvents'
    BY <1>0, <1>1, StoreSame DEF logVars
  <2> QED BY <1>1, <2>1, <2>2 DEF Inv, TypeOK
<1>2. ASSUME PublishWindow, UNCHANGED <<logVars, jobVars, queue, reqs>>, pc # "clear"
      PROVE  Inv'
  <2>1. LogOK' /\ CursorsOK' /\ StoreOK' /\ NoOrphanedEvents'
    BY <1>0, <1>2, PublishKeeps DEF TypeOK
  <2>2. JobOK' /\ MessagesOK' /\ ClearedAreGone'
    BY <1>0, <1>2 DEF JobOK, MessagesOK, ClearedAreGone, jobVars
  <2> QED BY <2>1, <2>2 DEF Inv, TypeOK
<1>3. ASSUME queue # <<>>
      PROVE  /\ Head(queue).req \in Nat /\ Head(queue).through \in Nat
             /\ Tail(queue) \in Seq(Signals)
  <2>1. Head(queue) \in Signals /\ Tail(queue) \in Seq(Signals)
    BY <1>0, <1>3 DEF MessagesOK
  <2> QED BY <2>1 DEF Signals
<1>4. CASE Tick
  BY <1>0, <1>1, <1>3, <1>4 DEF Tick, JobOK, MessagesOK, ClearedAreGone
<1>5. CASE TickPublish
  BY <1>2, <1>5 DEF TickPublish
<1>6. CASE TickEnd
  BY <1>0, <1>1, <1>6 DEF TickEnd, JobOK, MessagesOK, ClearedAreGone
<1>7. CASE TakeErase
  BY <1>0, <1>1, <1>3, <1>7 DEF TakeErase, JobOK, MessagesOK, ClearedAreGone
<1>8. CASE TakeShutdown
  BY <1>0, <1>1, <1>3, <1>8 DEF TakeShutdown, JobOK, MessagesOK, ClearedAreGone
<1>9. CASE Drain
  BY <1>2, <1>9 DEF Drain
<1>10. CASE Stopped
  BY <1>0, <1>1, <1>10 DEF Stopped, JobOK, MessagesOK, ClearedAreGone
<1>11. CASE Resume
  BY <1>0, <1>1, <1>11 DEF Resume, JobOK, StoreOK, MessagesOK, ClearedAreGone
<1>12. CASE Rewrite
  <2>1. PICK i \in Doomed : lake' = lake \ {i}
    BY <1>12 DEF Rewrite
  <2>2. /\ UNCHANGED <<log, closed, sealed, writer, ckpt, owner, pending, erasedAt, queue, reqs>>
        /\ UNCHANGED <<pc, phase, cur, through, batch>> /\ pc = "rewrite"
    BY <1>12 DEF Rewrite, logVars, jobVars
  <2>3. LogOK' /\ CursorsOK' /\ StoreOK' /\ JobOK' /\ MessagesOK'
    BY <1>0, <2>1, <2>2 DEF LogOK, CursorsOK, StoreOK, JobOK, MessagesOK
  <2>4. NoOrphanedEvents' /\ ClearedAreGone'
    BY <1>0, <2>1, <2>2 DEF NoOrphanedEvents, ClearedAreGone, IdOf
  <2> QED BY <2>3, <2>4 DEF Inv, TypeOK
<1>13. CASE RewriteDone
  <2>1. ClearedAreGone'
    BY <1>13 DEF RewriteDone, ClearedAreGone, Doomed, IdOf, logVars, storeVars
  <2> QED BY <1>0, <1>1, <1>13, <2>1 DEF RewriteDone, JobOK, MessagesOK
<1>14. CASE Clear
  <2>1. PICK d \in batch : pending' = pending \ {d} /\ batch' = batch \ {d}
    BY <1>14 DEF Clear
  <2>2. /\ UNCHANGED <<log, closed, sealed, writer, ckpt, lake, owner, erasedAt, queue, reqs>>
        /\ UNCHANGED <<pc, phase, cur, through>> /\ pc = "clear"
    BY <1>14 DEF Clear, logVars
  <2>3. LogOK' /\ CursorsOK' /\ StoreOK' /\ JobOK' /\ MessagesOK'
    BY <1>0, <2>1, <2>2 DEF LogOK, CursorsOK, StoreOK, JobOK, MessagesOK
  <2>4. \A i \in lake : IdOf(i) # d
    BY <1>0, <2>1, <2>2 DEF ClearedAreGone, Doomed
  <2>5. NoOrphanedEvents'
    BY <1>0, <2>1, <2>2, <2>4 DEF NoOrphanedEvents, IdOf
  <2>6. ClearedAreGone'
    BY <1>0, <2>1, <2>2 DEF ClearedAreGone, Doomed, IdOf
  <2> QED BY <2>3, <2>5, <2>6 DEF Inv, TypeOK
<1>15. CASE Resumed
  BY <1>0, <1>1, <1>15 DEF Resumed, JobOK, MessagesOK, ClearedAreGone
<1>16. CASE PublishThrough
  BY <1>2, <1>16 DEF PublishThrough
<1>17. CASE Started
  <2>1. /\ UNCHANGED <<log, closed, sealed, phase, cur, through, batch, queue, reqs>>
        /\ UNCHANGED storeVars /\ pc' = "idle" /\ writer' = "up"
    BY <1>17 DEF Started
  <2>2. LogOK' /\ CursorsOK' /\ StoreOK' /\ JobOK' /\ MessagesOK' /\ ClearedAreGone'
    BY <1>0, <2>1 DEF LogOK, CursorsOK, StoreOK, JobOK, MessagesOK, ClearedAreGone, storeVars
  <2> QED BY <1>0, <2>1, <2>2, StoreSame DEF Inv, TypeOK
<1>18. CASE EraseIdentity
  <2> DEFINE ids == {d \in Ids : owner[d] = reqs[cur].person}
  <2>1. /\ owner' = [d \in Ids |-> IF d \in ids THEN NoOne ELSE owner[d]]
        /\ pending' = pending \cup ids /\ batch' = ids
        /\ erasedAt' = [d \in Ids |-> IF d \in ids THEN ckpt ELSE erasedAt[d]]
        /\ phase' = "erase" /\ pc' = "rewrite"
        /\ UNCHANGED <<log, closed, sealed, writer, ckpt, lake, cur, through, queue>>
    BY <1>18 DEF EraseIdentity, Recorded, logVars
  <2>2. reqs' = [reqs EXCEPT ![cur].ids = ids]
    BY <1>18 DEF EraseIdentity
  <2>3. reqs' \in Seq(Requests)
    BY <1>0, <2>2, NoteType DEF MessagesOK, JobOK
  <2>4. LogOK' /\ CursorsOK' /\ JobOK' /\ MessagesOK' /\ ClearedAreGone'
    BY <1>0, <2>1, <2>3 DEF LogOK, CursorsOK, JobOK, MessagesOK, ClearedAreGone
  <2>5. StoreOK'
    BY <1>0, <2>1 DEF StoreOK, CursorsOK
  <2>6. \A i \in lake : IdOf(i) \in Ids /\ IdOf(i)' = IdOf(i)
    <3>1. Len(log) \in Nat
      BY <1>0 DEF LogOK
    <3>2. \A i \in 1..ckpt : i \in 1..Len(log)
      BY <1>0, <3>1 DEF CursorsOK
    <3>3. \A i \in 1..Len(log) : log[i] \in Ids \X Ids
      BY <1>0 DEF LogOK
    <3> QED BY <1>0, <2>1, <3>2, <3>3 DEF StoreOK, IdOf
  <2>7. NoOrphanedEvents'
    BY <1>0, <2>1, <2>6 DEF NoOrphanedEvents, StoreOK
  <2> QED BY <2>4, <2>5, <2>7 DEF Inv, TypeOK
<1>19. ASSUME NEW x \in {"ok", "not_found", "error"}, Answer(x), UNCHANGED queue
       PROVE  JobOK' /\ MessagesOK' /\ ClearedAreGone'
  <2>1. reqs' = [reqs EXCEPT ![cur].state = x] /\ pc' = "idle"
        /\ cur' = 0 /\ batch' = {} /\ through' = 0 /\ phase' = "resume"
    BY <1>19 DEF Answer
  <2>2. reqs' \in Seq(Requests)
    BY <1>0, <1>19, <2>1, NoteType DEF MessagesOK, JobOK
  <2> QED BY <1>0, <1>19, <2>1, <2>2 DEF JobOK, MessagesOK, ClearedAreGone
<1>20. CASE EraseDone
  BY <1>1, <1>19, <1>20 DEF EraseDone
<1>21. CASE EraseFails
  BY <1>1, <1>19, <1>21 DEF EraseFails
<1> QED
  BY <1>4, <1>5, <1>6, <1>7, <1>8, <1>9, <1>10, <1>11, <1>12, <1>13, <1>14, <1>15, <1>16,
     <1>17, <1>18, <1>20, <1>21 DEF Publishing

\* A crash loses the threads and their messages, and nothing of the store.
LEMMA CrashKeeps == Inv /\ (Kill \/ Open) => Inv'
<1> SUFFICES ASSUME Inv, Kill \/ Open PROVE Inv'
  OBVIOUS
<1>0. LogOK /\ CursorsOK /\ StoreOK /\ JobOK /\ MessagesOK /\ NoOrphanedEvents
  BY DEF Inv, TypeOK
<1>1. UNCHANGED <<log, storeVars>>
  BY DEF Kill, Open
<1>2. NoOrphanedEvents' /\ StoreOK'
  BY <1>0, <1>1, StoreSame DEF StoreOK, storeVars
<1>3. CASE Kill
  <2>1. /\ UNCHANGED <<log, closed, sealed, ckpt>> /\ writer' = "stopped" /\ queue' = <<>>
        /\ pc' = "down" /\ cur' = 0 /\ batch' = {} /\ through' = 0 /\ phase' = "resume"
    BY <1>3 DEF Kill, storeVars
  <2>2. reqs' \in Seq(Requests)
    <3>1. \A q \in Requests : [q EXCEPT !.state = "lost"] \in Requests
      BY DEF Requests
    <3>2. \A r \in DOMAIN reqs : reqs[r] \in Requests
      BY <1>0 DEF MessagesOK
    <3>3. reqs' = [r \in DOMAIN reqs |->
                     IF reqs[r].state = "waiting" THEN [reqs[r] EXCEPT !.state = "lost"]
                     ELSE reqs[r]]
      BY <1>3 DEF Kill
    <3>4. DOMAIN reqs = 1..Len(reqs) /\ Len(reqs) \in Nat
      BY <1>0 DEF MessagesOK
    <3>5. reqs' \in [1..Len(reqs) -> Requests]
      BY <3>1, <3>2, <3>3, <3>4
    <3> QED BY <3>4, <3>5
  <2>3. LogOK' /\ CursorsOK' /\ JobOK' /\ MessagesOK' /\ ClearedAreGone'
    BY <1>0, <2>1, <2>2 DEF LogOK, CursorsOK, JobOK, MessagesOK, ClearedAreGone
  <2> QED BY <1>2, <2>3 DEF Inv, TypeOK
<1>4. CASE Open
  <2>1. /\ UNCHANGED <<log, writer, ckpt, phase, cur, through, batch, queue, reqs>>
        /\ closed' = Len(log) /\ sealed' = Len(log) /\ pc' = "resume"
    BY <1>4 DEF Open, FirstStep, storeVars
  <2>2. LogOK' /\ CursorsOK' /\ JobOK' /\ MessagesOK' /\ ClearedAreGone'
    BY <1>0, <2>1 DEF LogOK, CursorsOK, JobOK, MessagesOK, ClearedAreGone
  <2> QED BY <1>2, <2>2 DEF Inv, TypeOK
<1> QED BY <1>3, <1>4

\* The invariant is inductive.
THEOREM InvAlways == Spec => []Inv
<1>1. Inv /\ UNCHANGED vars => Inv'
  <2> SUFFICES ASSUME Inv, UNCHANGED vars PROVE Inv'
    OBVIOUS
  <2>1. UNCHANGED <<logVars, storeVars, jobVars, queue, reqs>>
    BY DEF vars
  <2>2. LogOK' /\ CursorsOK' /\ StoreOK' /\ JobOK' /\ MessagesOK'
    BY <2>1 DEF Inv, TypeOK, LogOK, CursorsOK, StoreOK, JobOK, MessagesOK, logVars, storeVars,
                jobVars
  <2>3. NoOrphanedEvents' /\ ClearedAreGone'
    BY <2>1, StoreSame DEF Inv, ClearedAreGone, Doomed, IdOf, logVars, storeVars, jobVars
  <2> QED BY <2>2, <2>3 DEF Inv, TypeOK
<1>2. Inv /\ [Next]_vars => Inv'
  BY <1>1, WritingKeeps, PublishingKeeps, CrashKeeps DEF Next
<1> QED BY <1>2, InvInit, PTL DEF Spec

\* Cursors, files, identity rows, messages and answers keep their types and
\* order: the publisher never runs ahead of the seal, nor the files ahead of
\* the checkpoint.
THEOREM TypeCorrect == Spec => []TypeOK
<1>1. Inv => TypeOK
  BY DEF Inv
<1> QED BY <1>1, InvAlways, PTL

\* However an erasure is interrupted (a failed step, a crash, a failed seal,
\* a full batch), every stored event of an erased id stays recorded as
\* pending until it is gone.
THEOREM NoOrphanedEventsAlways == Spec => []NoOrphanedEvents
<1>1. Inv => NoOrphanedEvents
  BY DEF Inv
<1> QED BY <1>1, InvAlways, PTL

-----------------------------------------------------------------------------
(* Events sent after an erasure.                                            *)

\* No step of the publisher fails, and a project's ids fit in one batch.
Undisturbed ==
    /\ "io" \notin Faults
    /\ IsFiniteSet(Ids) /\ Cardinality(Ids) <= MaxPending

\* Nothing is published between recording ids as pending and clearing them.
PendingNow ==
    /\ \A d \in pending : erasedAt[d] = ckpt
    /\ pending # {} => pc \in {"down", "resume", "rewrite", "clear"}
    /\ pc \in {"rewrite", "clear"} => batch = pending

KeptInv == TypeOK /\ PendingNow /\ LaterEventsKept

\* A batch that is full holds every pending id.
LEMMA WholeBatch ==
    ASSUME Undisturbed, TypeOK, Resume
    PROVE  batch' = pending
<1>1. batch' \subseteq pending /\ pending \subseteq Ids
  BY DEF Resume, TypeOK, StoreOK
<1>2. CASE Cardinality(batch') = MaxPending
  <2>1. IsFiniteSet(batch') /\ Cardinality(batch') <= Cardinality(Ids)
    BY <1>1, FS_Subset DEF Undisturbed
  <2>2. Cardinality(Ids) \in Nat /\ MaxPending \in Nat
    BY FS_CardinalityType, ErasureLimits DEF Undisturbed
  <2>3. Cardinality(batch') = Cardinality(Ids)
    BY <1>2, <2>1, <2>2 DEF Undisturbed
  <2>4. batch' = Ids
    BY <1>1, <2>3, FS_Subset DEF Undisturbed
  <2> QED BY <1>1, <2>4
<1> QED BY <1>2 DEF Resume

\* Each step keeps it: an event leaves the files only in a rewrite, and then
\* its id was erased at the checkpoint of now.
LEMMA KeptStep ==
    ASSUME Undisturbed, KeptInv, TypeOK', [Next]_vars
    PROVE  PendingNow' /\ LaterEventsKept'
<1>0. /\ LogOK /\ CursorsOK /\ StoreOK /\ JobOK
      /\ \A i \in 1..ckpt : i \in 1..Len(log) /\ IdOf(i) \in Ids
  <2>1. LogOK /\ CursorsOK /\ StoreOK /\ JobOK
    BY DEF KeptInv, TypeOK
  <2>2. Len(log) \in Nat /\ \A i \in 1..Len(log) : log[i] \in Ids \X Ids
    BY <2>1 DEF LogOK
  <2>3. \A i \in 1..ckpt : i \in 1..Len(log)
    BY <2>1, <2>2 DEF CursorsOK
  <2> QED BY <2>1, <2>2, <2>3 DEF IdOf
<1> USE DEF KeptInv, PendingNow, LaterEventsKept, IdOf, logVars, storeVars, jobVars
<1>1. CASE Capture
  <2>1. \A i \in 1..ckpt : log'[i] = log[i]
    BY <1>0, <1>1 DEF Capture, LogOK
  <2> QED BY <1>1, <2>1 DEF Capture
<1>2. CASE SealTick \/ EraseRequest \/ Shutdown
  BY <1>2 DEF SealTick, EraseRequest, Shutdown
<1>3. ASSUME PublishWindow, UNCHANGED <<logVars, jobVars>>, pc \in {"tick", "drain", "publish"}
      PROVE  PendingNow' /\ LaterEventsKept'
  <2>1. /\ ckpt' = ckpt + 1 /\ lake' = lake \cup {ckpt + 1} /\ log' = log /\ pending = {}
        /\ UNCHANGED <<pending, erasedAt, pc, batch>>
    BY <1>3 DEF PublishWindow
  <2>2. \A i \in 1..ckpt' : i \in 1..ckpt \/ i = ckpt + 1
    BY <1>0, <2>1 DEF CursorsOK
  <2> QED BY <1>3, <2>1, <2>2
<1>4. CASE TickPublish \/ Drain \/ PublishThrough
  BY <1>3, <1>4 DEF TickPublish, Drain, PublishThrough
<1>5. CASE Tick \/ TickEnd \/ TakeErase \/ TakeShutdown \/ Stopped
  BY <1>5 DEF Tick, TickEnd, TakeErase, TakeShutdown, Stopped
<1>6. CASE Resume
  BY <1>6, WholeBatch DEF Resume
<1>7. CASE Rewrite
  <2>1. PICK i \in Doomed : lake' = lake \ {i}
    BY <1>7 DEF Rewrite
  <2>2. i \in 1..ckpt /\ IdOf(i) \in pending
    BY <1>0, <1>7, <2>1 DEF Rewrite, Doomed, StoreOK
  <2>3. i <= erasedAt[IdOf(i)]
    BY <1>0, <2>2 DEF CursorsOK
  <2> QED BY <1>7, <2>1, <2>3 DEF Rewrite
<1>8. CASE RewriteDone \/ Resumed \/ Started
  BY <1>8 DEF RewriteDone, Resumed, Started
<1>9. CASE Clear
  BY <1>9 DEF Clear
<1>10. CASE EraseIdentity
  <2> DEFINE ids == {d \in Ids : owner[d] = reqs[cur].person}
  <2>1. /\ pending' = pending \cup ids /\ batch' = ids /\ pending = {}
        /\ erasedAt' = [d \in Ids |-> IF d \in ids THEN ckpt ELSE erasedAt[d]]
        /\ pc' = "rewrite" /\ UNCHANGED <<log, ckpt, lake>>
    BY <1>10 DEF EraseIdentity, Recorded
  <2>2. PendingNow'
    BY <2>1
  <2>3. \A i \in 1..ckpt : i \notin lake => i <= erasedAt'[IdOf(i)]
    BY <1>0, <2>1 DEF CursorsOK
  <2> QED BY <2>1, <2>2, <2>3
<1>11. CASE EraseDone
  BY <1>11 DEF EraseDone, Answer
<1>12. CASE EraseFails \/ Kill \/ Open
  BY <1>12 DEF EraseFails, Kill, Open, Fault, FirstStep, Undisturbed
<1>13. CASE UNCHANGED vars
  BY <1>13 DEF vars
<1> QED BY <1>1, <1>2, <1>4, <1>5, <1>6, <1>7, <1>8, <1>9, <1>10, <1>11, <1>12, <1>13
        DEF Next, Writing, Publishing

\* With no failing step, and however often the process is killed or a seal
\* fails, a published event disappears only when its id is erased after it:
\* startup finishes the erasures under way before it publishes more.
THEOREM LaterEventsKeptAlways == ASSUME Undisturbed PROVE Spec => []LaterEventsKept
<1>1. Init => KeptInv
  <2> SUFFICES ASSUME Init PROVE KeptInv
    OBVIOUS
  <2>1. TypeOK
    BY InvInit DEF Inv
  <2>2. PendingNow /\ LaterEventsKept
    BY DEF Init, PendingNow, LaterEventsKept
  <2> QED BY <2>1, <2>2 DEF KeptInv
<1>2. KeptInv /\ TypeOK' /\ [Next]_vars => KeptInv'
  BY KeptStep DEF KeptInv
<1>3. KeptInv => LaterEventsKept
  BY DEF KeptInv
<1> QED BY <1>1, <1>2, <1>3, TypeCorrect, PTL DEF Spec

-----------------------------------------------------------------------------
(* What an answer promises.                                                 *)

\* Requests on their way to the publisher, or in its hands, wait for their
\* answer, once each, and their seal is not before the request.
RequestsOK ==
    /\ \A r \in DOMAIN reqs : reqs[r].asked <= Len(log)
    /\ \A k \in DOMAIN queue : queue[k].kind = "erase" =>
         /\ queue[k].req \in DOMAIN reqs /\ reqs[queue[k].req].state = "waiting"
         /\ reqs[queue[k].req].asked <= queue[k].through /\ queue[k].req # cur
    /\ \A j, k \in DOMAIN queue :
         queue[j].kind = "erase" /\ queue[k].kind = "erase" /\ queue[j].req = queue[k].req => j = k
    /\ cur # 0 => cur \in DOMAIN reqs /\ reqs[cur].state = "waiting" /\ reqs[cur].asked <= through

\* Once its identity is erased, a request's events are published, and the
\* rewrite leaves none of them.
RewriteOK ==
    /\ phase = "erase" => cur # 0 /\ pc \in {"rewrite", "clear"} /\ reqs[cur].asked <= ckpt
    /\ phase = "erase" /\ pc = "rewrite" => batch = reqs[cur].ids
    /\ phase = "erase" /\ pc = "clear" => \A i \in lake : IdOf(i) \notin reqs[cur].ids

GoneInv == TypeOK /\ writer # "poisoned" /\ RequestsOK /\ RewriteOK /\ ErasedIsGone

\* What a healthy writer adds to the channel: at most its seal's signal.
LEMMA AfterSealSignals ==
    ASSUME MessagesOK
    PROVE  \/ AfterSeal = queue
           \/ AfterSeal = Append(queue, Signal("sealed", 0, 0))
BY DEF AfterSeal, TrySend

\* A signal that is no erasure changes nothing for the requests.
LEMMA OtherSignal ==
    ASSUME MessagesOK, RequestsOK, NEW s \in Signals, s.kind # "erase",
           NEW q, q = queue \/ q = Append(queue, s)
    PROVE  /\ q \in Seq(Signals)
           /\ \A k \in DOMAIN q : q[k].kind = "erase" => k \in DOMAIN queue /\ q[k] = queue[k]
BY SMTT(30) DEF MessagesOK

\* Each step of the writer keeps it.
LEMMA GoneWriting ==
    ASSUME "seal" \notin Faults, GoneInv, TypeOK', Writing
    PROVE  GoneInv'
<1>0. LogOK /\ CursorsOK /\ StoreOK /\ MessagesOK
  BY DEF GoneInv, TypeOK
<1>1. /\ Len(log) \in Nat /\ DOMAIN reqs = 1..Len(reqs) /\ Len(reqs) \in Nat
      /\ \A r \in DOMAIN reqs : reqs[r] \in Requests /\ reqs[r].asked \in Nat
      /\ DOMAIN queue = 1..Len(queue) /\ Len(queue) \in Nat
      /\ \A k \in DOMAIN queue : queue[k] \in Signals
  <2>1. /\ Len(log) \in Nat /\ DOMAIN reqs = 1..Len(reqs) /\ Len(reqs) \in Nat
        /\ \A r \in DOMAIN reqs : reqs[r] \in Requests
    BY <1>0 DEF LogOK, MessagesOK
  <2>2. /\ DOMAIN queue = 1..Len(queue) /\ Len(queue) \in Nat
        /\ \A k \in DOMAIN queue : queue[k] \in Signals
    BY <1>0 DEF MessagesOK
  <2>3. \A r \in Requests : r.asked \in Nat
    BY DEF Requests
  <2> QED BY <2>1, <2>2, <2>3
<1>2. UNCHANGED <<storeVars, jobVars>>
  BY DEF Writing, Capture, SealTick, EraseRequest, Shutdown
<1>3. CASE Capture
  <2>1. PICK d \in Ids, e \in Ids : log' = Append(log, <<d, e>>)
    BY <1>3 DEF Capture
  <2>2. Len(log') = Len(log) + 1 /\ \A i \in 1..Len(log) : log'[i] = log[i]
    BY <1>0, <2>1 DEF LogOK
  <2>3. UNCHANGED <<writer, queue, reqs, storeVars, jobVars>>
    BY <1>3 DEF Capture
  <2>4. RequestsOK'
    <3>1. \A r \in DOMAIN reqs : reqs[r].asked <= Len(log')
      BY <1>1, <2>2 DEF GoneInv, RequestsOK
    <3> QED BY <2>3, <3>1 DEF GoneInv, RequestsOK, jobVars
  <2>5. \A i \in lake : i \in 1..Len(log)
    <3>1. \A i \in 1..ckpt : i \in 1..Len(log)
      BY <1>0, <1>1 DEF CursorsOK
    <3> QED BY <1>0, <3>1 DEF StoreOK
  <2>6. RewriteOK'
    BY <2>2, <2>3, <2>5 DEF GoneInv, RewriteOK, jobVars, storeVars, IdOf
  <2>7. ErasedIsGone'
    <3> SUFFICES ASSUME NEW r \in DOMAIN reqs, reqs[r].state = "ok", NEW i \in 1..reqs[r].asked,
                        log'[i][1] \in reqs[r].ids
                 PROVE  i <= ckpt /\ i \notin lake
      BY <2>3 DEF ErasedIsGone, IdOf, storeVars
    <3>1. i \in 1..Len(log)
      BY <1>1 DEF GoneInv, RequestsOK
    <3> QED BY <2>2, <3>1 DEF GoneInv, ErasedIsGone, IdOf
  <2> QED BY <2>3, <2>4, <2>6, <2>7 DEF GoneInv
<1>4. ASSUME UNCHANGED <<log, reqs, storeVars, jobVars>>, writer' # "poisoned",
             \A k \in DOMAIN queue' : queue'[k].kind = "erase" => k \in DOMAIN queue /\ queue'[k] = queue[k]
      PROVE  GoneInv'
  <2>1. RequestsOK'
    BY <1>4 DEF GoneInv, RequestsOK, jobVars
  <2>2. RewriteOK' /\ ErasedIsGone'
    BY <1>4 DEF GoneInv, RewriteOK, ErasedIsGone, jobVars, storeVars, IdOf
  <2> QED BY <1>4, <2>1, <2>2 DEF GoneInv
<1>5. ASSUME NEW x, NEW y, SealOk(x) \/ SealFails(y)
      PROVE  SealOk(x)
  BY <1>5 DEF SealFails, Fault, GoneInv
<1>6. Signal("sealed", 0, 0) \in Signals /\ Signal("sealed", 0, 0).kind # "erase"
  BY DEF Signal, Signals
<1>7. CASE SealTick
  <2>1. SealOk("up") /\ queue' = AfterSeal /\ UNCHANGED <<log, reqs, storeVars, jobVars>>
    BY <1>5, <1>7 DEF SealTick
  <2>2. \A k \in DOMAIN queue' : queue'[k].kind = "erase" => k \in DOMAIN queue /\ queue'[k] = queue[k]
    BY <1>0, <1>6, <2>1, AfterSealSignals, OtherSignal DEF GoneInv
  <2> QED BY <1>4, <2>1, <2>2 DEF SealOk
<1>8. CASE Shutdown
  <2>1. SealOk("stopped") /\ queue' = Append(queue, Signal("shutdown", 0, 0))
        /\ UNCHANGED <<log, reqs, storeVars, jobVars>>
    BY <1>5, <1>8 DEF Shutdown
  <2>2. Signal("shutdown", 0, 0) \in Signals /\ Signal("shutdown", 0, 0).kind # "erase"
    BY DEF Signal, Signals
  <2>3. \A k \in DOMAIN queue' : queue'[k].kind = "erase" => k \in DOMAIN queue /\ queue'[k] = queue[k]
    BY <1>0, <2>1, <2>2, OtherSignal DEF GoneInv
  <2> QED BY <1>4, <2>1, <2>3 DEF SealOk
<1>9. CASE EraseRequest
  <2>1. /\ SealOk("up") /\ UNCHANGED <<log, storeVars, jobVars>>
        /\ queue' = TrySend(AfterSeal, Signal("erase", Len(reqs) + 1, closed'))
    BY <1>5, <1>9 DEF EraseRequest, UpTo
  <2>2. closed' = Len(log) /\ writer' = "up"
    BY <2>1 DEF SealOk
  <2>3. PICK p \in Ids :
          reqs' = Append(reqs, [person |-> p, asked |-> Len(log), ids |-> {},
                                state |-> IF Len(AfterSeal) < SignalMax THEN "waiting" ELSE "error"])
    BY <1>9 DEF EraseRequest
  <2> DEFINE n == Len(reqs) + 1
             q == AfterSeal
             s == Signal("erase", n, Len(log))
  <2>4. /\ q \in Seq(Signals)
        /\ \A k \in DOMAIN q : q[k].kind = "erase" => k \in DOMAIN queue /\ q[k] = queue[k]
    BY <1>0, <1>6, AfterSealSignals, OtherSignal DEF GoneInv
  <2>5. s \in Signals /\ s.kind = "erase" /\ s.req = n /\ s.through = Len(log)
    BY <1>1 DEF Signal, Signals
  <2>6. /\ DOMAIN reqs' = 1..n /\ reqs'[n].asked = Len(log) /\ reqs'[n].ids = {}
        /\ reqs'[n].state \in {"waiting", "error"}
        /\ Len(q) < SignalMax => reqs'[n].state = "waiting"
        /\ \A r \in DOMAIN reqs : r \in DOMAIN reqs' /\ r # n /\ reqs'[r] = reqs[r]
    BY <1>0, <1>1, <2>3 DEF MessagesOK
  <2>7. queue' = IF Len(q) < SignalMax THEN Append(q, s) ELSE q
    BY <2>1, <2>2 DEF TrySend
  <2>8. \A r \in DOMAIN reqs' : r \in DOMAIN reqs \/ r = n
    BY <1>1, <2>6
  <2> HIDE DEF n, q, s
  <2>9. \A k \in DOMAIN queue' : queue'[k].kind = "erase" =>
          \/ k \in DOMAIN queue /\ queue'[k] = queue[k]
          \/ Len(q) < SignalMax /\ queue'[k] = s /\ k = Len(q) + 1
    BY <2>4, <2>5, <2>7
  <2>10. RequestsOK'
    <3>1. \A r \in DOMAIN reqs' : reqs'[r].asked <= Len(log')
      BY <1>1, <2>1, <2>6, <2>8 DEF GoneInv, RequestsOK
    <3>2. ASSUME NEW k \in DOMAIN queue', queue'[k].kind = "erase"
          PROVE  /\ queue'[k].req \in DOMAIN reqs' /\ reqs'[queue'[k].req].state = "waiting"
                 /\ reqs'[queue'[k].req].asked <= queue'[k].through /\ queue'[k].req # cur'
      <4>1. CASE k \in DOMAIN queue /\ queue'[k] = queue[k]
        BY <2>1, <2>6, <3>2, <4>1 DEF GoneInv, RequestsOK, jobVars
      <4>2. CASE Len(q) < SignalMax /\ queue'[k] = s
        <5>1. n # cur /\ n \in DOMAIN reqs'
          <6>1. n # 0 /\ n \notin DOMAIN reqs /\ n \in 1..n
            BY <1>1 DEF n
          <6> QED BY <2>6, <6>1 DEF GoneInv, RequestsOK
        <5> QED BY <1>1, <2>1, <2>5, <2>6, <4>2, <5>1 DEF jobVars
      <4> QED BY <2>9, <3>2, <4>1, <4>2
    <3>3. ASSUME NEW j \in DOMAIN queue', NEW k \in DOMAIN queue', queue'[j].kind = "erase",
                 queue'[k].kind = "erase", queue'[j].req = queue'[k].req
          PROVE  j = k
      <4>1. n \notin DOMAIN reqs
        BY <1>1 DEF n
      <4> QED BY <2>5, <2>9, <3>3, <4>1 DEF GoneInv, RequestsOK
    <3>4. cur # 0 => cur \in DOMAIN reqs' /\ reqs'[cur].state = "waiting" /\ reqs'[cur].asked <= through
      BY <2>6 DEF GoneInv, RequestsOK
    <3> QED BY <2>1, <3>1, <3>2, <3>3, <3>4 DEF RequestsOK, jobVars
  <2>11. RewriteOK'
    <3>1. cur # 0 => cur \in DOMAIN reqs /\ reqs'[cur] = reqs[cur]
      BY <2>6 DEF GoneInv, RequestsOK
    <3> QED BY <2>1, <3>1 DEF GoneInv, RewriteOK, jobVars, storeVars, IdOf
  <2>12. ErasedIsGone'
    BY <2>1, <2>6, <2>8 DEF GoneInv, ErasedIsGone, IdOf, storeVars
  <2> QED BY <2>2, <2>10, <2>11, <2>12 DEF GoneInv
<1> QED BY <1>3, <1>7, <1>8, <1>9 DEF Writing

\* The steps of the publisher that leave the requests and the files alone.
LEMMA GoneMoves ==
    ASSUME GoneInv, TypeOK', UNCHANGED <<log, writer, lake, ckpt, reqs, cur, through>>,
           queue' = queue \/ (queue # <<>> /\ queue' = Tail(queue)),
           phase' = phase, RewriteOK'
    PROVE  GoneInv'
<1>1. queue' = queue \/ \A k \in DOMAIN queue' : k \in Nat /\ k + 1 \in DOMAIN queue /\ queue'[k] = queue[k + 1]
  BY DEF GoneInv, TypeOK, MessagesOK
<1>2. RequestsOK'
  <2>1. CASE queue' = queue
    BY <2>1 DEF GoneInv, RequestsOK
  <2>2. CASE \A k \in DOMAIN queue' : k \in Nat /\ k + 1 \in DOMAIN queue /\ queue'[k] = queue[k + 1]
    <3>1. \A j, k \in DOMAIN queue' : j + 1 = k + 1 => j = k
      BY <2>2
    <3> QED BY <2>2, <3>1 DEF GoneInv, RequestsOK
  <2> QED BY <1>1, <2>1, <2>2
<1>3. ErasedIsGone'
  BY DEF GoneInv, ErasedIsGone, IdOf
<1> QED BY <1>2, <1>3 DEF GoneInv

\* Answering the request in hand, well or badly.
LEMMA GoneAnswer ==
    ASSUME GoneInv, TypeOK', cur # 0, NEW x \in {"ok", "not_found", "error"}, Answer(x),
           UNCHANGED <<logVars, storeVars, queue>>,
           x = "ok" => phase = "erase" /\ pc = "clear"
    PROVE  GoneInv'
<1>1. /\ reqs' = [reqs EXCEPT ![cur].state = x] /\ pc' = "idle" /\ cur' = 0 /\ phase' = "resume"
      /\ cur \in DOMAIN reqs /\ reqs[cur].state = "waiting"
  BY DEF Answer, GoneInv, RequestsOK
<1>2. \A r \in DOMAIN reqs : reqs[r] \in Requests
  BY DEF GoneInv, TypeOK, MessagesOK
<1>3. /\ DOMAIN reqs' = DOMAIN reqs
      /\ \A r \in DOMAIN reqs : /\ reqs'[r].asked = reqs[r].asked /\ reqs'[r].ids = reqs[r].ids
                                /\ r # cur => reqs'[r] = reqs[r]
      /\ reqs'[cur].state = x
  BY <1>1, <1>2 DEF Requests
<1>4. RequestsOK'
  <2>1. \A k \in DOMAIN queue' : queue'[k].kind = "erase" => queue'[k].req # 0
    <3>1. DOMAIN reqs = 1..Len(reqs) /\ Len(reqs) \in Nat
      BY DEF GoneInv, TypeOK, MessagesOK
    <3> QED BY <3>1 DEF GoneInv, RequestsOK
  <2> QED BY <1>1, <1>3, <2>1 DEF GoneInv, RequestsOK, logVars
<1>5. RewriteOK'
  BY <1>1 DEF RewriteOK
<1>6. ErasedIsGone'
  <2> SUFFICES ASSUME NEW r \in DOMAIN reqs, reqs'[r].state = "ok", NEW i \in 1..reqs[r].asked,
                      IdOf(i) \in reqs[r].ids
               PROVE  i <= ckpt /\ i \notin lake
    BY <1>3 DEF ErasedIsGone, IdOf, logVars, storeVars
  <2>1. CASE r = cur
    <3>1. phase = "erase" /\ pc = "clear"
      BY <1>3, <2>1
    <3>2. reqs[cur].asked \in Nat /\ ckpt \in Nat
      BY <1>1, <1>2 DEF Requests, GoneInv, TypeOK, CursorsOK
    <3> QED BY <2>1, <3>1, <3>2 DEF GoneInv, RewriteOK
  <2>2. CASE r # cur
    BY <1>3, <2>2 DEF GoneInv, ErasedIsGone
  <2> QED BY <2>1, <2>2
<1> QED BY <1>4, <1>5, <1>6 DEF GoneInv, logVars

\* Each step of the publisher keeps it.
LEMMA GonePublishing ==
    ASSUME GoneInv, TypeOK', Publishing \/ EraseFails
    PROVE  GoneInv'
<1>0. /\ TypeOK /\ RequestsOK /\ RewriteOK /\ ErasedIsGone /\ writer # "poisoned"
      /\ DOMAIN reqs = 1..Len(reqs) /\ Len(reqs) \in Nat /\ ckpt \in Nat
      /\ \A r \in DOMAIN reqs : reqs[r] \in Requests /\ reqs[r].asked \in Nat
  <2>1. \A r \in Requests : r.asked \in Nat
    BY DEF Requests
  <2>2. DOMAIN reqs = 1..Len(reqs) /\ Len(reqs) \in Nat /\ ckpt \in Nat
    BY DEF GoneInv, TypeOK, MessagesOK, CursorsOK
  <2>3. \A r \in DOMAIN reqs : reqs[r] \in Requests
    BY DEF GoneInv, TypeOK, MessagesOK
  <2> QED BY <2>1, <2>2, <2>3 DEF GoneInv
<1> USE DEF logVars, storeVars, jobVars, IdOf
<1>1. CASE Tick \/ TickEnd \/ TakeShutdown \/ Stopped
  <2>1. UNCHANGED <<log, writer, lake, ckpt, reqs, cur, through>> /\ phase' = phase
        /\ (queue' = queue \/ (queue # <<>> /\ queue' = Tail(queue)))
    BY <1>1 DEF Tick, TickEnd, TakeShutdown, Stopped
  <2>2. RewriteOK'
    BY <1>0, <1>1 DEF RewriteOK, Tick, TickEnd, TakeShutdown, Stopped
  <2> QED BY <2>1, <2>2, GoneMoves
<1>2. CASE Resume \/ RewriteDone \/ Clear \/ Resumed
  <2>1. UNCHANGED <<log, writer, lake, ckpt, reqs, cur, through, queue, phase>>
    BY <1>2 DEF Resume, RewriteDone, Clear, Resumed
  <2>2. RewriteOK'
    BY <1>0, <1>2 DEF RewriteOK, Resume, RewriteDone, Clear, Resumed, Doomed
  <2> QED BY <2>1, <2>2, GoneMoves
<1>3. ASSUME PublishWindow, UNCHANGED <<logVars, jobVars, queue, reqs>>, pc \notin {"rewrite", "clear"}
      PROVE  GoneInv'
  <2>1. ckpt' = ckpt + 1 /\ lake' = lake \cup {ckpt + 1}
    BY <1>3 DEF PublishWindow
  <2>2. RequestsOK' /\ RewriteOK'
    BY <1>0, <1>3 DEF RequestsOK, RewriteOK
  <2>3. ErasedIsGone'
    <3> SUFFICES ASSUME NEW r \in DOMAIN reqs, reqs[r].state = "ok", NEW i \in 1..reqs[r].asked,
                        IdOf(i) \in reqs[r].ids
                 PROVE  i <= ckpt + 1 /\ i \notin lake \cup {ckpt + 1}
      BY <1>3, <2>1 DEF ErasedIsGone
    <3>1. i <= ckpt /\ i \notin lake /\ i \in Nat
      BY <1>0 DEF ErasedIsGone
    <3> QED BY <1>0, <3>1
  <2> QED BY <1>0, <1>3, <2>2, <2>3 DEF GoneInv
<1>4. CASE TickPublish \/ Drain \/ PublishThrough
  BY <1>3, <1>4 DEF TickPublish, Drain, PublishThrough
<1>5. CASE TakeErase
  <2>1. /\ queue # <<>> /\ queue[1].kind = "erase" /\ cur' = queue[1].req
        /\ through' = queue[1].through /\ queue' = Tail(queue) /\ pc' = "resume"
        /\ UNCHANGED <<log, writer, lake, ckpt, phase, reqs>>
    BY <1>0, <1>5 DEF TakeErase, TypeOK, MessagesOK
  <2>2. /\ 1 \in DOMAIN queue
        /\ \A k \in DOMAIN queue' : k \in Nat /\ k + 1 \in DOMAIN queue /\ k + 1 # 1 /\ queue'[k] = queue[k + 1]
    BY <1>0, <2>1 DEF TypeOK, MessagesOK
  <2>3. \A j, k \in DOMAIN queue' : j + 1 = k + 1 => j = k
    BY <2>2
  <2>4. RequestsOK'
    BY <1>0, <2>1, <2>2, <2>3 DEF RequestsOK
  <2>5. RewriteOK'
    BY <1>0, <1>5, <2>1 DEF RewriteOK, TakeErase
  <2>6. ErasedIsGone'
    BY <1>0, <2>1 DEF ErasedIsGone
  <2> QED BY <1>0, <2>1, <2>4, <2>5, <2>6 DEF GoneInv
<1>6. CASE Rewrite
  <2>1. PICK i \in Doomed : lake' = lake \ {i}
    BY <1>6 DEF Rewrite
  <2>2. UNCHANGED <<log, writer, ckpt, reqs, pc, phase, cur, through, batch, queue>> /\ pc = "rewrite"
    BY <1>6 DEF Rewrite
  <2>3. RequestsOK' /\ RewriteOK' /\ ErasedIsGone'
    BY <1>0, <2>1, <2>2 DEF RequestsOK, RewriteOK, ErasedIsGone
  <2> QED BY <1>0, <2>2, <2>3 DEF GoneInv
<1>7. CASE Started
  <2>1. RequestsOK' /\ RewriteOK' /\ ErasedIsGone' /\ writer' # "poisoned"
    BY <1>0, <1>7 DEF Started, RequestsOK, RewriteOK, ErasedIsGone
  <2> QED BY <2>1 DEF GoneInv
<1>8. CASE EraseIdentity
  <2> DEFINE ids == {d \in Ids : owner[d] = reqs[cur].person}
  <2>1. /\ batch' = ids /\ phase' = "erase" /\ pc' = "rewrite" /\ cur # 0 /\ ckpt >= through
        /\ reqs' = [reqs EXCEPT ![cur].ids = ids]
        /\ UNCHANGED <<log, writer, ckpt, lake, cur, through, queue>>
    BY <1>8 DEF EraseIdentity, Limit
  <2>2. cur \in DOMAIN reqs /\ reqs[cur].state = "waiting" /\ reqs[cur].asked <= through /\ through \in Nat
    BY <1>0, <2>1 DEF RequestsOK, TypeOK, JobOK
  <2>3. /\ DOMAIN reqs' = DOMAIN reqs /\ reqs'[cur].ids = ids
        /\ \A r \in DOMAIN reqs : /\ reqs'[r].asked = reqs[r].asked /\ reqs'[r].state = reqs[r].state
                                  /\ r # cur => reqs'[r] = reqs[r]
    BY <1>0, <2>1, <2>2 DEF Requests
  <2> HIDE DEF ids
  <2>4. RequestsOK'
    BY <1>0, <2>1, <2>2, <2>3 DEF RequestsOK
  <2>5. RewriteOK'
    BY <1>0, <2>1, <2>2, <2>3 DEF RewriteOK
  <2>6. ErasedIsGone'
    BY <1>0, <2>1, <2>2, <2>3 DEF ErasedIsGone
  <2> QED BY <1>0, <2>1, <2>4, <2>5, <2>6 DEF GoneInv
<1>9. CASE EraseDone
  <2>1. cur # 0
    BY <1>0, <1>9 DEF EraseDone, RewriteOK
  <2> QED BY <1>9, <2>1, GoneAnswer DEF EraseDone
<1>10. CASE EraseFails
  BY <1>10, GoneAnswer DEF EraseFails
<1> QED BY <1>1, <1>2, <1>4, <1>5, <1>6, <1>7, <1>8, <1>9, <1>10 DEF Publishing

\* A kill forgets the requests under way, and their callers get no answer.
LEMMA GoneCrash ==
    ASSUME GoneInv, TypeOK', Kill \/ Open
    PROVE  GoneInv'
<1>1. RequestsOK /\ RewriteOK /\ ErasedIsGone /\ writer # "poisoned"
  BY DEF GoneInv
<1>2. CASE Kill
  <2>1. /\ UNCHANGED <<log, ckpt, lake>> /\ writer' = "stopped" /\ queue' = <<>>
        /\ pc' = "down" /\ cur' = 0 /\ phase' = "resume"
        /\ reqs' = [r \in DOMAIN reqs |->
                      IF reqs[r].state = "waiting" THEN [reqs[r] EXCEPT !.state = "lost"]
                      ELSE reqs[r]]
    BY <1>2 DEF Kill, storeVars
  <2>2. \A r \in DOMAIN reqs : reqs[r] \in Requests
    BY DEF GoneInv, TypeOK, MessagesOK
  <2>3. /\ DOMAIN reqs' = DOMAIN reqs
        /\ \A r \in DOMAIN reqs : /\ reqs'[r].asked = reqs[r].asked
                                  /\ reqs'[r].state = "ok" => reqs'[r] = reqs[r]
    BY <2>1, <2>2 DEF Requests
  <2>4. RequestsOK' /\ RewriteOK'
    BY <1>1, <2>1, <2>3 DEF RequestsOK, RewriteOK
  <2>5. ErasedIsGone'
    BY <1>1, <2>1, <2>3 DEF ErasedIsGone, IdOf
  <2> QED BY <2>1, <2>4, <2>5 DEF GoneInv
<1>3. CASE Open
  <2>1. UNCHANGED <<log, writer, ckpt, lake, phase, cur, through, batch, queue, reqs>> /\ pc = "down"
    BY <1>3 DEF Open, storeVars
  <2>2. RequestsOK' /\ RewriteOK' /\ ErasedIsGone'
    BY <1>1, <2>1 DEF RequestsOK, RewriteOK, ErasedIsGone, IdOf
  <2> QED BY <1>1, <2>1, <2>2 DEF GoneInv
<1> QED BY <1>2, <1>3

\* As long as no seal fails, an answered erasure covers every event that was
\* acknowledged before the request, and none of them ever comes back, under
\* every interleaving of the two threads, failing steps and kills.
THEOREM ErasedIsGoneAlways == ASSUME "seal" \notin Faults PROVE Spec => []ErasedIsGone
<1>1. Init => GoneInv
  <2> SUFFICES ASSUME Init PROVE GoneInv
    OBVIOUS
  <2>1. TypeOK
    BY InvInit DEF Inv
  <2>2. RequestsOK /\ RewriteOK /\ ErasedIsGone /\ writer # "poisoned"
    BY DEF Init, RequestsOK, RewriteOK, ErasedIsGone
  <2> QED BY <2>1, <2>2 DEF GoneInv
<1>2. GoneInv /\ TypeOK' /\ [Next]_vars => GoneInv'
  <2> SUFFICES ASSUME GoneInv, TypeOK', [Next]_vars PROVE GoneInv'
    OBVIOUS
  <2>1. CASE UNCHANGED vars
    BY <2>1 DEF vars, GoneInv, RequestsOK, RewriteOK, ErasedIsGone, IdOf, logVars, storeVars, jobVars
  <2> QED BY <2>1, GoneWriting, GonePublishing, GoneCrash DEF Next
<1>3. GoneInv => ErasedIsGone
  BY DEF GoneInv
<1> QED BY <1>1, <1>2, <1>3, TypeCorrect, PTL DEF Spec
=============================================================================
