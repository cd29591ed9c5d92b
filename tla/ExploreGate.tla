---------------------------- MODULE ExploreGate ----------------------------
(***************************************************************************)
(* Admission and deadlines of the explore read path                        *)
(* (src/src/explore/mod.rs Explorer::run, with_connection): two            *)
(* semaphores, a pool of connections, and an interrupt that another        *)
(* thread fires at the connection of a query that passed its deadline.     *)
(*                                                                         *)
(* A query has a caller (the request's future) and a task (the blocking    *)
(* thread); the slot they share, behind a mutex, holds the interrupt       *)
(* handle while the task works.                                            *)
(***************************************************************************)
EXTENDS Naturals, FiniteSets

CONSTANTS
    Queries,        \* explore requests
    Connections,    \* connections that may be open at once
    MaxConcurrent, MaxQueuedReads, \* MAX_CONCURRENT, MAX_QUEUED
    NoConnection

ASSUME GateAssumption ==
    /\ IsFiniteSet(Queries)
    /\ NoConnection \notin Connections
    /\ MaxConcurrent \in Nat \ {0} /\ MaxQueuedReads \in Nat

VARIABLES
    caller,     \* "idle", "queued", "waiting", "taking", "interrupting", "done"
    task,       \* "none", "starting", "working", "clearing", "returning"
    conn,       \* the connection the task holds
    slot,       \* the handle in the shared slot
    handle,     \* the handle the caller took out of it
    idle,       \* connections in the pool
    stray       \* observed: an interrupt reached a connection its query had left

gateVars == <<caller, task, conn, slot, handle, idle, stray>>

\* A query holds its permits from admission until its task has returned.
Queued(q) == caller[q] = "queued"
Running(q) == task[q] # "none"
QueuePermits == MaxConcurrent + MaxQueuedReads - Cardinality({q \in Queries : Queued(q) \/ Running(q)})
RunningPermits == MaxConcurrent - Cardinality({q \in Queries : Running(q)})

\* (PermitsWithCaller: a query gives its permits back when its caller leaves.)
PermitsWithCaller == MaxConcurrent - Cardinality({q \in Queries : Running(q) /\ caller[q] # "done"})

RunPermits == RunningPermits

\* try_acquire_owned on the queue; full is Busy.
Admit(q) ==
    /\ caller[q] = "idle" /\ task[q] = "none" /\ QueuePermits > 0
    /\ caller' = [caller EXCEPT ![q] = "queued"]
    /\ UNCHANGED <<task, conn, slot, handle, idle, stray>>

\* The running permit, then spawn_blocking, which takes both permits along.
Spawn(q) ==
    /\ caller[q] = "queued" /\ RunPermits > 0
    /\ caller' = [caller EXCEPT ![q] = "waiting"]
    /\ task' = [task EXCEPT ![q] = "starting"]
    /\ UNCHANGED <<conn, slot, handle, idle, stray>>

-----------------------------------------------------------------------------
(* The task. *)

\* A connection from the pool, or a clone of the root; its handle into the slot.
with_connection(q) ==
    /\ task[q] = "starting" /\ caller[q] # "interrupting"
    /\ \E c \in Connections :
         /\ IF idle # {} THEN c \in idle ELSE \A r \in Queries : conn[r] # c
         /\ conn' = [conn EXCEPT ![q] = c]
         /\ slot' = [slot EXCEPT ![q] = c]
         /\ idle' = idle \ {c}
    /\ task' = [task EXCEPT ![q] = "working"]
    /\ UNCHANGED <<caller, handle, stray>>

WorkReturns(q) ==
    /\ task[q] = "working"
    /\ task' = [task EXCEPT ![q] = "clearing"]
    /\ UNCHANGED <<caller, conn, slot, handle, idle, stray>>

\* (SlotUnlocked: the caller lets the lock go before it interrupts.)
SlotUnlocked(q) == TRUE

\* The caller holds the slot's lock from taking the handle until it interrupted.
SlotFree(q) == caller[q] # "interrupting"

ClearSlot(q) ==
    /\ task[q] = "clearing" /\ SlotFree(q)
    /\ slot' = [slot EXCEPT ![q] = NoConnection]
    /\ task' = [task EXCEPT ![q] = "returning"]
    /\ UNCHANGED <<caller, conn, handle, idle, stray>>

\* The pool keeps MAX_CONCURRENT + 1 connections; then the permits drop.
ReturnToPool(q) ==
    /\ task[q] = "returning"
    /\ idle' = IF Cardinality(idle) < MaxConcurrent + 1 THEN idle \union {conn[q]} ELSE idle
    /\ conn' = [conn EXCEPT ![q] = NoConnection]
    /\ task' = [task EXCEPT ![q] = "none"]
    /\ UNCHANGED <<caller, slot, handle, stray>>

-----------------------------------------------------------------------------
(* The caller. *)

\* The task ended in time.
AnswerInTime(q) ==
    /\ caller[q] = "waiting" /\ task[q] = "none"
    /\ caller' = [caller EXCEPT ![q] = "done"]
    /\ UNCHANGED <<task, conn, slot, handle, idle, stray>>

\* QUERY_TIMEOUT: take the handle, if the task has put one there.
Timeout(q) ==
    /\ caller[q] = "waiting" /\ task[q] # "none"
    /\ handle' = [handle EXCEPT ![q] = slot[q]]
    /\ slot' = [slot EXCEPT ![q] = NoConnection]
    /\ caller' = [caller EXCEPT ![q] = IF slot[q] = NoConnection THEN "done" ELSE "interrupting"]
    /\ UNCHANGED <<task, conn, idle, stray>>

Interrupt(q) ==
    /\ caller[q] = "interrupting"
    /\ stray' = (stray \/ conn[q] # handle[q])
    /\ handle' = [handle EXCEPT ![q] = NoConnection]
    /\ caller' = [caller EXCEPT ![q] = "done"]
    /\ UNCHANGED <<task, conn, slot, idle>>

\* The client disconnects while its future waits: nobody interrupts the task.
Leave(q) ==
    /\ caller[q] \in {"queued", "waiting"}
    /\ caller' = [caller EXCEPT ![q] = "done"]
    /\ UNCHANGED <<task, conn, slot, handle, idle, stray>>

\* The same client asks again once its earlier query is over.
AskAgain(q) ==
    /\ caller[q] = "done" /\ task[q] = "none"
    /\ caller' = [caller EXCEPT ![q] = "idle"]
    /\ UNCHANGED <<task, conn, slot, handle, idle, stray>>

GateInit ==
    /\ caller = [q \in Queries |-> "idle"] /\ task = [q \in Queries |-> "none"]
    /\ conn = [q \in Queries |-> NoConnection] /\ slot = [q \in Queries |-> NoConnection]
    /\ handle = [q \in Queries |-> NoConnection] /\ idle = {} /\ stray = FALSE

GateNext ==
    \E q \in Queries :
        \/ Admit(q) \/ Spawn(q) \/ with_connection(q) \/ WorkReturns(q) \/ ClearSlot(q)
        \/ ReturnToPool(q) \/ AnswerInTime(q) \/ Timeout(q) \/ Interrupt(q) \/ Leave(q) \/ AskAgain(q)

\* A deadline interrupts only its own query, never the next one on the same
\* connection; a connection has one user at a time; and queries whose callers
\* timed out or left still count, so that no more than MAX_CONCURRENT run and
\* the pool stays bounded (explore/mod.rs run, with_connection).
DeadlinesHitOwnQuery ==
    /\ ~stray
    /\ \A q, r \in Queries : q # r /\ conn[q] # NoConnection => conn[q] # conn[r]
    /\ \A q \in Queries : conn[q] \notin idle
    /\ Cardinality({q \in Queries : Running(q)}) <= MaxConcurrent
    /\ Cardinality(idle) <= MaxConcurrent + 1
=============================================================================
