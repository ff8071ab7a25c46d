---------------------------- MODULE MetricWriter ----------------------------
(***************************************************************************)
(* InfluxDBInterface of influxdb_interface.py: writes are handed to a pool *)
(* of one thread, at most Slots of them at a time, and the client is       *)
(* opened by whoever needs it.  A pool that is taken down is not reused: a *)
(* later write makes a new one.  The pools are numbered in that order.     *)
(* The retries of a write are part of it; the caches of queries are data.  *)
(***************************************************************************)
EXTENDS Naturals

CONSTANTS
    Slots,   \* _ASYNC_WRITE_MAX_PENDING_TASKS
    Writers  \* bound: pools, the numbers 1..Writers

ASSUME WriterConstants == {Slots, Writers} \subseteq Nat \ {0}

VARIABLES
    free,    \* _async_write_slots
    writer,  \* _async_write_executor: 0 for None
    made,    \* how many pools there have been
    down,    \* pools that have been shut down
    waiting, \* tasks in the queue of each pool
    busy,    \* what the thread of each pool is doing
    client   \* _client

writerVars == <<free, writer, made, down, waiting, busy, client>>

Pools == 1..Writers

WriterInit ==
    /\ free = Slots
    /\ writer = 1 /\ made = 1
    /\ down = {}
    /\ waiting = [p \in Pools |-> 0]
    /\ busy = [p \in Pools |-> "idle"]
    /\ client = "closed"

----------------------------------------------------------------------------
(* write_data_async, in the steps between its locks.                       *)

Acquire ==
    /\ free > 0
    /\ free' = free - 1
    /\ UNCHANGED <<writer, made, down, waiting, busy, client>>

NoSlot == free = 0 /\ UNCHANGED writerVars

\* The pool of this moment, or a new one.
GetPool(p) ==
    /\ p = IF writer = 0 THEN made + 1 ELSE writer
    /\ p \in Pools
    /\ writer' = p
    /\ made' = IF p > made THEN p ELSE made
    /\ UNCHANGED <<free, down, waiting, busy, client>>

\* Fault: a write that cannot be submitted keeps its slot.
SubmitKeepingSlot(p) ==
    /\ waiting' = IF p \in down THEN waiting ELSE [waiting EXCEPT ![p] = @ + 1]
    /\ UNCHANGED <<free, writer, made, down, busy, client>>

\* A pool that has been shut down refuses: the slot is given back.
Submit(p) ==
    /\ IF p \in down
         THEN free' = free + 1 /\ UNCHANGED waiting
         ELSE waiting' = [waiting EXCEPT ![p] = @ + 1] /\ UNCHANGED free
    /\ UNCHANGED <<writer, made, down, busy, client>>

----------------------------------------------------------------------------
(* The thread of a pool.                                                   *)

TakeTask(p) ==
    /\ busy[p] = "idle" /\ waiting[p] > 0
    /\ waiting' = [waiting EXCEPT ![p] = @ - 1]
    /\ busy' = [busy EXCEPT ![p] = "opening"]
    /\ UNCHANGED <<free, writer, made, down, client>>

OpenClient(p) ==
    /\ busy[p] = "opening"
    /\ client' = "open"
    /\ busy' = [busy EXCEPT ![p] = "writing"]
    /\ UNCHANGED <<free, writer, made, down, waiting>>

\* The task ends, written or not, and gives its slot back.
EndTask(p) ==
    /\ busy[p] \in {"opening", "writing"}
    /\ busy' = [busy EXCEPT ![p] = "idle"]
    /\ free' = free + 1
    /\ UNCHANGED <<writer, made, down, waiting, client>>

TaskStep(p) == TakeTask(p) \/ OpenClient(p) \/ EndTask(p)

----------------------------------------------------------------------------
Connect ==
    /\ client' = "open"
    /\ UNCHANGED <<free, writer, made, down, waiting, busy>>

Close ==
    /\ client' = "closed"
    /\ UNCHANGED <<free, writer, made, down, waiting, busy>>

\* shutdown_async_writes: the pool is let go, told, and waited for.
LetGo ==
    /\ writer' = 0
    /\ UNCHANGED <<free, made, down, waiting, busy, client>>

ShutDown(p) ==
    /\ down' = down \cup {p}
    /\ UNCHANGED <<free, writer, made, waiting, busy, client>>

\* Fault: the queue is empty, but the last task may still run.
DrainedQueue(p) == waiting[p] = 0

Drained(p) == waiting[p] = 0 /\ busy[p] = "idle"
=============================================================================
