--------------------------- MODULE SystemReadings ---------------------------
(***************************************************************************)
(* How a reading of the system is taken (adapters/psutil/adapter.py): the  *)
(* method is cached for a while, under a lock and a cache with one place   *)
(* that all adapters share; the operation runs on one of the adapter's     *)
(* threads with a time limit, and what cannot be read is a fallback, which *)
(* is cached as well.                                                      *)
(***************************************************************************)
EXTENDS Naturals

CONSTANTS
    Readers,    \* threads that ask for the reading
    Adapters,   \* instances of PsutilAdapter
    Ttl,        \* ttl_seconds of the method
    Limit,      \* the time limit of the operation
    Workers,    \* max_workers of _timeout_executor
    MaxTime     \* bound of the clock

ReadingConstants ==
    /\ Ttl \in Nat \ {0} /\ Limit \in Nat \ {0} /\ Workers \in Nat \ {0} /\ MaxTime \in Nat
    /\ 0 \notin Readers /\ 0 \notin Adapters

VARIABLES
    now,
    cache,    \* the one entry: its adapter (0 is none), its stamp and the reading
    holder,   \* the reader that holds the lock of the cache
    reader,   \* reader -> where it is, when it called and began, what it got
    busy,     \* adapter -> its threads that hang or read something else
    closed    \* adapters that are closed

readingVars == <<now, cache, holder, reader, busy, closed>>

NoReading == [taken |-> 0, real |-> FALSE]
NoEntry == [of |-> 0, stamp |-> 0, reading |-> NoReading]
NotReading == [at |-> "idle", adapter |-> 0, called |-> 0, began |-> 0, got |-> NoReading]

ReadingsInit ==
    /\ now = 0 /\ cache = NoEntry /\ holder = 0
    /\ reader = [r \in Readers |-> NotReading]
    /\ busy = [a \in Adapters |-> 0] /\ closed = {}

\* The clock is read before the lock is waited for.
CallReading(r, a) ==
    /\ reader[r].at \in {"idle", "done"}
    /\ reader' = [reader EXCEPT ![r] =
                    [NotReading EXCEPT !.at = "waiting", !.adapter = a, !.called = now]]
    /\ UNCHANGED <<now, cache, holder, busy, closed>>

Fresh(r) == cache.of = reader[r].adapter /\ reader[r].called < cache.stamp + Ttl

Hit(r) ==
    /\ reader[r].at = "waiting" /\ holder = 0 /\ Fresh(r)
    /\ reader' = [reader EXCEPT ![r].at = "done", ![r].got = cache.reading]
    /\ UNCHANGED <<now, cache, holder, busy, closed>>

\* The place is made free, also by dropping the entry of another adapter,
\* and the operation is submitted.
Miss(r) ==
    /\ reader[r].at = "waiting" /\ holder = 0 /\ ~Fresh(r)
    /\ holder' = r /\ cache' = NoEntry
    /\ reader' = [reader EXCEPT ![r].at = "queued", ![r].began = now]
    /\ UNCHANGED <<now, busy, closed>>

Begin(r) ==
    /\ reader[r].at = "queued" /\ reader[r].adapter \notin closed
    /\ busy[reader[r].adapter] < Workers
    /\ reader' = [reader EXCEPT ![r].at = "reading"]
    /\ UNCHANGED <<now, cache, holder, busy, closed>>

\* The result is stored with the time of the call, and returned.
Return(r, reading) ==
    /\ cache' = [of |-> reader[r].adapter, stamp |-> reader[r].called, reading |-> reading]
    /\ holder' = 0
    /\ reader' = [reader EXCEPT ![r].at = "done", ![r].got = reading]

Read(r) ==
    /\ reader[r].at = "reading"
    /\ Return(r, [taken |-> reader[r].began, real |-> TRUE])
    /\ UNCHANGED <<now, busy, closed>>

\* The operation raises, or the executor is shut down.
ReadFails(r) ==
    /\ \/ reader[r].at = "reading"
       \/ reader[r].at = "queued" /\ reader[r].adapter \in closed
    /\ Return(r, [taken |-> reader[r].began, real |-> FALSE])
    /\ UNCHANGED <<now, busy, closed>>

\* The time limit: an operation that began keeps its thread.
TimeOut(r) ==
    /\ reader[r].at \in {"queued", "reading"} /\ now = reader[r].began + Limit
    /\ Return(r, [taken |-> reader[r].began, real |-> FALSE])
    /\ busy' = IF reader[r].at = "reading" THEN [busy EXCEPT ![reader[r].adapter] = @ + 1] ELSE busy
    /\ UNCHANGED <<now, closed>>

\* Another operation with a time limit takes a thread; a thread is free again.
OtherReading(a) ==
    /\ busy[a] < Workers /\ a \notin closed
    /\ \A r \in Readers : ~(reader[r].at = "reading" /\ reader[r].adapter = a)
    /\ busy' = [busy EXCEPT ![a] = @ + 1]
    /\ UNCHANGED <<now, cache, holder, reader, closed>>

ThreadFree(a) ==
    /\ busy[a] > 0 /\ busy' = [busy EXCEPT ![a] = @ - 1]
    /\ UNCHANGED <<now, cache, holder, reader, closed>>

\* close of an adapter: cancel_futures fails what is queued.
CloseAdapter(a) ==
    /\ a \notin closed /\ closed' = closed \cup {a}
    /\ UNCHANGED <<now, cache, holder, reader, busy>>

ReadingTick ==
    /\ now < MaxTime
    /\ \A r \in Readers : reader[r].at \in {"queued", "reading"} => now < reader[r].began + Limit
    /\ now' = now + 1
    /\ UNCHANGED <<cache, holder, reader, busy, closed>>

ReaderStep(r) == Hit(r) \/ Miss(r) \/ Begin(r) \/ Read(r) \/ ReadFails(r) \/ TimeOut(r)

ReadingsNext ==
    \/ \E r \in Readers : ReaderStep(r) \/ \E a \in Adapters : CallReading(r, a)
    \/ \E a \in Adapters : OtherReading(a) \/ ThreadFree(a) \/ CloseAdapter(a)
    \/ ReadingTick

----------------------------------------------------------------------------
(* What a caller gets, a reading or the fallback for one that failed, is not *)
(* older than the time to live when it called, however long readers waited   *)
(* for each other's lock and whichever adapter read.                         *)
ReadingsAreRecent ==
    \A r \in Readers : reader[r].at = "done" => reader[r].called < reader[r].got.taken + Ttl
=============================================================================
