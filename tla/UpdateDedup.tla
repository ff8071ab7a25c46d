----------------------------- MODULE UpdateDedup -----------------------------
(***************************************************************************)
(* The cache of recent updates of pytmbot/middleware/update_dedup.py: a    *)
(* dict of keys with their expiry, and a queue that says in which order    *)
(* they are dropped.  Every operator is one critical section.              *)
(***************************************************************************)
EXTENDS Integers, FiniteSets, Sequences

CONSTANTS
    Keys,        \* the deduplication keys of updates
    Ttl,         \* ttl_seconds
    MaxEntries   \* max_entries

DedupConstants == Ttl \in Nat \ {0} /\ MaxEntries \in Nat \ {0}

VARIABLES
    entries,   \* _entries: key -> expiry
    queue      \* _queue: the keys with the expiry they were entered with

dedupVars == <<entries, queue>>

Cached == DOMAIN entries

\* An entry of the queue that its key has outlived.
Superseded(e, x) == x.key \notin DOMAIN e \/ e[x.key] # x.expiry

\* What is left of the entries when the first n places of the queue are gone.
Left(e, q, n) ==
    [k \in {k \in DOMAIN e : \A i \in 1 .. n : q[i] # [key |-> k, expiry |-> e[k]]} |-> e[k]]

\* _prune_locked: places go from the front while they are superseded or
\* expired, or entries are too many.
Removable(e, x, t) ==
    Superseded(e, x) \/ x.expiry <= t \/ Cardinality(DOMAIN e) > MaxEntries

Gone(e, q, t) ==
    {i \in DOMAIN q : \A j \in 1 .. i : Removable(Left(e, q, j - 1), q[j], t)}

Prune(e, q, t) ==
    LET n == Cardinality(Gone(e, q, t))
    IN  [entries |-> Left(e, q, n), queue |-> SubSeq(q, n + 1, Len(q))]

Enter(r, k, t) ==
    [entries |-> [j \in DOMAIN r.entries \cup {k} |->
                    IF j = k THEN t + Ttl ELSE r.entries[j]],
     queue   |-> Append(r.queue, [key |-> k, expiry |-> t + Ttl])]

\* Fault: off by one second at the end.
FreshTooShort(e, k, t) == k \in DOMAIN e /\ e[k] > t + 1

Fresh(e, k, t) == k \in DOMAIN e /\ e[k] > t

\* _check_and_register with the time t: a fresh key is a duplicate, any
\* other is entered, and the cache is pruned before and after.
Known(k, t) == Fresh(Prune(entries, queue, t).entries, k, t)

Register(k, t) ==
    LET pruned == Prune(entries, queue, t)
        after  == IF Known(k, t) THEN pruned
                  ELSE LET r == Enter(pruned, k, t)
                       IN  Prune(r.entries, r.queue, t)
    IN  entries' = after.entries /\ queue' = after.queue

DedupInit == entries = [k \in {} |-> 0] /\ queue = << >>
=============================================================================
