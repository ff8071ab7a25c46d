------------------------------- MODULE Intake -------------------------------
(***************************************************************************)
(* The way of an update to its handler: UpdateDedup, then the access check *)
(* (see AccessControl; here it lets an update pass or not), then RateLimit *)
(* (DEFAULT_MIDDLEWARES of pytmbot_instance.py), on the worker threads of  *)
(* TeleBot.  Telegram delivers an update again whenever it likes, also     *)
(* while the first delivery is on its way.                                 *)
(*                                                                         *)
(* Both middlewares read the clock before they take their lock; a worker   *)
(* may be held up in between by MaxLag at most.  MaxTime bounds the clock. *)
(***************************************************************************)
EXTENDS UpdateDedup, RateLimit

CONSTANTS
    Workers,
    Sender(_),   \* Sender(k): the user an update comes from
    None,
    MaxLag, MaxTime

IntakeConstants ==
    /\ DedupConstants /\ RateConstants
    /\ \A k \in Keys : Sender(k) \in Users
    /\ MaxLag \in Nat /\ MaxTime \in Nat
    /\ MaxLag < Ttl /\ MaxLag < Period
    /\ None \notin Keys \cup Nat
    /\ IsFiniteSet(Workers) /\ Workers # {}

VARIABLES
    now,
    phase,     \* phase[w]: where worker w is in the chain
    update,    \* update[w]: the key of its update
    read,      \* read[w]: the time it read last
    entered,   \* history: entered[k], when update k last passed UpdateDedup
    pushed,    \* history: the updates whose entry went to make room
    repeated,  \* history: the updates that passed UpdateDedup again too early
    passes     \* history: the times at which a user's updates passed RateLimit

chain == <<phase, update, read>>
history == <<entered, pushed, repeated, passes>>
vars == <<now, entries, queue, requests, phase, update, read,
          entered, pushed, repeated, passes>>

Goto(w, p) == phase' = [phase EXCEPT ![w] = p]
ReadClock(w) == read' = [read EXCEPT ![w] = now]

Finish(w) ==
    /\ Goto(w, "idle")
    /\ update' = [update EXCEPT ![w] = None]
    /\ read' = [read EXCEPT ![w] = 0]

\* pre_process of UpdateDedup up to the lock.
Deliver(w, k) ==
    /\ phase[w] = "idle"
    /\ Goto(w, "received")
    /\ update' = [update EXCEPT ![w] = k]
    /\ ReadClock(w)
    /\ UNCHANGED <<now, dedupVars, requests, history>>

\* Entries that were neither expired nor superseded and are gone.
PushedBy(t) == {k \in Cached \ DOMAIN entries' : entries[k] > t}

Dedup(w) ==
    LET k == update[w]
    IN  /\ phase[w] = "received"
        /\ Register(k, read[w])
        /\ \/ /\ Known(k, read[w])
              /\ pushed' = pushed \cup PushedBy(read[w])
              /\ Finish(w)
              /\ UNCHANGED <<entered, repeated>>
           \/ /\ ~Known(k, read[w])
              /\ Goto(w, "new")
              /\ pushed' = (pushed \cup PushedBy(read[w])) \ {k}
              /\ entered' = [entered EXCEPT ![k] = now]
              /\ repeated' = IF entered[k] # None /\ k \notin pushed
                                  /\ now - entered[k] < Ttl - MaxLag
                               THEN repeated \cup {k} ELSE repeated
              /\ UNCHANGED <<update, read>>
        /\ UNCHANGED <<now, requests, passes>>

\* AccessControl cancels the update, or RateLimit reads the clock.
Screen(w) ==
    /\ phase[w] = "new"
    /\ \/ Finish(w)
       \/ Goto(w, "admitted") /\ ReadClock(w) /\ UNCHANGED update
    /\ UNCHANGED <<now, dedupVars, requests, history>>

\* pre_process of RateLimit under its lock: the update goes to its handler,
\* or the user is warned.
Throttle(w) ==
    LET u == Sender(update[w])
    IN  /\ phase[w] = "admitted"
        /\ Track(u, read[w])
        /\ passes' = [passes EXCEPT ![u] = IF Limited(u, read[w]) THEN @ ELSE Append(@, now)]
        /\ Finish(w)
        /\ UNCHANGED <<now, dedupVars, entered, pushed, repeated>>

\* Times that no property looks at any more are forgotten.
Remembered(s, t) ==
    LET old == {i \in DOMAIN s : s[i] < t - Period - MaxLag}
    IN  SubSeq(s, Cardinality(old) + 1, Len(s))

Tick ==
    /\ now < MaxTime
    /\ \A w \in Workers : phase[w] \in {"received", "admitted"} => now - read[w] < MaxLag
    /\ now' = now + 1
    /\ passes' = [u \in Users |-> Remembered(passes[u], now')]
    /\ entered' = [k \in Keys |-> IF entered[k] # None /\ now' - entered[k] >= Ttl
                                    THEN None ELSE entered[k]]
    /\ UNCHANGED <<dedupVars, requests, chain, pushed, repeated>>

Init ==
    /\ now = 0
    /\ DedupInit /\ RateInit
    /\ phase = [w \in Workers |-> "idle"]
    /\ update = [w \in Workers |-> None]
    /\ read = [w \in Workers |-> 0]
    /\ entered = [k \in Keys |-> None]
    /\ pushed = {} /\ repeated = {}
    /\ passes = [u \in Users |-> << >>]

Next ==
    \/ \E w \in Workers :
         (\E k \in Keys : Deliver(w, k)) \/ Dedup(w) \/ Screen(w) \/ Throttle(w)
    \/ Tick

Spec == Init /\ [][Next]_vars

----------------------------------------------------------------------------
PassesSince(u, t) == Cardinality({i \in DOMAIN passes[u] : passes[u][i] >= t})

(* An update delivered again is handled again only when its entry is over, *)
(* counted from the oldest clock reading a worker can hold, or went to make *)
(* room for newer ones.  Readings that are out of order leave superseded    *)
(* places in the queue, at most one per worker that is held up.             *)
HandledOnce ==
    /\ repeated = {}
    /\ Len(queue) <= MaxEntries + Cardinality(Workers) - 1

(* No user gets more than the limit through in a period, less the delay of  *)
(* a worker between clock and lock.                                         *)
WindowHolds == \A u \in Users : PassesSince(u, now - (Period - MaxLag)) <= Limit

(* An update is refused only to a user who has used up the limit within the *)
(* period, plus that delay.                                                 *)
RefusedWithReason ==
    [][\A w \in Workers :
         phase[w] = "admitted" /\ phase'[w] = "idle" /\ UNCHANGED passes
           => PassesSince(Sender(update[w]), now - (Period + MaxLag)) >= Limit]_vars

(* The limit is exact up to the delay of a worker, in both directions:      *)
(* no step lets one request too many through, and none refuses one early.   *)
LimitIsExact == [][WindowHolds']_vars /\ RefusedWithReason
=============================================================================
