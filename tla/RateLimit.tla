------------------------------ MODULE RateLimit ------------------------------
(***************************************************************************)
(* The sliding window of pytmbot/middleware/rate_limit.py.  The counters   *)
(* of violations only decide which refusals are logged; they are left out. *)
(***************************************************************************)
EXTENDS Integers, FiniteSets, Sequences

CONSTANTS
    Users,
    Limit,    \* limit
    Period    \* period

RateConstants == Limit \in Nat \ {0} /\ Period \in Nat \ {0}

VARIABLE requests   \* _user_requests: the times of the requests, per user

\* _clean_old_requests_locked: old times go from the front, up to the first
\* that is in the window.
Recent(s, t) ==
    LET old == {i \in DOMAIN s : \A j \in 1 .. i : s[j] < t - Period}
    IN  SubSeq(s, Cardinality(old) + 1, Len(s))

\* Fault: off by one.
LimitedLate(u, t) == Len(Recent(requests[u], t)) > Limit

Limited(u, t) == Len(Recent(requests[u], t)) >= Limit

\* _check_and_track_request with the time t.
Track(u, t) ==
    requests' = [requests EXCEPT ![u] =
                   IF Limited(u, t) THEN Recent(@, t) ELSE Append(Recent(@, t), t)]

RateInit == requests = [u \in Users |-> << >>]
=============================================================================
