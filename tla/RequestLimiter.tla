--------------------------- MODULE RequestLimiter ---------------------------
(***************************************************************************)
(* RateLimit of webhook.py: a window of request times and a ban for each   *)
(* IP address, for at most MaxTracked addresses.  Every call holds the     *)
(* lock for its whole length.  The file that carries bans over a restart   *)
(* is left out: a run starts without one.                                   *)
(***************************************************************************)
EXTENDS Naturals, Sequences, FiniteSets

CONSTANTS
    IPs,
    Limit,        \* requests per period
    Period,
    BanThreshold, \* ban_threshold
    BanTTL,       \* BAN_TTL_SECONDS
    MaxTracked,   \* max_tracked_ips
    CleanEvery,   \* sixty seconds
    MaxTime,      \* bound: the clock
    MaxRequests   \* bound: requests of one address

VARIABLES
    limiter, \* requests, banned_ips, _last_seen (oldest first), _last_cleanup_ts
    now,
    sent     \* history: the times of the requests of each address

vars == <<limiter, now, sent>>

Only(f, S) == [x \in DOMAIN f \cap S |-> f[x]]
Set(f, x, v) == [y \in DOMAIN f \cup {x} |-> IF y = x THEN v ELSE f[y]]
Recent(times) == SelectSeq(times, LAMBDA t : t >= now - Period)

\* _drop_ip_state
Drop(l, S) ==
    [l EXCEPT !.requests = Only(@, IPs \ S), !.banned = Only(@, IPs \ S),
              !.seen = SelectSeq(@, LAMBDA ip : ip \notin S)]

\* _evict_oldest_ip, n times
Evict(l, n) == Drop(l, {l.seen[i] : i \in 1..n})

BanOver(l, ip) == now - l.banned[ip] > BanTTL

\* _cleanup_state, which a call runs first and is_banned runs again.
Cleaned(l) ==
    LET expired == {ip \in DOMAIN l.banned : BanOver(l, ip)}
        kept    == [l EXCEPT !.cleaned = now, !.banned = Only(@, IPs \ expired)]
        stale   == {ip \in DOMAIN l.requests \ DOMAIN kept.banned : l.requests[ip] = << >>}
        rest    == Drop(kept, stale)
    IN  IF now - l.cleaned < CleanEvery /\ Len(l.seen) <= MaxTracked
          THEN l
          ELSE Evict(rest, IF Len(rest.seen) > MaxTracked
                             THEN Len(rest.seen) - MaxTracked ELSE 0)

\* The address becomes the one seen last, in the place of the oldest if new.
Seen(l, ip) ==
    LET new  == ip \notin DOMAIN l.requests /\ \A i \in DOMAIN l.seen : l.seen[i] # ip
        room == IF new /\ Len(l.seen) >= MaxTracked THEN Evict(l, 1) ELSE l
    IN  [room EXCEPT !.seen = Append(SelectSeq(@, LAMBDA x : x # ip), ip)]

\* The part of is_rate_limited after the ban check: ban, refuse or count.
Judged(l, ip) ==
    LET window == IF ip \in DOMAIN l.requests THEN Recent(l.requests[ip]) ELSE << >>
        kept   == [l EXCEPT !.requests = Set(@, ip, window)]
    IN  IF Len(window) >= BanThreshold
          THEN [kept EXCEPT !.banned = Set(@, ip, now)]
          ELSE IF Len(window) >= Limit
                 THEN kept
                 ELSE [kept EXCEPT !.requests[ip] = Append(@, now)]

\* is_rate_limited
IsRateLimited(ip) ==
    LET l == Cleaned(Seen(Cleaned(limiter), ip))
    IN  limiter' = IF ip \notin DOMAIN l.banned
                     THEN Judged(l, ip)
                     ELSE IF BanOver(l, ip)
                            THEN Judged([l EXCEPT !.banned = Only(@, IPs \ {ip})], ip)
                            ELSE l

Request(ip) ==
    /\ Len(sent[ip]) < MaxRequests
    /\ IsRateLimited(ip)
    /\ sent' = [sent EXCEPT ![ip] = Append(@, now)]
    /\ UNCHANGED now

Tick == now < MaxTime /\ now' = now + 1 /\ UNCHANGED <<limiter, sent>>

Init ==
    /\ limiter = [requests |-> [ip \in {} |-> << >>], banned |-> [ip \in {} |-> 0],
                  seen |-> << >>, cleaned |-> 0]
    /\ now = 0
    /\ sent = [ip \in IPs |-> << >>]

Next == Tick \/ \E ip \in IPs : Request(ip)

Spec == Init /\ [][Next]_vars

----------------------------------------------------------------------------
(* Repeated abuse leads to a ban: an address that is still tracked and has  *)
(* sent more than BanThreshold requests within one period is banned.        *)
AbuseIsBanned ==
    \A ip \in DOMAIN limiter.requests :
      Len(Recent(sent[ip])) > BanThreshold => ip \in DOMAIN limiter.banned
=============================================================================
