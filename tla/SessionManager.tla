--------------------------- MODULE SessionManager ---------------------------
(***************************************************************************)
(* The in-memory session store of pytmbot/middleware/session_manager.py.   *)
(*                                                                         *)
(* _user_sessions is a Python dict: a function whose domain is the set of  *)
(* users that have a session, together with the order in which the keys    *)
(* were inserted (the eviction reads it).  Every public method takes the   *)
(* class-wide RLock, so every method is one atomic action here; what a     *)
(* handler does between two calls is left to the modules that extend this  *)
(* one.  Almost every method, the getters included, goes through           *)
(* session_context and therefore creates a session that is missing, which  *)
(* may evict others.                                                       *)
(*                                                                         *)
(* Time is counted in minutes.  MaxTime and AttemptCap bound the clock and *)
(* the attempt counter of an instance; they are not in the code.           *)
(***************************************************************************)
EXTENDS Integers, FiniteSets, Sequences

CONSTANTS
    Users,            \* Telegram user ids
    MaxSessions,      \* _MAX_SESSIONS
    SessionTimeout,   \* session_timeout
    BlockDuration,    \* block_duration
    MaxTotpAttempts,  \* max_totp_attempts
    MaxTime,          \* bound of the clock
    AttemptCap        \* bound of the attempt counter in OpenNext

ASSUME SessionConstants ==
    /\ IsFiniteSet(Users)
    /\ MaxSessions \in Nat \ {0}
    /\ SessionTimeout \in Nat
    /\ BlockDuration \in Nat \ {0}
    /\ MaxTotpAttempts \in Nat \ {0}
    /\ MaxTime \in Nat
    /\ AttemptCap \in Nat

VARIABLES
    sessions,   \* _user_sessions: user -> session, for the users that have one
    order,      \* the keys of _user_sessions in insertion order
    stopped,    \* _shutdown_event
    now         \* the clock

sessionVars == <<sessions, order, stopped, now>>

----------------------------------------------------------------------------
None == -1
Time == Nat \cup {None}

AuthStates == {"unauthenticated", "processing", "authenticated", "blocked"}
HandlerTypes == {"none", "message", "callback_query"}

\* referer stands for the pair handler_type, referer_uri: they are set and
\* reset together.
Session == [auth : AuthStates, attempts : Nat, blockedUntil : Time,
            loginTime : Time, referer : HandlerTypes]

NewSession == [auth |-> "unauthenticated", attempts |-> 0,
               blockedUntil |-> None, loginTime |-> None, referer |-> "none"]

\* A session that has never logged in counts as expired.
IsExpired(s) == s.loginTime = None \/ now > s.loginTime + SessionTimeout

IsBlockedNow(s) == s.blockedUntil # None /\ now <= s.blockedUntil

Live == DOMAIN sessions

ExpiredUsers == {u \in Live : IsExpired(sessions[u])}

Lookup(u) == IF u \in Live THEN sessions[u] ELSE NewSession

Older(u, v) == \E i, j \in DOMAIN order : i < j /\ order[i] = u /\ order[j] = v

\* P holds the first n keys of S, all of S when there are fewer.
IsOldest(P, S, n) ==
    /\ P \subseteq S
    /\ Cardinality(P) = IF Cardinality(S) < n THEN Cardinality(S) ELSE n
    /\ \A u \in P, v \in S \ P : Older(u, v)

\* Fault: room is made only once the dict is over its cap.
OverflowLate(S) == Cardinality(S) - MaxSessions

\* How many entries S has too many for one more to fit.
Overflow(S) == Cardinality(S) - MaxSessions + 1

\* Fault: first come, first evicted.
EvictedByAge(E) ==
    \/ Overflow(Live) <= 0 /\ E = {}
    \/ Overflow(Live) > 0 /\ IsOldest(E, Live, Overflow(Live))

(***************************************************************************)
(* _evict_sessions_if_needed: first every expired session, then the oldest *)
(* that are not authenticated, then the oldest, each only while the dict   *)
(* is too full for one more.                                               *)
(***************************************************************************)
Evicted(E) ==
    LET fresh   == Live \ ExpiredUsers
        pending == {u \in fresh : sessions[u].auth # "authenticated"}
    IN  \/ Overflow(Live) <= 0 /\ E = {}
        \/ /\ Overflow(Live) > 0
           /\ Overflow(fresh) <= 0
           /\ E = ExpiredUsers
        \/ /\ Overflow(Live) > 0
           /\ Overflow(fresh) > 0
           /\ \E P \in SUBSET pending :
                /\ IsOldest(P, pending, Overflow(fresh))
                /\ \/ /\ Overflow(fresh \ P) <= 0
                      /\ E = ExpiredUsers \cup P
                   \/ /\ Overflow(fresh \ P) > 0
                      /\ \E Q \in SUBSET (fresh \ P) :
                           /\ IsOldest(Q, fresh \ P, Overflow(fresh \ P))
                           /\ E = ExpiredUsers \cup P \cup Q

Keep(S) == [v \in S |-> sessions[v]]
OrderOf(S) == SelectSeq(order, LAMBDA v : v \in S)

\* session_context: the session of u, created if missing, becomes s.
Store(u, s) ==
    /\ UNCHANGED <<stopped, now>>
    /\ \/ /\ u \in Live
          /\ sessions' = [sessions EXCEPT ![u] = s]
          /\ UNCHANGED order
       \/ /\ u \notin Live
          /\ \E E \in SUBSET Live :
               /\ Evicted(E)
               /\ sessions' = [v \in (Live \ E) \cup {u} |->
                                 IF v = u THEN s ELSE sessions[v]]
               /\ order' = Append(OrderOf(Live \ E), u)

----------------------------------------------------------------------------
(* The public methods.                                                     *)

\* get_auth_state, get_totp_attempts, get_blocked_time, get_handler_type and
\* get_referer_uri: a read, which creates a missing session.
Read(u) == Store(u, Lookup(u))

SetAuthState(u, state) == Store(u, [Lookup(u) EXCEPT !.auth = state])

Blocked(s, duration) ==
    [s EXCEPT !.blockedUntil = now + duration, !.auth = "blocked"]

IncrementTotpAttempts(u) ==
    LET s == [Lookup(u) EXCEPT !.attempts = @ + 1]
    IN  Store(u, IF s.attempts >= MaxTotpAttempts
                   THEN Blocked(s, BlockDuration) ELSE s)

ResetTotpAttempts(u) == Store(u, [Lookup(u) EXCEPT !.attempts = 0])

SetBlockedTime(u, duration) == Store(u, Blocked(Lookup(u), duration))

\* Fault: the end of a block restores the login.
UnblockedLoggedIn(s) ==
    IF s.blockedUntil # None /\ now > s.blockedUntil
      THEN [s EXCEPT !.blockedUntil = None,
                     !.auth = IF @ = "blocked" THEN "authenticated" ELSE @]
      ELSE s

\* _auto_unblock_if_due
Unblocked(s) ==
    IF s.blockedUntil # None /\ now > s.blockedUntil
      THEN [s EXCEPT !.blockedUntil = None,
                     !.auth = IF @ = "blocked" THEN "unauthenticated" ELSE @]
      ELSE s

\* is_blocked: the answer is IsBlockedNow(Lookup(u)).
IsBlocked(u) == Store(u, Unblocked(Lookup(u)))

SetLoginTime(u) == Store(u, [Lookup(u) EXCEPT !.loginTime = now])

\* Fault: a login that is never too old.
AuthenticatedForever(s) == s.auth = "authenticated" /\ ~IsBlockedNow(s)

AuthenticatedNow(s) ==
    s.auth = "authenticated" /\ ~IsBlockedNow(s) /\ ~IsExpired(s)

\* is_authenticated: the answer is AuthenticatedNow(Lookup(u)).
IsAuthenticated(u) == Store(u, Unblocked(Lookup(u)))

SetRefererData(u, type) == Store(u, [Lookup(u) EXCEPT !.referer = type])

ResetRefererData(u) == Store(u, [Lookup(u) EXCEPT !.referer = "none"])

DropExpired ==
    /\ sessions' = Keep(Live \ ExpiredUsers)
    /\ order' = OrderOf(Live \ ExpiredUsers)
    /\ UNCHANGED <<stopped, now>>

\* One round of the cleanup worker.
ClearExpiredSessions == ~stopped /\ DropExpired

\* get_session_stats, called by the health checks: it drops the expired
\* sessions before it counts.
GetSessionStats == DropExpired

Shutdown ==
    /\ ~stopped
    /\ stopped' = TRUE
    /\ sessions' = Keep({})
    /\ order' = << >>
    /\ UNCHANGED now

Tick ==
    /\ now < MaxTime
    /\ now' = now + 1
    /\ UNCHANGED <<sessions, order, stopped>>

----------------------------------------------------------------------------
SessionInit ==
    /\ sessions = [u \in {} |-> NewSession]
    /\ order = << >>
    /\ stopped = FALSE
    /\ now = 0

(* Any caller, in any order: the store on its own.  Nothing in the store   *)
(* looks at the referer, so StoreNext leaves its setters out.               *)
StoreNext ==
    \/ \E u \in Users :
         \/ Read(u)
         \/ \E state \in AuthStates : SetAuthState(u, state)
         \/ Lookup(u).attempts < AttemptCap /\ IncrementTotpAttempts(u)
         \/ ResetTotpAttempts(u)
         \/ SetBlockedTime(u, BlockDuration)
         \/ IsBlocked(u)
         \/ SetLoginTime(u)
         \/ IsAuthenticated(u)
    \/ ClearExpiredSessions
    \/ GetSessionStats
    \/ Shutdown
    \/ Tick

\* Every call, the ones that keep where a login was asked for included.
OpenNext ==
    \/ StoreNext
    \/ \E u \in Users : \/ \E type \in HandlerTypes : SetRefererData(u, type)
                         \/ ResetRefererData(u)

OpenSpec == SessionInit /\ [][OpenNext]_sessionVars

----------------------------------------------------------------------------
(* Type correctness: the dict maps known users to well-formed sessions.     *)
SessionTypeOK ==
    /\ Live \subseteq Users
    /\ sessions \in [Live -> Session]
    /\ stopped \in BOOLEAN
    /\ now \in Nat

(* The hard cap of _MAX_SESSIONS holds whatever mix of calls, clean-ups and *)
(* evictions happens, although getters insert too.                          *)
WithinCapacity == Cardinality(Live) <= MaxSessions

(* A login that is still valid is dropped, outside shutdown, only to make   *)
(* room in a dict full of valid logins, and then it is the oldest of them.  *)
ValidLogins ==
    {u \in Live : sessions[u].auth = "authenticated" /\ ~IsExpired(sessions[u])}

EvictionSparesLogins ==
    [][\A u \in ValidLogins :
         u \notin Live' /\ ~stopped' =>
           /\ ValidLogins = Live
           /\ \A v \in Live \ {u} : Older(u, v)]_sessionVars

(* Expired sessions do not stay: time and again there is none, as the worker *)
(* removes them or a later login renews them, until the manager is shut down. *)
ExpiredAreCleared == []<>(stopped \/ \A u \in Live : ~IsExpired(sessions[u]))
=============================================================================
