------------------------ MODULE TwoFactorLogin_proofs ------------------------
(***************************************************************************)
(* Theorems about the session store and the second factor, for every set   *)
(* of workers and users, every limit and every capacity: type correctness, *)
(* the capacity of the store, the bound on recorded wrong codes, that only *)
(* an accepted code authenticates, and that the login implements LoginGate.*)
(***************************************************************************)
EXTENDS TwoFactorLogin, FiniteSetTheorems, SequenceTheorems, TLAPS

----------------------------------------------------------------------------
(* The session store on its own: type correctness and its capacity.         *)

\* A lookup yields a session whether or not the user has one.
LEMMA LookupType ==
  ASSUME SessionTypeOK, NEW u \in Users
  PROVE  Lookup(u) \in Session
BY DEF SessionTypeOK, Lookup, NewSession, Session, Live, AuthStates,
       HandlerTypes, Time, None

\* What a block and its end make of a session is a session.
LEMMA BlockedType ==
  ASSUME SessionTypeOK, NEW s \in Session, NEW d \in Nat
  PROVE  /\ Blocked(s, d) \in Session
         /\ Unblocked(s) \in Session
         /\ Blocked(s, d).attempts = s.attempts
         /\ Unblocked(s).attempts = s.attempts
<1>1. now + d \in Time /\ None \in Time
  BY DEF SessionTypeOK, Time
<1>2. Blocked(s, d) \in Session /\ Blocked(s, d).attempts = s.attempts
  BY <1>1 DEF Blocked, Session, AuthStates
<1> DEFINE t == [s EXCEPT !.blockedUntil = None,
                          !.auth = IF s.auth = "blocked"
                                     THEN "unauthenticated" ELSE s.auth]
<1>3. t \in Session /\ t.attempts = s.attempts
  <2>1. (IF s.auth = "blocked" THEN "unauthenticated" ELSE s.auth) \in AuthStates
    BY DEF Session, AuthStates
  <2> QED
    BY <1>1, <2>1 DEF Session
<1>4. Unblocked(s) = t \/ Unblocked(s) = s
  BY Zenon DEF Unblocked
<1> QED
  BY <1>2, <1>3, <1>4

\* Storing the session of u sets it, keeps every other session or drops it,
\* and changes nothing else: the only facts about eviction that the other
\* proofs need.
LEMMA StoreEffect ==
  ASSUME SessionTypeOK, NEW u \in Users, NEW s \in Session, Store(u, s)
  PROVE  /\ SessionTypeOK'
         /\ u \in Live' /\ sessions'[u] = s
         /\ Live' \subseteq Live \cup {u}
         /\ \A v \in Live' \ {u} : sessions'[v] = sessions[v]
         /\ stopped' = stopped
         /\ now' = now
<1>1. CASE u \in Live
  BY <1>1 DEF Store, SessionTypeOK, Live
<1>2. CASE u \notin Live
  <2>1. PICK E \in SUBSET Live :
           sessions' = [v \in (Live \ E) \cup {u} |->
                          IF v = u THEN s ELSE sessions[v]]
    BY <1>2 DEF Store
  <2>2. Live' = (Live \ E) \cup {u}
    BY <2>1 DEF Live
  <2> QED
    BY <2>1, <2>2 DEF Store, SessionTypeOK
<1> QED
  BY <1>1, <1>2

\* Dropping sessions keeps the store well formed and the others as they are.
LEMMA DropEffect ==
  ASSUME SessionTypeOK, DropExpired
  PROVE  /\ SessionTypeOK'
         /\ Live' \subseteq Live
         /\ \A v \in Live' : sessions'[v] = sessions[v]
         /\ stopped' = stopped
         /\ now' = now
BY DEF DropExpired, Keep, SessionTypeOK, Live

----------------------------------------------------------------------------
\* Each method of the store is a Store step with some session, or drops
\* sessions, or leaves them alone.
LEMMA OpenSteps ==
  ASSUME SessionTypeOK, OpenNext
  PROVE  \/ \E u \in Users, s \in Session : Store(u, s)
         \/ DropExpired
         \/ Shutdown
         \/ Tick
<1> SUFFICES ASSUME NEW u \in Users,
                    \/ Read(u)
                    \/ \E state \in AuthStates : SetAuthState(u, state)
                    \/ IncrementTotpAttempts(u)
                    \/ ResetTotpAttempts(u)
                    \/ SetBlockedTime(u, BlockDuration)
                    \/ IsBlocked(u)
                    \/ SetLoginTime(u)
                    \/ IsAuthenticated(u)
                    \/ \E type \in HandlerTypes : SetRefererData(u, type)
                    \/ ResetRefererData(u)
             PROVE  \E s \in Session : Store(u, s)
  BY DEF OpenNext, StoreNext, ClearExpiredSessions, GetSessionStats
<1> DEFINE l == Lookup(u)
<1>1. l \in Session
  BY LookupType
<1>2. BlockDuration \in Nat /\ now \in Nat
  BY SessionConstants DEF SessionTypeOK
<1>3. CASE Read(u)
  BY <1>1, <1>3 DEF Read
<1>4. CASE \E state \in AuthStates : SetAuthState(u, state)
  <2>1. PICK state \in AuthStates : SetAuthState(u, state)
    BY <1>4
  <2>2. [l EXCEPT !.auth = state] \in Session
    BY <1>1 DEF Session
  <2> QED
    BY <2>1, <2>2 DEF SetAuthState
<1>5. CASE IncrementTotpAttempts(u)
  <2> DEFINE s == [l EXCEPT !.attempts = @ + 1]
  <2>1. s \in Session
    BY <1>1 DEF Session
  <2>2. Blocked(s, BlockDuration) \in Session
    BY <2>1, <1>2, BlockedType
  <2> QED
    BY <1>5, <2>1, <2>2 DEF IncrementTotpAttempts
<1>6. CASE ResetTotpAttempts(u)
  <2>1. [l EXCEPT !.attempts = 0] \in Session
    BY <1>1 DEF Session
  <2> QED
    BY <1>6, <2>1 DEF ResetTotpAttempts
<1>7. CASE SetBlockedTime(u, BlockDuration)
  BY <1>1, <1>2, <1>7, BlockedType DEF SetBlockedTime
<1>8. CASE IsBlocked(u)
  BY <1>1, <1>2, <1>8, BlockedType DEF IsBlocked
<1>9. CASE SetLoginTime(u)
  <2>1. [l EXCEPT !.loginTime = now] \in Session
    BY <1>1, <1>2 DEF Session, Time
  <2> QED
    BY <1>9, <2>1 DEF SetLoginTime
<1>10. CASE IsAuthenticated(u)
  BY <1>1, <1>2, <1>10, BlockedType DEF IsAuthenticated
<1>11. CASE \E type \in HandlerTypes : SetRefererData(u, type)
  <2>1. PICK type \in HandlerTypes : SetRefererData(u, type)
    BY <1>11
  <2>2. [l EXCEPT !.referer = type] \in Session
    BY <1>1 DEF Session
  <2> QED
    BY <2>1, <2>2 DEF SetRefererData
<1>12. CASE ResetRefererData(u)
  <2>1. [l EXCEPT !.referer = "none"] \in Session
    BY <1>1 DEF Session, HandlerTypes
  <2> QED
    BY <1>12, <2>1 DEF ResetRefererData
<1> QED
  BY <1>3, <1>4, <1>5, <1>6, <1>7, <1>8, <1>9, <1>10, <1>11, <1>12

\* The store stays well formed whatever its callers do.
THEOREM StoreTypeCorrect == OpenSpec => []SessionTypeOK
<1>1. SessionInit => SessionTypeOK
  <2> SUFFICES ASSUME SessionInit PROVE SessionTypeOK
    OBVIOUS
  <2>1. Live = {} /\ sessions \in [{} -> Session]
    BY DEF SessionInit, Live
  <2> QED
    BY <2>1 DEF SessionInit, SessionTypeOK
<1>2. SessionTypeOK /\ [OpenNext]_sessionVars => SessionTypeOK'
  <2> SUFFICES ASSUME SessionTypeOK, [OpenNext]_sessionVars
               PROVE  SessionTypeOK'
    OBVIOUS
  <2>1. CASE \E u \in Users, s \in Session : Store(u, s)
    BY <2>1, StoreEffect
  <2>2. CASE DropExpired
    BY <2>2, DropEffect
  <2>3. CASE Shutdown
    BY <2>3 DEF Shutdown, Keep, SessionTypeOK, Live
  <2>4. CASE Tick
    BY <2>4 DEF Tick, SessionTypeOK, Live
  <2>5. CASE UNCHANGED sessionVars
    BY <2>5 DEF sessionVars, SessionTypeOK, Live
  <2> QED
    BY <2>1, <2>2, <2>3, <2>4, <2>5, OpenSteps
<1> QED
  BY <1>1, <1>2, PTL DEF OpenSpec

----------------------------------------------------------------------------
\* A set that does not overflow has room for one more.
LEMMA RoomLeft ==
  ASSUME NEW S, IsFiniteSet(S), Overflow(S) <= 0
  PROVE  Cardinality(S) + 1 <= MaxSessions
BY SessionConstants, FS_CardinalityType DEF Overflow

\* Without its oldest elements, as many as it overflows by, a set has room.
LEMMA OldestMakeRoom ==
  ASSUME NEW S, IsFiniteSet(S), Overflow(S) > 0,
         NEW Q \in SUBSET S, IsOldest(Q, S, Overflow(S))
  PROVE  Cardinality(S \ Q) + 1 <= MaxSessions
<1>1. MaxSessions \in Nat \ {0} /\ Cardinality(S) \in Nat
  BY SessionConstants, FS_CardinalityType
<1>2. Overflow(S) = Cardinality(S) - MaxSessions + 1
  BY DEF Overflow
<1>3. Cardinality(Q) = Overflow(S)
  BY <1>1, <1>2 DEF IsOldest
<1>4. Cardinality(S \ Q) = Cardinality(S) - Cardinality(S \cap Q)
  BY FS_Difference
<1>5. S \cap Q = Q
  OBVIOUS
<1> QED
  BY <1>1, <1>2, <1>3, <1>4, <1>5

\* What is left after an eviction has room for one more session.
LEMMA EvictionMakesRoom ==
  ASSUME IsFiniteSet(Live), NEW E \in SUBSET Live, Evicted(E)
  PROVE  Cardinality(Live \ E) + 1 <= MaxSessions
<1> DEFINE fresh == Live \ ExpiredUsers
           pending == {u \in fresh : sessions[u].auth # "authenticated"}
<1>1. CASE Overflow(Live) <= 0 /\ E = {}
  BY <1>1, RoomLeft, Live \ E = Live
<1>2. CASE Overflow(fresh) <= 0 /\ E = ExpiredUsers
  BY <1>2, RoomLeft, FS_Subset
<1>3. ASSUME NEW P \in SUBSET pending,
             Overflow(fresh \ P) <= 0, E = ExpiredUsers \cup P
      PROVE  Cardinality(Live \ E) + 1 <= MaxSessions
  BY <1>3, RoomLeft, FS_Subset, Live \ E = fresh \ P
<1>4. ASSUME NEW P \in SUBSET pending,
             Overflow(fresh \ P) > 0,
             NEW Q \in SUBSET (fresh \ P),
             IsOldest(Q, fresh \ P, Overflow(fresh \ P)),
             E = ExpiredUsers \cup P \cup Q
      PROVE  Cardinality(Live \ E) + 1 <= MaxSessions
  BY <1>4, OldestMakeRoom, FS_Subset, Live \ E = (fresh \ P) \ Q
<1> QED
  BY <1>1, <1>2, <1>3, <1>4 DEF Evicted

\* No mix of calls, clean-ups and evictions lets the store outgrow its cap.
THEOREM CapacityHolds == OpenSpec => []WithinCapacity
<1>0. MaxSessions \in Nat \ {0} /\ IsFiniteSet(Users)
  BY SessionConstants
<1>1. SessionInit => WithinCapacity
  <2> SUFFICES ASSUME SessionInit PROVE Live = {}
    BY <1>0, FS_EmptySet DEF WithinCapacity
  <2> QED
    BY DEF SessionInit, Live
<1>2. SessionTypeOK /\ WithinCapacity /\ [OpenNext]_sessionVars => WithinCapacity'
  <2> SUFFICES ASSUME SessionTypeOK, WithinCapacity, [OpenNext]_sessionVars
               PROVE  WithinCapacity'
    OBVIOUS
  <2>0. IsFiniteSet(Live) /\ Cardinality(Live) \in Nat
    BY <1>0, FS_Subset, FS_CardinalityType DEF SessionTypeOK
  <2>1. ASSUME Live' \subseteq Live
        PROVE  WithinCapacity'
    <3>1. Cardinality(Live') <= Cardinality(Live) /\ Cardinality(Live') \in Nat
      BY <2>0, <2>1, FS_Subset, FS_CardinalityType
    <3> QED
      BY <1>0, <2>0, <3>1 DEF WithinCapacity
  <2>2. ASSUME NEW u \in Users, NEW s \in Session, Store(u, s)
        PROVE  WithinCapacity'
    <3>1. CASE u \in Live
      BY <2>1, <2>2, <3>1, StoreEffect
    <3>2. CASE u \notin Live
      <4>1. PICK E \in SUBSET Live :
               /\ Evicted(E)
               /\ sessions' = [v \in (Live \ E) \cup {u} |->
                                 IF v = u THEN s ELSE sessions[v]]
        BY <2>2, <3>2 DEF Store
      <4>2. Live' = (Live \ E) \cup {u}
        BY <4>1 DEF Live
      <4>3. Cardinality(Live \ E) + 1 <= MaxSessions
        BY <2>0, <4>1, EvictionMakesRoom
      <4>4. Cardinality((Live \ E) \cup {u}) = Cardinality(Live \ E) + 1
        BY <2>0, <3>2, FS_Subset, FS_AddElement
      <4> QED
        BY <4>2, <4>3, <4>4 DEF WithinCapacity
    <3> QED
      BY <3>1, <3>2
  <2>3. CASE DropExpired
    BY <2>1, <2>3, DropEffect
  <2>4. CASE Shutdown
    BY <2>1, <2>4 DEF Shutdown, Keep, Live
  <2>5. CASE Tick \/ UNCHANGED sessionVars
    BY <2>1, <2>5 DEF Tick, sessionVars, Live
  <2> QED
    BY <2>2, <2>3, <2>4, <2>5, OpenSteps
<1> QED
  BY <1>1, <1>2, StoreTypeCorrect, PTL DEF OpenSpec

----------------------------------------------------------------------------
\* An eviction takes a valid login only from a full dict of valid logins, and
\* then the oldest.
LEMMA EvictedLogin ==
  ASSUME IsFiniteSet(Live), WithinCapacity, NEW E \in SUBSET Live, Evicted(E),
         NEW u \in ValidLogins, u \in E
  PROVE  /\ ValidLogins = Live
         /\ \A v \in Live \ {u} : Older(u, v)
<1> DEFINE fresh == Live \ ExpiredUsers
           pending == {v \in fresh : sessions[v].auth # "authenticated"}
<1>1. u \in Live /\ u \notin ExpiredUsers /\ sessions[u].auth = "authenticated"
  <2>1. u \in Live /\ sessions[u].auth = "authenticated" /\ ~IsExpired(sessions[u])
    BY Zenon DEF ValidLogins
  <2>2. u \notin ExpiredUsers
    BY <2>1 DEF ExpiredUsers
  <2> QED
    BY <2>1, <2>2
<1>2. PICK P \in SUBSET pending, Q \in SUBSET fresh :
         /\ Q \subseteq fresh \ P
         /\ IsOldest(P, pending, Overflow(fresh)) /\ Overflow(fresh) > 0
         /\ Overflow(fresh \ P) > 0
         /\ IsOldest(Q, fresh \ P, Overflow(fresh \ P))
         /\ E = ExpiredUsers \cup P \cup Q
  BY <1>1 DEF Evicted
<1>3. u \in Q
  BY <1>1, <1>2
<1>4. /\ MaxSessions \in Nat /\ Cardinality(Live) \in Nat /\ Cardinality(Live) <= MaxSessions
      /\ fresh \subseteq Live /\ fresh \ P \subseteq fresh /\ pending \subseteq fresh
  BY SessionConstants, FS_CardinalityType DEF WithinCapacity
<1>5. /\ IsFiniteSet(fresh) /\ IsFiniteSet(fresh \ P) /\ IsFiniteSet(pending)
      /\ Cardinality(fresh) \in Nat /\ Cardinality(fresh \ P) \in Nat
      /\ Cardinality(pending) \in Nat
      /\ Cardinality(fresh) <= Cardinality(Live)
      /\ Cardinality(fresh \ P) <= Cardinality(fresh)
  <2>1. IsFiniteSet(fresh) /\ Cardinality(fresh) <= Cardinality(Live)
    BY <1>4, FS_Subset
  <2>2. IsFiniteSet(fresh \ P) /\ IsFiniteSet(pending)
        /\ Cardinality(fresh \ P) <= Cardinality(fresh)
    BY <1>4, <2>1, FS_Subset
  <2> QED
    BY <2>1, <2>2, FS_CardinalityType
<1> HIDE DEF fresh
<1>6. Cardinality(fresh \ P) >= MaxSessions
  BY <1>2, <1>4, <1>5 DEF Overflow
<1>7. Cardinality(fresh) = Cardinality(Live) /\ Cardinality(fresh \ P) = Cardinality(fresh)
      /\ Cardinality(Live) = MaxSessions
  BY <1>4, <1>5, <1>6
<1>8. fresh = Live
  BY <1>4, <1>7, FS_Subset
<1>9. P = {}
  <2>1. fresh \ P = fresh
    BY <1>4, <1>5, <1>7, FS_Subset
  <2> QED
    BY <2>1
<1>10. pending = {}
  <2>1. Overflow(fresh) = 1
    BY <1>4, <1>7 DEF Overflow
  <2>2. Cardinality(P) = IF Cardinality(pending) < 1 THEN Cardinality(pending) ELSE 1
    BY <1>2, <2>1 DEF IsOldest
  <2>3. Cardinality(P) = 0
    BY <1>9, FS_EmptySet
  <2>4. Cardinality(pending) = 0
    BY <1>5, <2>2, <2>3
  <2> QED
    BY <1>5, <2>4, FS_EmptySet
<1>11. ValidLogins = Live
  BY <1>8, <1>10 DEF ValidLogins, fresh, ExpiredUsers
<1>12. Q = {u} /\ Q \subseteq Live
  <2>1. Overflow(fresh \ P) = 1 /\ fresh \ P = Live
    BY <1>4, <1>7, <1>8, <1>9 DEF Overflow
  <2>2. Cardinality(Live) >= 1 /\ Q \subseteq Live
    BY <1>2, <1>4, <1>7, <2>1, SessionConstants
  <2>3. Cardinality(Q) = 1
    BY <1>2, <1>4, <2>1, <2>2 DEF IsOldest
  <2>4. {u} \subseteq Q /\ IsFiniteSet(Q) /\ Cardinality({u}) = 1
    BY <1>3, <2>2, FS_Subset, FS_Singleton
  <2> QED
    BY <2>2, <2>3, <2>4, FS_Subset
<1>13. \A v \in Live \ {u} : Older(u, v)
  BY <1>2, <1>8, <1>9, <1>12 DEF IsOldest
<1> QED
  BY <1>11, <1>13

\* A valid login leaves, outside shutdown, only a dict that is full of valid
\* logins, and then it is the oldest of them.
THEOREM ValidLoginsAreSpared == OpenSpec => EvictionSparesLogins
<1> DEFINE Spared(u) ==
      u \notin Live' /\ ~stopped' =>
        /\ ValidLogins = Live
        /\ \A v \in Live \ {u} : Older(u, v)
<1>1. ASSUME SessionTypeOK, WithinCapacity, OpenNext, NEW u \in ValidLogins PROVE Spared(u)
  <2> SUFFICES ASSUME u \notin Live', ~stopped'
               PROVE  ValidLogins = Live /\ \A v \in Live \ {u} : Older(u, v)
    OBVIOUS
  <2>0. u \in Live /\ u \notin ExpiredUsers /\ IsFiniteSet(Live)
    <3>1. u \in Live /\ ~IsExpired(sessions[u])
      BY Zenon DEF ValidLogins
    <3>2. u \notin ExpiredUsers
      BY <3>1 DEF ExpiredUsers
    <3>3. IsFiniteSet(Live)
      BY <1>1, SessionConstants, FS_Subset DEF SessionTypeOK
    <3> QED
      BY <3>1, <3>2, <3>3
  <2>1. ASSUME NEW x \in Users, NEW s \in Session, Store(x, s)
        PROVE  ValidLogins = Live /\ \A v \in Live \ {u} : Older(u, v)
    <3>1. x \notin Live
      BY <2>0, <2>1 DEF Store, Live
    <3>2. PICK E \in SUBSET Live :
             Evicted(E) /\ sessions' = [v \in (Live \ E) \cup {x} |->
                                          IF v = x THEN s ELSE sessions[v]]
      BY <2>1, <3>1 DEF Store
    <3>3. Live' = (Live \ E) \cup {x}
      BY <3>2 DEF Live
    <3> QED
      BY <1>1, <2>0, <3>2, <3>3, EvictedLogin
  <2>2. ~DropExpired
    BY <2>0 DEF DropExpired, Keep, Live
  <2>3. ~Shutdown /\ ~Tick
    BY <2>0 DEF Shutdown, Tick, Live
  <2> QED
    BY <1>1, <2>1, <2>2, <2>3, OpenSteps
<1>2. SessionTypeOK /\ WithinCapacity /\ [OpenNext]_sessionVars =>
        [\A u \in ValidLogins : Spared(u)]_sessionVars
  BY <1>1
<1> QED
  BY <1>2, StoreTypeCorrect, CapacityHolds, PTL DEF OpenSpec, EvictionSparesLogins

----------------------------------------------------------------------------
(* What one step can do to the sessions.                                   *)

\* s follows from l without a wrong code, a login or an authentication.
Harmless(s, l) ==
    /\ s.attempts <= l.attempts
    /\ s.auth = "authenticated" => l.auth = "authenticated"
    /\ s.loginTime = l.loginTime

\* After a Store, every other user finds the session there was or a new one.
LEMMA StoreLookup ==
  ASSUME SessionTypeOK, NEW u \in Users, NEW s \in Session, Store(u, s),
         NEW v \in Users
  PROVE  /\ v = u => Lookup(v)' = s
         /\ v # u => Lookup(v)' \in {Lookup(v), NewSession}
         /\ NewSession \in Session
<1>1. NewSession \in Session
  BY DEF NewSession, Session, AuthStates, HandlerTypes, Time, None
<1>2. /\ u \in Live' /\ sessions'[u] = s
      /\ Live' \subseteq Live \cup {u}
      /\ \A x \in Live' \ {u} : sessions'[x] = sessions[x]
  BY StoreEffect
<1>3. Lookup(v)' = IF v \in Live' THEN sessions'[v] ELSE NewSession
  BY DEF Lookup
<1> QED
  BY <1>1, <1>2, <1>3 DEF Lookup

\* So it is after the expired sessions are dropped.
LEMMA DropLookup ==
  ASSUME SessionTypeOK, DropExpired, NEW v \in Users
  PROVE  Lookup(v)' \in {Lookup(v), NewSession}
<1>1. Live' \subseteq Live /\ \A x \in Live' : sessions'[x] = sessions[x]
  BY DropEffect
<1>2. Lookup(v)' = IF v \in Live' THEN sessions'[v] ELSE NewSession
  BY DEF Lookup
<1> QED
  BY <1>1, <1>2 DEF Lookup

\* The methods that the handlers call, but for the three below, store a
\* session that follows harmlessly.
LEMMA HarmlessMethods ==
  ASSUME SessionTypeOK, NEW u \in Users,
         \/ Read(u)
         \/ \E state \in {"processing", "blocked"} : SetAuthState(u, state)
         \/ ResetTotpAttempts(u)
         \/ \E d \in Nat : SetBlockedTime(u, d)
         \/ IsBlocked(u)
         \/ IsAuthenticated(u)
         \/ \E type \in HandlerTypes : SetRefererData(u, type)
         \/ ResetRefererData(u)
  PROVE  \E s \in Session : Harmless(s, Lookup(u)) /\ Store(u, s)
<1> DEFINE l == Lookup(u)
<1>1. l \in Session
  BY LookupType
<1>2. l.attempts \in Nat
  BY <1>1 DEF Session
<1>3. CASE Read(u)
  BY <1>1, <1>2, <1>3 DEF Read, Harmless
<1>4. CASE \E state \in {"processing", "blocked"} : SetAuthState(u, state)
  <2>1. PICK state \in {"processing", "blocked"} : SetAuthState(u, state)
    BY <1>4
  <2> DEFINE s == [l EXCEPT !.auth = state]
  <2>2. s \in Session /\ s.attempts = l.attempts /\ s.loginTime = l.loginTime
        /\ s.auth # "authenticated"
    BY <1>1 DEF Session, AuthStates
  <2>3. Store(u, s)
    BY <2>1 DEF SetAuthState
  <2> HIDE DEF s
  <2> QED
    BY <1>2, <2>2, <2>3 DEF Harmless
<1>5. CASE ResetTotpAttempts(u)
  <2> DEFINE s == [l EXCEPT !.attempts = 0]
  <2>1. s \in Session /\ s.attempts = 0 /\ s.loginTime = l.loginTime
        /\ s.auth = l.auth
    BY <1>1 DEF Session
  <2>2. Store(u, s)
    BY <1>5 DEF ResetTotpAttempts
  <2> HIDE DEF s
  <2> QED
    BY <1>2, <2>1, <2>2 DEF Harmless
<1>6. CASE \E d \in Nat : SetBlockedTime(u, d)
  <2>1. PICK d \in Nat : SetBlockedTime(u, d)
    BY <1>6
  <2> DEFINE s == Blocked(l, d)
  <2>2. s \in Session /\ s.attempts = l.attempts
    BY <1>1, BlockedType
  <2>3. s.loginTime = l.loginTime /\ s.auth = "blocked"
    BY <1>1 DEF Blocked, Session
  <2>4. Store(u, s)
    BY <2>1 DEF SetBlockedTime
  <2> HIDE DEF s
  <2> QED
    BY <1>2, <2>2, <2>3, <2>4 DEF Harmless
<1>7. CASE IsBlocked(u) \/ IsAuthenticated(u)
  <2> DEFINE s == Unblocked(l)
             t == [l EXCEPT !.blockedUntil = None,
                            !.auth = IF l.auth = "blocked"
                                       THEN "unauthenticated" ELSE l.auth]
  <2>1. s \in Session /\ s.attempts = l.attempts
    BY <1>1, BlockedType, 0 \in Nat
  <2>2. s = t \/ s = l
    BY Zenon DEF Unblocked
  <2>3. t.loginTime = l.loginTime
        /\ (t.auth = "authenticated" => l.auth = "authenticated")
    BY <1>1 DEF Session
  <2>4. Store(u, s)
    BY <1>7 DEF IsBlocked, IsAuthenticated
  <2> HIDE DEF s, t
  <2>5. Harmless(s, l)
    BY <1>2, <2>1, <2>2, <2>3 DEF Harmless
  <2> QED
    BY <2>1, <2>4, <2>5
<1>8. CASE \E type \in HandlerTypes : SetRefererData(u, type)
  <2>1. PICK type \in HandlerTypes : SetRefererData(u, type)
    BY <1>8
  <2> DEFINE s == [l EXCEPT !.referer = type]
  <2>2. s \in Session /\ s.attempts = l.attempts /\ s.loginTime = l.loginTime
        /\ s.auth = l.auth
    BY <1>1 DEF Session
  <2>3. Store(u, s)
    BY <2>1 DEF SetRefererData
  <2> HIDE DEF s
  <2> QED
    BY <1>2, <2>2, <2>3 DEF Harmless
<1>9. CASE ResetRefererData(u)
  <2> DEFINE s == [l EXCEPT !.referer = "none"]
  <2>1. s \in Session /\ s.attempts = l.attempts /\ s.loginTime = l.loginTime
        /\ s.auth = l.auth
    BY <1>1 DEF Session, HandlerTypes
  <2>2. Store(u, s)
    BY <1>9 DEF ResetRefererData
  <2> HIDE DEF s
  <2> QED
    BY <1>2, <2>1, <2>2 DEF Harmless
<1> QED
  BY <1>3, <1>4, <1>5, <1>6, <1>7, <1>8, <1>9

\* A wrong code raises the counter by one and neither authenticates nor
\* logs in.
LEMMA RejectEffect ==
  ASSUME SessionTypeOK, NEW u \in Users, IncrementTotpAttempts(u)
  PROVE  \E s \in Session :
           /\ s.attempts = Lookup(u).attempts + 1
           /\ s.auth = "authenticated" => Lookup(u).auth = "authenticated"
           /\ s.loginTime = Lookup(u).loginTime
           /\ Store(u, s)
<1> DEFINE l == Lookup(u)
           s == [l EXCEPT !.attempts = @ + 1]
           b == Blocked(s, BlockDuration)
<1>1. l \in Session
  BY LookupType
<1>2. s \in Session /\ s.attempts = l.attempts + 1 /\ s.auth = l.auth
      /\ s.loginTime = l.loginTime
  BY <1>1 DEF Session
<1>3. b \in Session /\ b.attempts = s.attempts
  BY <1>2, BlockedType, SessionConstants
<1>4. b.loginTime = s.loginTime /\ b.auth = "blocked"
  BY <1>2 DEF Blocked, Session
<1>5. Store(u, s) \/ Store(u, b)
  BY DEF IncrementTotpAttempts
<1> HIDE DEF s, b
<1> QED
  BY <1>2, <1>3, <1>4, <1>5

\* An authentication and a login change one field.
LEMMA LoginEffect ==
  ASSUME SessionTypeOK, NEW u \in Users
  PROVE  /\ SetAuthState(u, "authenticated") =>
              \E s \in Session : /\ s.attempts = Lookup(u).attempts
                                 /\ s.loginTime = Lookup(u).loginTime
                                 /\ Store(u, s)
         /\ SetLoginTime(u) =>
              \E s \in Session : /\ s.attempts = Lookup(u).attempts
                                 /\ s.auth = Lookup(u).auth
                                 /\ s.loginTime = now
                                 /\ Store(u, s)
<1> DEFINE l == Lookup(u)
           s == [l EXCEPT !.auth = "authenticated"]
           t == [l EXCEPT !.loginTime = now]
<1>1. l \in Session
  BY LookupType
<1>2. s \in Session /\ s.attempts = l.attempts /\ s.loginTime = l.loginTime
  BY <1>1 DEF Session, AuthStates
<1>3. t \in Session /\ t.attempts = l.attempts /\ t.auth = l.auth
      /\ t.loginTime = now
  BY <1>1 DEF Session, SessionTypeOK, Time
<1>4. SetAuthState(u, "authenticated") => Store(u, s)
  BY DEF SetAuthState
<1>5. SetLoginTime(u) => Store(u, t)
  BY DEF SetLoginTime
<1> HIDE DEF s, t
<1> QED
  BY <1>2, <1>3, <1>4, <1>5

\* Every step of a handler that touches the store stores harmlessly, but
\* for the rejection of a code, the authentication and the login.
LEMMA WorkerSteps ==
  ASSUME TypeOK, NEW w \in Workers,
         Step(w) \/ \E u \in Users : Message(w, u)
  PROVE  \/ \E u \in Users, s \in Session :
              Harmless(s, Lookup(u)) /\ Store(u, s)
         \/ Reject(w)
         \/ SetAuthenticated(w)
         \/ SetLogin(w)
         \/ UNCHANGED <<sessions, order, stopped, now>>
<1>1. SessionTypeOK /\ who[w] \in Users
  BY DEF TypeOK
<1>2. BlockDuration \in Nat /\ BurstBlock \in Nat
  BY SessionConstants, LoginConstants
<1>3. CASE \/ Prompt(w) \/ ReadBlock(w) \/ ReadAttempts(w) \/ RateLimited(w)
           \/ BlockUser(w) \/ ReadReferer(w) \/ ResetReferer(w)
  BY <1>1, <1>2, <1>3, HarmlessMethods
     DEF Prompt, ReadBlock, ReadAttempts, RateLimited, BlockUser, ReadReferer,
         ResetReferer
<1>4. CASE \E type \in HandlerTypes \ {"none"} : RememberReferer(w, type)
  BY <1>1, <1>4, HarmlessMethods DEF RememberReferer
<1>5. CASE \E u \in Users : Message(w, u)
  BY <1>1, <1>5, HarmlessMethods DEF Message, AskForCode, ReceiveCode, Protected
<1>6. CASE \/ Guards(w) \/ AcceptFails(w) \/ Done(w)
           \/ \E answer \in {"yes", "no", "raises"} : Verify(w, answer)
  BY <1>6 DEF Guards, AcceptFails, Done, Verify
<1> QED
  BY <1>3, <1>4, <1>5, <1>6 DEF Step
----------------------------------------------------------------------------
(* Type correctness.                                                       *)

\* The store stays well formed under every step of the login.
LEMMA SessionsStayTyped ==
  ASSUME TypeOK, [Next]_vars
  PROVE  SessionTypeOK'
<1>1. SessionTypeOK /\ \A w \in Workers : who[w] \in Users
  BY DEF TypeOK
<1>2. ASSUME NEW u \in Users, NEW s \in Session, Store(u, s)
      PROVE  SessionTypeOK'
  BY <1>1, <1>2, StoreEffect
<1>3. ASSUME UNCHANGED <<sessions, stopped>>, now' \in Nat
      PROVE  SessionTypeOK'
  BY <1>1, <1>3 DEF SessionTypeOK, Live
<1>4. now \in Nat
  BY <1>1 DEF SessionTypeOK
<1>5. ASSUME NEW w \in Workers,
             Step(w) \/ \E u \in Users : Message(w, u)
      PROVE  SessionTypeOK'
  <2>1. CASE Reject(w)
    BY <1>1, <1>2, <2>1, RejectEffect DEF Reject
  <2>2. CASE SetAuthenticated(w) \/ SetLogin(w)
    BY <1>1, <1>2, <2>2, LoginEffect DEF SetAuthenticated, SetLogin
  <2> QED
    BY <1>2, <1>3, <1>4, <1>5, <2>1, <2>2, WorkerSteps
<1>6. CASE Background
  <2>1. CASE DropExpired
    BY <1>1, <2>1, DropEffect
  <2>2. CASE Tick
    BY <1>3, <1>4, <2>2 DEF Tick
  <2> QED
    BY <1>6, <2>1, <2>2 DEF Background, ClearExpiredSessions, GetSessionStats
<1>7. CASE UNCHANGED vars
  BY <1>3, <1>4, <1>7 DEF vars
<1> QED
  BY <1>5, <1>6, <1>7 DEF Next

\* The recent attempts are a part of the deque.
LEMMA RecentType ==
  ASSUME TypeOK, NEW u \in Users
  PROVE  /\ Recent(u) \in Seq(Nat)
         /\ Append(Recent(u), now) \in Seq(Nat)
<1> DEFINE stale == {i \in DOMAIN burst[u] :
                       \A j \in 1..i : now - burst[u][j] > BurstWindow}
<1>1. burst[u] \in Seq(Nat) /\ now \in Nat
  BY DEF TypeOK, SessionTypeOK
<1>2. Len(burst[u]) \in Nat /\ DOMAIN burst[u] = 1 .. Len(burst[u])
  BY <1>1
<1>3. stale \subseteq 1 .. Len(burst[u])
  BY <1>2
<1>4. /\ IsFiniteSet(1 .. Len(burst[u]))
      /\ Cardinality(1 .. Len(burst[u])) = Len(burst[u])
  BY <1>2, FS_Interval
<1>5. Cardinality(stale) \in Nat /\ Cardinality(stale) <= Len(burst[u])
  BY <1>2, <1>3, <1>4, FS_Subset, FS_CardinalityType
<1> HIDE DEF stale
<1>6. SubSeq(burst[u], Cardinality(stale) + 1, Len(burst[u])) \in Seq(Nat)
  BY <1>1, <1>2, <1>5, SubSeqProperties
<1> QED
  BY <1>1, <1>6 DEF Recent, stale

\* The workers stay well formed under every step of the login.
LEMMA WorkersStayTyped ==
  ASSUME TypeOK, [Next]_vars
  PROVE  /\ phase' \in [Workers -> Phases]
         /\ who' \in [Workers -> Users]
         /\ seen' \in [Workers -> Seen]
         /\ burst' \in [Users -> Seq(Nat)]
<1> DEFINE Goal == /\ phase' \in [Workers -> Phases]
                   /\ who' \in [Workers -> Users]
                   /\ seen' \in [Workers -> Seen]
                   /\ burst' \in [Users -> Seq(Nat)]
<1>1. /\ phase \in [Workers -> Phases]
      /\ who \in [Workers -> Users]
      /\ seen \in [Workers -> Seen]
      /\ burst \in [Users -> Seq(Nat)]
  BY DEF TypeOK
<1>2. NothingSeen \in Seen
  BY DEF NothingSeen, Seen, Time, HandlerTypes
<1>3. ASSUME NEW w \in Workers PROVE Lookup(who[w]) \in Session
  BY <1>1, LookupType DEF TypeOK
<1>4. ASSUME NEW w \in Workers,
             \/ Prompt(w) \/ ReadBlock(w) \/ ReadAttempts(w)
             \/ RateLimited(w) \/ BlockUser(w)
             \/ \E answer \in {"yes", "no", "raises"} : Verify(w, answer)
             \/ Reject(w) \/ AcceptFails(w) \/ SetAuthenticated(w)
             \/ SetLogin(w) \/ ReadReferer(w) \/ ResetReferer(w)
             \/ \E type \in HandlerTypes \ {"none"} : RememberReferer(w, type)
             \/ Done(w)
      PROVE  Goal
  <2>1. who' = who /\ burst' = burst
    BY <1>4 DEF Prompt, ReadBlock, ReadAttempts, RateLimited, BlockUser,
       Verify, Reject, AcceptFails, SetAuthenticated, SetLogin, ReadReferer,
       ResetReferer, RememberReferer, Done
  <2>2. \E p \in Phases : phase' = [phase EXCEPT ![w] = p]
    BY <1>4 DEF Prompt, ReadBlock, ReadAttempts, RateLimited, BlockUser,
       Verify, Reject, AcceptFails, SetAuthenticated, SetLogin, ReadReferer,
       ResetReferer, RememberReferer, Done, Finish, Goto, Phases
  <2>3. \/ seen' = seen
        \/ seen' = [seen EXCEPT ![w] = NothingSeen]
        \/ seen' = [seen EXCEPT ![w].blockedUntil = Lookup(who[w]).blockedUntil]
        \/ seen' = [seen EXCEPT ![w].attempts = Lookup(who[w]).attempts]
        \/ seen' = [seen EXCEPT ![w].referer = Lookup(who[w]).referer]
    BY <1>4 DEF Prompt, ReadBlock, ReadAttempts, RateLimited, BlockUser,
       Verify, Reject, AcceptFails, SetAuthenticated, SetLogin, ReadReferer,
       ResetReferer, RememberReferer, Done, Finish
  <2>4. seen' \in [Workers -> Seen]
    <3> DEFINE l == Lookup(who[w])
               k == seen[w]
    <3>1. /\ [k EXCEPT !.blockedUntil = l.blockedUntil] \in Seen
          /\ [k EXCEPT !.attempts = l.attempts] \in Seen
          /\ [k EXCEPT !.referer = l.referer] \in Seen
      <4>1. k \in Seen /\ l \in Session
        BY <1>1, <1>3
      <4> HIDE DEF k, l
      <4> QED
        BY <4>1 DEF Seen, Session
    <3>2. \E k2 \in Seen : seen' = seen \/ seen' = [seen EXCEPT ![w] = k2]
      BY <1>2, <2>3, <3>1
    <3> QED
      BY <1>1, <3>2
  <2> QED
    BY <1>1, <2>1, <2>2, <2>4
<1>5. ASSUME NEW w \in Workers, Guards(w)
      PROVE  Goal
  <2>1. burst' \in [Users -> Seq(Nat)]
    BY <1>1, <1>5, RecentType DEF Guards, ConsumeTotpAttempt
  <2>2. \E p \in Phases : phase' = [phase EXCEPT ![w] = p]
    BY <1>5 DEF Guards, Goto, Phases
  <2>3. seen' \in [Workers -> Seen] /\ who' = who
    BY <1>1, <1>2, <1>5 DEF Guards
  <2> QED
    BY <1>1, <2>1, <2>2, <2>3
<1>6. ASSUME NEW w \in Workers, NEW u \in Users, Message(w, u)
      PROVE  Goal
  <2>1. who' = [who EXCEPT ![w] = u] /\ seen' = seen /\ burst' = burst
    BY <1>6 DEF Message, AskForCode, ReceiveCode, Protected, Take
  <2>2. \E p \in Phases : phase' = [phase EXCEPT ![w] = p]
    BY <1>6 DEF Message, AskForCode, ReceiveCode, Protected, Goto, Phases
  <2> QED
    BY <1>1, <2>1, <2>2
<1>7. CASE Background \/ UNCHANGED vars
  BY <1>1, <1>7 DEF Background, loginVars, vars
<1> QED
  BY <1>4, <1>5, <1>6, <1>7 DEF Next, Step

\* The states of the login are well formed, for every number of workers.
THEOREM TypeCorrect == Spec => []TypeOK
<1>1. Init => TypeOK
  <2> SUFFICES ASSUME Init PROVE TypeOK
    OBVIOUS
  <2>1. Live = {} /\ sessions \in [{} -> Session]
    BY DEF Init, SessionInit, Live
  <2>2. SessionTypeOK
    BY <2>1 DEF Init, SessionInit, SessionTypeOK
  <2>3. NothingSeen \in Seen
    BY DEF NothingSeen, Seen, Time, HandlerTypes
  <2>4. << >> \in Seq(Nat)
    OBVIOUS
  <2> QED
    BY <2>2, <2>3, <2>4 DEF Init, TypeOK, Phases
<1>2. TypeOK /\ [Next]_vars => TypeOK'
  BY SessionsStayTyped, WorkersStayTyped DEF TypeOK
<1> QED
  BY <1>1, <1>2, PTL DEF Spec
----------------------------------------------------------------------------
(* The bound on wrong codes.  AttemptsBounded is not inductive: a worker    *)
(* that has read a low counter may still reject a code.  Each such worker   *)
(* is counted against the budget of its user.                               *)

\* The workers that may still record a wrong code of u.
Pending(u) ==
    {w \in Workers :
       /\ who[w] = u
       /\ \/ phase[w] \in {"verifying", "rejected"}
          \/ phase[w] = "attemptsRead" /\ seen[w].attempts < TotpMax}

GuessBudget ==
    \A u \in Users :
      Lookup(u).attempts + Cardinality(Pending(u))
         <= TotpMax + Cardinality(Workers) - 1

\* Only the reading of a low counter adds a pending worker.
LEMMA PendingSteps ==
  ASSUME TypeOK, [Next]_vars, NEW u \in Users
  PROVE  \/ Pending(u)' \subseteq Pending(u)
         \/ Lookup(u).attempts < TotpMax
<1>1. /\ phase \in [Workers -> Phases]
      /\ who \in [Workers -> Users]
      /\ seen \in [Workers -> Seen]
  BY DEF TypeOK
<1>2. Lookup(u).attempts \in Nat /\ TotpMax \in Nat
  BY LookupType, LoginConstants DEF TypeOK, Session
<1>3. ASSUME NEW w \in Workers, ReadAttempts(w)
      PROVE  \/ Pending(u)' \subseteq Pending(u)
             \/ Lookup(u).attempts < TotpMax
  BY <1>1, <1>2, <1>3 DEF ReadAttempts, Goto, Pending
<1>4. ASSUME NEW w \in Workers, Guards(w)
      PROVE  Pending(u)' \subseteq Pending(u)
  BY <1>1, <1>2, <1>4 DEF Guards, Goto, Pending, Seen, NothingSeen
<1>5. ASSUME NEW w \in Workers, NEW v \in Users, Message(w, v)
      PROVE  Pending(u)' \subseteq Pending(u)
  BY <1>1, <1>5
     DEF Message, AskForCode, ReceiveCode, Protected, Take, Goto, Pending
<1>6. ASSUME NEW w \in Workers,
             \/ Prompt(w) \/ ReadBlock(w) \/ RateLimited(w) \/ BlockUser(w)
             \/ \E answer \in {"yes", "no", "raises"} : Verify(w, answer)
             \/ Reject(w) \/ AcceptFails(w) \/ SetAuthenticated(w)
             \/ SetLogin(w) \/ ReadReferer(w) \/ ResetReferer(w)
             \/ \E type \in HandlerTypes \ {"none"} : RememberReferer(w, type)
             \/ Done(w)
      PROVE  Pending(u)' \subseteq Pending(u)
  BY <1>1, <1>6
     DEF Prompt, ReadBlock, RateLimited, BlockUser, Verify, Reject,
         AcceptFails, SetAuthenticated, SetLogin, ReadReferer, ResetReferer,
         RememberReferer, Done, Finish, Goto, Pending, NothingSeen
<1>7. CASE Background \/ UNCHANGED vars
  BY <1>7 DEF Background, loginVars, vars, Pending
<1> QED
  BY <1>3, <1>4, <1>5, <1>6, <1>7 DEF Next, Step

\* A rejection takes its worker off the pending ones.
LEMMA RejectPending ==
  ASSUME TypeOK, NEW w \in Workers, NEW u \in Users, who[w] = u, Reject(w)
  PROVE  /\ w \in Pending(u)
         /\ Pending(u)' \subseteq Pending(u) \ {w}
BY DEF TypeOK, Reject, Finish, Goto, Pending, NothingSeen

\* The counter grows only with a rejection, by one.
LEMMA AttemptSteps ==
  ASSUME TypeOK, [Next]_vars, NEW u \in Users
  PROVE  /\ Lookup(u)'.attempts \in Nat
         /\ \/ Lookup(u)'.attempts <= Lookup(u).attempts
            \/ \E w \in Workers :
                 /\ Reject(w) /\ who[w] = u
                 /\ Lookup(u)'.attempts = Lookup(u).attempts + 1
<1>1. /\ SessionTypeOK /\ \A w \in Workers : who[w] \in Users
  BY DEF TypeOK
<1>2. Lookup(u) \in Session /\ Lookup(u)' \in Session
  <2>1. Lookup(u)' = IF u \in Live' THEN sessions'[u] ELSE NewSession
    BY DEF Lookup
  <2>2. NewSession \in Session
    BY DEF NewSession, Session, AuthStates, HandlerTypes, Time, None
  <2>3. SessionTypeOK'
    BY SessionsStayTyped
  <2> QED
    BY <1>1, <2>1, <2>2, <2>3, LookupType DEF SessionTypeOK
<1>3. Lookup(u).attempts \in Nat /\ Lookup(u)'.attempts \in Nat
      /\ NewSession.attempts = 0
  BY <1>2 DEF Session, NewSession
<1>4. ASSUME NEW v \in Users, NEW s \in Session, Store(v, s),
             s.attempts <= Lookup(v).attempts
      PROVE  Lookup(u)'.attempts <= Lookup(u).attempts
  BY <1>1, <1>3, <1>4, StoreLookup
<1>5. ASSUME UNCHANGED sessions
      PROVE  Lookup(u)'.attempts <= Lookup(u).attempts
  BY <1>3, <1>5 DEF Lookup, Live
<1>6. ASSUME NEW w \in Workers,
             Step(w) \/ \E v \in Users : Message(w, v)
      PROVE  \/ Lookup(u)'.attempts <= Lookup(u).attempts
             \/ /\ Reject(w) /\ who[w] = u
                /\ Lookup(u)'.attempts = Lookup(u).attempts + 1
  <2>1. CASE Reject(w)
    <3>1. PICK s \in Session : /\ s.attempts = Lookup(who[w]).attempts + 1
                               /\ Store(who[w], s)
      BY <1>1, <2>1, RejectEffect DEF Reject
    <3> QED
      BY <1>1, <1>3, <2>1, <3>1, StoreLookup
  <2>2. CASE SetAuthenticated(w) \/ SetLogin(w)
    <3>1. PICK s \in Session : /\ s.attempts = Lookup(who[w]).attempts
                               /\ Store(who[w], s)
      BY <1>1, <2>2, LoginEffect DEF SetAuthenticated, SetLogin
    <3>2. Lookup(who[w]) \in Session
      BY <1>1, LookupType
    <3>3. s.attempts <= Lookup(who[w]).attempts
      BY <3>1, <3>2 DEF Session
    <3> QED
      BY <1>1, <1>4, <3>1, <3>3
  <2> QED
    BY <1>4, <1>5, <1>6, <2>1, <2>2, WorkerSteps DEF Harmless
<1>7. CASE Background
  <2>1. CASE DropExpired
    BY <1>1, <1>3, <2>1, DropLookup
  <2> QED
    BY <1>3, <1>5, <1>7, <2>1 DEF Background, ClearExpiredSessions, GetSessionStats, Tick
<1>8. CASE UNCHANGED vars
  BY <1>3, <1>5, <1>8 DEF vars
<1> QED
  BY <1>3, <1>6, <1>7, <1>8 DEF Next

\* A set of workers is no larger than the pool, and smaller without one.
LEMMA PoolSize ==
  ASSUME NEW S \in SUBSET Workers
  PROVE  /\ IsFiniteSet(S)
         /\ Cardinality(S) \in Nat /\ Cardinality(Workers) \in Nat
         /\ Cardinality(S) <= Cardinality(Workers)
         /\ \A T \in SUBSET S : /\ Cardinality(T) \in Nat
                                 /\ Cardinality(T) <= Cardinality(S)
         /\ \A w \in S : Cardinality(S \ {w}) = Cardinality(S) - 1
BY LoginConstants, FS_Subset, FS_CardinalityType, FS_RemoveElement

\* No step exceeds the budget of a user.
LEMMA BudgetStep ==
  ASSUME TypeOK, GuessBudget, [Next]_vars
  PROVE  GuessBudget'
<1> SUFFICES ASSUME NEW u \in Users
             PROVE  Lookup(u)'.attempts + Cardinality(Pending(u)')
                      <= TotpMax + Cardinality(Workers) - 1
  BY DEF GuessBudget
<1> DEFINE a == Lookup(u).attempts
           b == Lookup(u)'.attempts
           P == Pending(u)
           Q == Pending(u)'
<1>1. a \in Nat /\ b \in Nat /\ TotpMax \in Nat
  BY LookupType, AttemptSteps, LoginConstants DEF TypeOK, Session
<1>2. P \subseteq Workers /\ Q \subseteq Workers
  BY DEF Pending
<1>3. a + Cardinality(P) <= TotpMax + Cardinality(Workers) - 1
  BY DEF GuessBudget
<1>4. Cardinality(Workers) \in Nat /\ Cardinality(P) \in Nat
      /\ Cardinality(Q) \in Nat /\ Cardinality(Q) <= Cardinality(Workers)
  BY <1>2, PoolSize
<1>5. ASSUME NEW w \in Workers, Reject(w), who[w] = u, b = a + 1
      PROVE  b + Cardinality(Q) <= TotpMax + Cardinality(Workers) - 1
  <2>1. w \in P /\ Q \subseteq P \ {w}
    BY <1>5, RejectPending
  <2>2. P \ {w} \subseteq Workers /\ Cardinality(P \ {w}) = Cardinality(P) - 1
    BY <1>2, <2>1, PoolSize
  <2>3. Cardinality(Q) <= Cardinality(P \ {w})
    BY <2>1, <2>2, PoolSize
  <2> HIDE DEF a, b, P, Q
  <2> QED
    BY <1>1, <1>3, <1>4, <1>5, <2>2, <2>3
<1>6. CASE b <= a /\ Q \subseteq P
  <2>1. Cardinality(Q) <= Cardinality(P)
    BY <1>2, <1>6, PoolSize
  <2> HIDE DEF a, b, P, Q
  <2>2. b + Cardinality(Q) <= TotpMax + Cardinality(Workers) - 1
    BY <1>1, <1>3, <1>4, <1>6, <2>1
  <2> QED
    BY <2>2 DEF b, Q
<1>7. CASE b <= a /\ a < TotpMax
  <2> HIDE DEF a, b, P, Q
  <2>1. b + Cardinality(Q) <= TotpMax + Cardinality(Workers) - 1
    BY <1>1, <1>4, <1>7
  <2> QED
    BY <2>1 DEF b, Q
<1> QED
  BY <1>5, <1>6, <1>7, PendingSteps, AttemptSteps

\* Whatever the workers interleave, a session records at most the limit of
\* wrong codes and one more per further worker.
THEOREM AttemptsAreBounded == Spec => []AttemptsBounded
<1>1. Init => GuessBudget
  <2> SUFFICES ASSUME Init, NEW u \in Users
               PROVE  Lookup(u).attempts + Cardinality(Pending(u))
                        <= TotpMax + Cardinality(Workers) - 1
    BY DEF GuessBudget
  <2>1. Lookup(u).attempts = 0
    BY DEF Init, SessionInit, Lookup, Live, NewSession
  <2>2. Pending(u) = {}
    BY DEF Init, Pending
  <2>3. Cardinality({}) = 0 /\ Cardinality(Workers) \in Nat /\ TotpMax \in Nat \ {0}
    BY FS_EmptySet, LoginConstants, FS_CardinalityType
  <2> QED
    BY <2>1, <2>2, <2>3
<1>2. TypeOK /\ GuessBudget => AttemptsBounded
  <2> SUFFICES ASSUME TypeOK, GuessBudget, NEW u \in Live
               PROVE  sessions[u].attempts <= TotpMax + Cardinality(Workers) - 1
    BY DEF AttemptsBounded
  <2>1. u \in Users /\ sessions[u] = Lookup(u)
    BY DEF TypeOK, SessionTypeOK, Lookup
  <2>2. Lookup(u).attempts \in Nat
    BY <2>1, LookupType DEF TypeOK, Session
  <2>3. Cardinality(Pending(u)) \in Nat /\ Cardinality(Workers) \in Nat
    BY PoolSize, Pending(u) \subseteq Workers DEF Pending
  <2>4. Lookup(u).attempts + Cardinality(Pending(u))
          <= TotpMax + Cardinality(Workers) - 1
    BY <2>1 DEF GuessBudget
  <2> QED
    BY <2>1, <2>2, <2>3, <2>4, LoginConstants
<1>3. TypeOK /\ GuessBudget /\ [Next]_vars => GuessBudget'
  BY BudgetStep
<1> QED
  BY <1>1, <1>2, <1>3, TypeCorrect, PTL DEF Spec
----------------------------------------------------------------------------
(* Who becomes authenticated.                                              *)

\* A step that authenticates a user is the step of a worker that holds an
\* accepted code of that user.
LEMMA AuthenticationStep ==
  ASSUME TypeOK, [Next]_vars, NEW u \in Users,
         u \in Live', sessions'[u].auth = "authenticated"
  PROVE  \/ u \in Live /\ sessions[u].auth = "authenticated"
         \/ \E w \in Workers : who[w] = u /\ phase[w] = "accepted"
<1>1. SessionTypeOK /\ \A w \in Workers : who[w] \in Users
  BY DEF TypeOK
<1>2. Lookup(u)' = sessions'[u]
  BY DEF Lookup
<1>3. Lookup(u).auth = "authenticated"
        => u \in Live /\ sessions[u].auth = "authenticated"
  BY DEF Lookup, NewSession
<1>4. NewSession.auth # "authenticated"
  BY DEF NewSession
<1>5. ASSUME NEW v \in Users, NEW s \in Session, Store(v, s),
             s.auth = "authenticated" => Lookup(v).auth = "authenticated"
      PROVE  Lookup(u).auth = "authenticated"
  BY <1>1, <1>2, <1>4, <1>5, StoreLookup
<1>6. ASSUME UNCHANGED sessions
      PROVE  u \in Live /\ sessions[u].auth = "authenticated"
  BY <1>6 DEF Live
<1>7. ASSUME NEW w \in Workers,
             Step(w) \/ \E v \in Users : Message(w, v)
      PROVE  \/ Lookup(u).auth = "authenticated"
             \/ u \in Live /\ sessions[u].auth = "authenticated"
             \/ who[w] = u /\ phase[w] = "accepted"
  <2>1. CASE Reject(w)
    BY <1>1, <1>5, <2>1, RejectEffect DEF Reject
  <2>2. CASE SetAuthenticated(w)
    <3>1. PICK s \in Session : Store(who[w], s)
      BY <1>1, <2>2, LoginEffect DEF SetAuthenticated
    <3>2. who[w] # u => Lookup(u).auth = "authenticated"
      BY <1>1, <1>2, <1>4, <3>1, StoreLookup
    <3> QED
      BY <2>2, <3>2 DEF SetAuthenticated
  <2>3. CASE SetLogin(w)
    BY <1>1, <1>5, <2>3, LoginEffect DEF SetLogin
  <2> QED
    BY <1>5, <1>6, <1>7, <2>1, <2>2, <2>3, WorkerSteps DEF Harmless
<1>8. CASE Background
  <2>1. CASE DropExpired
    BY <1>1, <1>2, <1>3, <1>4, <2>1, DropLookup
  <2> QED
    BY <1>6, <1>8, <2>1 DEF Background, ClearExpiredSessions, GetSessionStats, Tick
<1>9. CASE UNCHANGED vars
  BY <1>6, <1>9 DEF vars
<1> QED
  BY <1>3, <1>7, <1>8, <1>9 DEF Next

\* Whatever is interleaved, only an accepted code authenticates.
THEOREM OnlyAcceptedCodes == Spec => OnlyCodesAuthenticate
<1>1. TypeOK /\ [Next]_vars
        => [\A u \in Users :
              (u \in Live' /\ sessions'[u].auth = "authenticated")
                => \/ u \in Live /\ sessions[u].auth = "authenticated"
                   \/ \E w \in Workers : who[w] = u /\ phase[w] = "accepted"]_vars
  BY AuthenticationStep
<1> QED
  BY <1>1, TypeCorrect, PTL DEF Spec, OnlyCodesAuthenticate

----------------------------------------------------------------------------
(* The login implements the gate.                                          *)

\* A login window changes only by closing, but for the user who logs in.
LEMMA WindowSteps ==
  ASSUME TypeOK, [Next]_vars, NEW u \in Users
  PROVE  \/ GateOpened'[u] \in {GateOpened[u], None}
         \/ \E w \in Workers : /\ SetLogin(w) /\ who[w] = u
                               /\ GateOpened'[u] = now
<1>1. SessionTypeOK /\ \A w \in Workers : who[w] \in Users
  BY DEF TypeOK
<1>2. /\ GateOpened[u] = Lookup(u).loginTime
      /\ GateOpened'[u] = Lookup(u)'.loginTime
  BY DEF GateOpened
<1>3. NewSession.loginTime = None
  BY DEF NewSession
<1>4. ASSUME NEW v \in Users, NEW s \in Session, Store(v, s),
             s.loginTime = Lookup(v).loginTime
      PROVE  GateOpened'[u] \in {GateOpened[u], None}
  BY <1>1, <1>2, <1>3, <1>4, StoreLookup
<1>5. ASSUME UNCHANGED sessions
      PROVE  GateOpened'[u] = GateOpened[u]
  BY <1>2, <1>5 DEF Lookup, Live
<1>6. ASSUME NEW w \in Workers,
             Step(w) \/ \E v \in Users : Message(w, v)
      PROVE  \/ GateOpened'[u] \in {GateOpened[u], None}
             \/ SetLogin(w) /\ who[w] = u /\ GateOpened'[u] = now
  <2>1. CASE Reject(w)
    BY <1>1, <1>4, <2>1, RejectEffect DEF Reject
  <2>2. CASE SetAuthenticated(w)
    BY <1>1, <1>4, <2>2, LoginEffect DEF SetAuthenticated
  <2>3. CASE SetLogin(w)
    <3>1. PICK s \in Session : s.loginTime = now /\ Store(who[w], s)
      BY <1>1, <2>3, LoginEffect DEF SetLogin
    <3> QED
      BY <1>1, <1>2, <1>3, <2>3, <3>1, StoreLookup
  <2> QED
    BY <1>4, <1>5, <1>6, <2>1, <2>2, <2>3, WorkerSteps DEF Harmless
<1>7. CASE Background
  <2>1. CASE DropExpired
    BY <1>1, <1>2, <1>3, <2>1, DropLookup
  <2> QED
    BY <1>5, <1>7, <2>1 DEF Background, ClearExpiredSessions, GetSessionStats, Tick
<1>8. CASE UNCHANGED vars
  BY <1>5, <1>8 DEF vars
<1> QED
  BY <1>6, <1>7, <1>8 DEF Next

\* The steps of the workers and what each does to its role at the gate.
LEMMA RoleSteps ==
  ASSUME TypeOK, NEW w \in Workers,
         Step(w) \/ \E u \in Users : Message(w, u)
  PROVE  /\ Gate!KeepsClients(w)
         /\ SetLogin(w) => GateRole[w] = "paid" /\ GateRole'[w] = "none"
         /\ \/ GateRole'[w] \in {GateRole[w], "none"}
            \/ GateRole[w] = "none" /\ GateRole'[w] = "paid"
            \/ /\ GateRole[w] = "none" /\ GateRole'[w] = "running"
               /\ who'[w] \in Admins
               /\ AuthenticatedNow(Lookup(who'[w]))
<1>1. phase \in [Workers -> Phases] /\ who \in [Workers -> Users]
  BY DEF TypeOK
<1>2. \A v \in Workers :
        /\ GateRole[v] = CASE phase[v] \in {"accepted", "stateSet"} -> "paid"
                           [] phase[v] = "granted" -> "running"
                           [] OTHER -> "none"
        /\ GateRole'[v] = CASE phase'[v] \in {"accepted", "stateSet"} -> "paid"
                            [] phase'[v] = "granted" -> "running"
                            [] OTHER -> "none"
  BY DEF GateRole
<1>3. ASSUME NEW p \in Phases, phase' = [phase EXCEPT ![w] = p]
      PROVE  /\ phase'[w] = p
             /\ \A v \in Workers \ {w} : GateRole'[v] = GateRole[v]
  BY <1>1, <1>2, <1>3
<1>4. CASE \/ Prompt(w) \/ ReadBlock(w) \/ ReadAttempts(w) \/ Guards(w)
           \/ RateLimited(w) \/ BlockUser(w) \/ Reject(w) \/ AcceptFails(w)
           \/ SetLogin(w) \/ ReadReferer(w) \/ ResetReferer(w)
           \/ \E type \in HandlerTypes \ {"none"} : RememberReferer(w, type)
           \/ Done(w)
  <2>1. who' = who
    BY <1>4 DEF Prompt, ReadBlock, ReadAttempts, Guards, RateLimited,
       BlockUser, Reject, AcceptFails, SetLogin, ReadReferer, ResetReferer,
       RememberReferer, Done
  <2>2. PICK p \in Phases \ {"accepted", "stateSet", "granted"} :
          phase' = [phase EXCEPT ![w] = p]
    BY <1>4 DEF Prompt, ReadBlock, ReadAttempts, Guards, RateLimited,
       BlockUser, Reject, AcceptFails, SetLogin, ReadReferer, ResetReferer,
       RememberReferer, Done, Goto, Finish, Phases
  <2>3. GateRole'[w] = "none"
    BY <1>2, <1>3, <2>2
  <2>4. SetLogin(w) => GateRole[w] = "paid"
    BY <1>2 DEF SetLogin
  <2> QED
    BY <1>3, <2>1, <2>2, <2>3, <2>4 DEF Gate!KeepsClients
<1>5. CASE \E answer \in {"yes", "no", "raises"} : Verify(w, answer)
  <2>1. who' = who /\ GateRole[w] = "none" /\ ~SetLogin(w)
    BY <1>2, <1>5 DEF Verify, SetLogin
  <2>2. PICK p \in Phases \ {"granted"} : phase' = [phase EXCEPT ![w] = p]
    BY <1>5 DEF Verify, Goto, Phases
  <2>3. GateRole'[w] \in {"none", "paid"}
    BY <1>2, <1>3, <2>2
  <2> QED
    BY <1>3, <2>1, <2>2, <2>3 DEF Gate!KeepsClients
<1>6. CASE SetAuthenticated(w)
  <2>1. who' = who /\ GateRole[w] = "paid" /\ ~SetLogin(w)
    BY <1>2, <1>6 DEF SetAuthenticated, SetLogin
  <2>2. phase' = [phase EXCEPT ![w] = "stateSet"] /\ "stateSet" \in Phases
    BY <1>6 DEF SetAuthenticated, Goto, Phases
  <2>3. GateRole'[w] = "paid"
    BY <1>2, <1>3, <2>2
  <2> QED
    BY <1>3, <2>1, <2>2, <2>3 DEF Gate!KeepsClients
<1>7. CASE \E u \in Users : Message(w, u)
  <2>1. PICK u \in Users : Message(w, u)
    BY <1>7
  <2>2. who' = [who EXCEPT ![w] = u] /\ phase[w] = "idle"
    BY <2>1 DEF Message, AskForCode, ReceiveCode, Protected, Take
  <2>3. GateRole[w] = "none" /\ ~SetLogin(w)
    BY <1>2, <2>2 DEF SetLogin
  <2>4. who'[w] = u /\ \A v \in Workers \ {w} : who'[v] = who[v]
    BY <1>1, <2>2
  <2>5. PICK p \in Phases :
          /\ phase' = [phase EXCEPT ![w] = p]
          /\ p \notin {"accepted", "stateSet"}
          /\ p = "granted" => u \in Admins /\ AuthenticatedNow(Lookup(u))
    BY <2>1 DEF Message, AskForCode, ReceiveCode, Protected, Goto, Phases
  <2>6. \/ GateRole'[w] = "none"
        \/ GateRole'[w] = "running" /\ u \in Admins /\ AuthenticatedNow(Lookup(u))
    BY <1>2, <1>3, <2>5
  <2>7. Gate!KeepsClients(w)
    BY <1>3, <2>3, <2>4, <2>5 DEF Gate!KeepsClients
  <2> QED
    BY <2>3, <2>4, <2>6, <2>7
<1> QED
  BY <1>4, <1>5, <1>6, <1>7 DEF Step

\* Every step of the login is a step of the gate.
LEMMA GateStep ==
  ASSUME TypeOK, [Next]_vars
  PROVE  [Gate!Next]_(Gate!gateVars)
<1>1. ASSUME NEW w \in Workers, Step(w) \/ \E u \in Users : Message(w, u)
      PROVE  Gate!Next
  <2>1. /\ Gate!KeepsClients(w)
        /\ SetLogin(w) => GateRole[w] = "paid" /\ GateRole'[w] = "none"
        /\ \/ GateRole'[w] \in {GateRole[w], "none"}
           \/ GateRole[w] = "none" /\ GateRole'[w] = "paid"
           \/ /\ GateRole[w] = "none" /\ GateRole'[w] = "running"
              /\ who'[w] \in Admins
              /\ AuthenticatedNow(Lookup(who'[w]))
    BY <1>1, RoleSteps
  <2>2. now' = now
    <3>1. SessionTypeOK /\ who[w] \in Users
      BY DEF TypeOK
    <3>2. ASSUME NEW v \in Users, NEW s \in Session, Store(v, s)
          PROVE  now' = now
      BY <3>2 DEF Store
    <3> QED
      BY <1>1, <3>1, <3>2, WorkerSteps, RejectEffect, LoginEffect
         DEF Reject, SetAuthenticated, SetLogin
  <2>3. who' \in [Workers -> Users]
    BY WorkersStayTyped, <1>1 DEF Next
  <2>4. CASE SetLogin(w)
    <3>1. \A u \in Users : \/ GateOpened'[u] \in {GateOpened[u], None}
                           \/ u = who[w] /\ GateOpened'[u] = now
      <4>1. \A x \in Workers : SetLogin(x) => x = w
        BY <2>4 DEF SetLogin, Goto, TypeOK
      <4> QED
        BY <4>1, WindowSteps
    <3>2. GateOpened'[who[w]] = now
      <4>1. SessionTypeOK /\ who[w] \in Users
        BY DEF TypeOK
      <4>2. PICK s \in Session : s.loginTime = now /\ Store(who[w], s)
        BY <2>4, <4>1, LoginEffect DEF SetLogin
      <4> DEFINE u == who[w]
      <4>3. u \in Live' /\ sessions'[u] = s
        BY <4>1, <4>2, StoreEffect
      <4> QED
        BY <4>1, <4>2, <4>3 DEF GateOpened, Lookup
    <3>3. Gate!Open(w)
      BY <2>1, <2>4, <3>1, <3>2 DEF Gate!Open, Gate!MayClose, Gate!None, None
    <3> QED
      BY <2>1, <2>2, <3>3 DEF Gate!Next
  <2>5. CASE ~SetLogin(w)
    <3>1. Gate!MayClose(Users)
      <4>1. \A x \in Workers : ~SetLogin(x)
        <5> SUFFICES ASSUME NEW x \in Workers, SetLogin(x), x # w PROVE FALSE
          BY <2>5
        <5>1. GateRole[x] = "paid" /\ GateRole'[x] = "none"
          BY RoleSteps DEF Step
        <5>2. GateRole'[x] = GateRole[x]
          BY <2>1 DEF Gate!KeepsClients
        <5> QED
          BY <5>1, <5>2
      <4> QED
        BY <4>1, WindowSteps DEF Gate!MayClose, Gate!None, None
    <3>2. CASE GateRole'[w] \in {GateRole[w], "none"}
      BY <2>1, <2>2, <3>1, <3>2 DEF Gate!Leave, Gate!Next
    <3>3. CASE GateRole[w] = "none" /\ GateRole'[w] = "paid"
      BY <2>1, <2>2, <3>1, <3>3 DEF Gate!Pay, Gate!Next
    <3>4. CASE /\ GateRole[w] = "none" /\ GateRole'[w] = "running"
               /\ who'[w] \in Admins
               /\ AuthenticatedNow(Lookup(who'[w]))
      <4> DEFINE u == who'[w]
      <4>1. u \in Users
        BY <2>3
      <4>2. GateOpened[u] = Lookup(u).loginTime /\ GateLock[u] = Lookup(u).blockedUntil
        BY <4>1 DEF GateOpened, GateLock
      <4>3. Lookup(u) \in Session
        BY <4>1, LookupType DEF TypeOK
      <4>4. Gate!InWindow(u) /\ ~Gate!Locked(u)
        BY <3>4, <4>2, <4>3, SessionConstants
           DEF Gate!InWindow, Gate!Locked, Gate!None, AuthenticatedNow,
               IsBlockedNow, IsExpired, None, Session, Time, TypeOK,
               SessionTypeOK
      <4>5. Gate!Start(w)
        BY <3>1, <3>4, <4>4 DEF Gate!Start
      <4> QED
        BY <2>1, <2>2, <4>5 DEF Gate!Next
    <3> QED
      BY <2>1, <3>2, <3>3, <3>4
  <2> QED
    BY <2>4, <2>5
<1>2. ASSUME UNCHANGED <<phase, who, sessions>>
      PROVE  UNCHANGED <<GateRole, who, GateOpened, GateLock>>
  BY <1>2 DEF GateRole, GateOpened, GateLock, Lookup, Live
<1>3. CASE Background
  <2>1. UNCHANGED <<phase, who>>
    BY <1>3 DEF Background, loginVars
  <2>2. CASE DropExpired
    <3>1. Gate!MayClose(Users)
      <4>1. \A x \in Workers : ~SetLogin(x)
        BY <2>1 DEF SetLogin, Goto, TypeOK
      <4> QED
        BY <1>3, <4>1, WindowSteps DEF Gate!MayClose, Gate!None, None, Next
    <3>2. UNCHANGED GateRole /\ now' = now
      BY <2>1, <2>2 DEF GateRole, DropExpired
    <3> QED
      BY <2>1, <3>1, <3>2 DEF Gate!Next
  <2>3. CASE Tick
    <3>1. now' > now /\ UNCHANGED sessions
      BY <2>3 DEF Tick, TypeOK, SessionTypeOK
    <3> QED
      BY <1>2, <2>1, <3>1 DEF Gate!Next
  <2> QED
    BY <1>3, <2>2, <2>3 DEF Background, ClearExpiredSessions, GetSessionStats
<1>4. CASE UNCHANGED vars
  BY <1>2, <1>4 DEF vars, Gate!gateVars
<1> QED
  BY <1>1, <1>3, <1>4 DEF Next

\* The login implements the abstract gate, for every pool of workers and
\* every capacity of the store.
THEOREM LoginImplementsGate == Spec => GateSpec
<1>1. Init => Gate!Init
  BY DEF Init, SessionInit, Gate!Init, GateRole, GateOpened, GateLock, Lookup,
         Live, NewSession, None, Gate!None
<1>2. TypeOK /\ [Next]_vars => [Gate!Next]_(Gate!gateVars)
  BY GateStep
<1> QED
  BY <1>1, <1>2, TypeCorrect, PTL DEF Spec, GateSpec, Gate!Spec
=============================================================================
