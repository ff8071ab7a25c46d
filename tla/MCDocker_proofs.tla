--------------------------- MODULE MCDocker_proofs ---------------------------
(***************************************************************************)
(* What waits for a service, for every number of workers, users, messages  *)
(* and repositories: operations on containers, the check for updates, the  *)
(* deletion of messages, and the Docker client.                            *)
(***************************************************************************)
EXTENDS MCDocker, FiniteSetTheorems, TLAPS

----------------------------------------------------------------------------
(* Container operations, whatever the session store does meanwhile.         *)

\* An operation runs only under a call that was permitted and still waits
\* for it; a call under way has no answer, and none is given before its end.
CallInv ==
    /\ DOMAIN call = Workers /\ DOMAIN op = Workers /\ DOMAIN answer = Workers
    /\ \A w \in Workers :
         /\ {"phase", "user", "action", "since", "valid"} = DOMAIN call[w]
         /\ call[w].phase \in {"permitted", "waiting", "late"} => call[w].valid
         /\ op[w] = "running" => call[w].phase \in {"waiting", "late"}
         /\ call[w].phase \in {"granted", "authorized", "admitted", "permitted"} =>
              op[w] = "none"
         /\ call[w].phase \in {"waiting", "late"} => op[w] \in {"running", "done", "failed"}
         /\ call[w].phase # "idle" => answer[w] = "none"
         /\ answer[w] = "ok" => op[w] = "done"
         /\ answer[w] = "refused" => op[w] = "none"
         /\ answer[w] = "timeout" => op[w] \in {"done", "failed"}

LEMMA CallInit == Init => CallInv
BY DEF Init, CallInv, Idle

\* What is_authenticated confirms is a valid login.
LEMMA AuthenticatedIsValid ==
  ASSUME NEW u, AuthenticatedNow(Lookup(u))
  PROVE  LoginValid(u)
BY DEF AuthenticatedNow, LoginValid

LEMMA CallNext == CallInv /\ [Next]_vars => CallInv'
<1> SUFFICES ASSUME CallInv, [Next]_vars PROVE CallInv'
  OBVIOUS
<1>1. CASE UNCHANGED opVars
  BY <1>1 DEF opVars, CallInv
<1>2. CASE StatusChanges
  BY <1>2 DEF StatusChanges, CallInv
<1>3. ASSUME NEW w \in Workers, NEW u \in Admins, NEW a \in Actions, Press(w, u, a)
      PROVE  CallInv'
  BY <1>3 DEF Press, CallInv, Idle
<1>4. ASSUME NEW w \in Workers, Authorize(w)
      PROVE  CallInv'
  BY <1>4 DEF Authorize, Goto, Answer, CallInv, Idle
<1>5. ASSUME NEW w \in Workers, Admit(w)
      PROVE  CallInv'
  <2>1. /\ call[w].phase = "authorized" /\ UNCHANGED op
        /\ \/ Answer(w, "refused")
           \/ Goto(w, "admitted") /\ UNCHANGED answer
    BY <1>5 DEF Admit
  <2> QED
    BY <2>1 DEF Goto, Answer, CallInv, Idle
<1>6. ASSUME NEW w \in Workers, Permit(w)
      PROVE  CallInv'
  <2>1. /\ call[w].phase = "admitted" /\ UNCHANGED op
        /\ \/ Answer(w, "refused")
           \/ /\ call' = [call EXCEPT ![w].phase = "permitted", ![w].valid = TRUE]
              /\ UNCHANGED answer
    BY <1>6, AuthenticatedIsValid, Zenon DEF Permit, LoginValid, AuthenticatedNow
  <2> QED
    BY <2>1 DEF Answer, CallInv, Idle
<1>7. ASSUME NEW w \in Workers, Begin(w) \/ NotFound(w)
      PROVE  CallInv'
  BY <1>7 DEF Begin, NotFound, Answer, CallInv, Idle
<1>8. ASSUME NEW w \in Workers, OperationEnds(w)
      PROVE  CallInv'
  BY <1>8 DEF OperationEnds, OperationWorks, OperationFails, CallInv
<1>9. ASSUME NEW w \in Workers, TimeOut(w)
      PROVE  CallInv'
  BY <1>9 DEF TimeOut, Goto, CallInv
<1>10. ASSUME NEW w \in Workers, Look(w) \/ LeavePool(w)
       PROVE  CallInv'
  BY <1>10 DEF Look, LeavePool, Answer, CallInv, Idle
<1>11. CASE UNCHANGED vars
  BY <1>1, <1>11 DEF vars
<1> QED
  BY <1>1, <1>2, <1>3, <1>4, <1>5, <1>6, <1>7, <1>8, <1>9, <1>10, <1>11
     DEF Next, CallStep, Check, LogIn, Block, Background, Elsewhere

\* An operation starts only for a user whose login was valid when the call
\* last looked.
THEOREM OperationsNeedLogins == Spec => []OnlyForValidLogins
<1>1. CallInv => OnlyForValidLogins
  BY DEF CallInv, OnlyForValidLogins
<1> QED
  BY <1>1, CallInit, CallNext, PTL DEF Spec

\* An answer is honest about what was done, whatever fails or is late.
THEOREM AnswersAreTrue == Spec => []AnswersAreHonest
<1>1. CallInv => AnswersAreHonest
  BY DEF CallInv, AnswersAreHonest
<1> QED
  BY <1>1, CallInit, CallNext, PTL DEF Spec
----------------------------------------------------------------------------
(* What a press still has before it.                                        *)

\* The calls that are left to a handler, and the end of its operation.
CallLeft(w) ==
    (CASE call[w].phase = "granted" -> 7 [] call[w].phase = "authorized" -> 6
       [] call[w].phase = "admitted" -> 5 [] call[w].phase = "permitted" -> 4
       [] call[w].phase = "waiting" -> 2 [] call[w].phase = "late" -> 1 [] OTHER -> 0)
      + (IF op[w] = "running" THEN 1 ELSE 0)

\* No other worker, session or container takes a call back.
Answering ==
    \A w \in Workers : call[w].phase # "idle" =>
      /\ CallLeft(w)' <= CallLeft(w)
      /\ Serve(w) => CallLeft(w)' < CallLeft(w)

PhasesInv ==
    \A w \in Workers :
      call[w].phase \in {"idle", "granted", "authorized", "admitted", "permitted", "waiting", "late"}

\* A call that is over has left nothing running.
AnsweredWhole ==
    \A w \in Workers : CallLeft(w) \in 0..7 /\ (call[w].phase = "idle" <=> CallLeft(w) = 0)

LEMMA StepOfACall ==
  ASSUME CallInv, PhasesInv, [Next]_vars, NEW w \in Workers
  PROVE  \/ call'[w] = call[w] /\ op'[w] = op[w] /\ ~Serve(w)
         \/ call[w].phase = "idle" /\ op'[w] = "none" /\ call'[w].phase \in {"idle", "granted"}
         \/ /\ call'[w] = call[w] /\ op[w] = "running" /\ op'[w] \in {"done", "failed"}
         \/ /\ call[w].phase = "permitted" /\ call'[w].phase = "waiting" /\ op'[w] = "running"
         \/ /\ op'[w] = op[w]
            /\ \/ /\ call[w].phase \in {"granted", "authorized", "admitted", "permitted"}
                  /\ call'[w].phase = "idle"
               \/ call[w].phase = "granted" /\ call'[w].phase = "authorized"
               \/ call[w].phase = "authorized" /\ call'[w].phase = "admitted"
               \/ call[w].phase = "admitted" /\ call'[w].phase = "permitted"
               \/ call[w].phase = "waiting" /\ call'[w].phase = "late"
               \/ /\ call[w].phase \in {"waiting", "late"} /\ op[w] # "running"
                  /\ call'[w].phase = "idle"
<1>0. /\ DOMAIN call = Workers /\ DOMAIN op = Workers
      /\ \A v \in Workers : DOMAIN call[v] = {"phase", "user", "action", "since", "valid"}
  BY DEF CallInv
<1>1. ASSUME NEW v \in Workers, NEW u \in Admins, NEW a \in Actions, Press(v, u, a)
      PROVE  /\ \A x \in Workers \ {v} : call'[x] = call[x] /\ op'[x] = op[x]
             /\ call[v].phase = "idle" /\ op'[v] = "none"
             /\ call'[v].phase \in {"idle", "granted"}
  BY <1>0, <1>1 DEF Press, Idle
<1>2. ASSUME NEW v \in Workers, CallStep(v)
      PROVE  /\ \A x \in Workers \ {v} : call'[x] = call[x] /\ op'[x] = op[x]
             /\ \/ /\ call[v].phase = "permitted" /\ call'[v].phase = "waiting"
                   /\ op'[v] = "running"
                \/ /\ op'[v] = op[v]
                   /\ \/ /\ call[v].phase \in {"granted", "authorized", "admitted", "permitted"}
                         /\ call'[v].phase = "idle"
                      \/ call[v].phase = "granted" /\ call'[v].phase = "authorized"
                      \/ call[v].phase = "authorized" /\ call'[v].phase = "admitted"
                      \/ call[v].phase = "admitted" /\ call'[v].phase = "permitted"
                      \/ call[v].phase = "waiting" /\ call'[v].phase = "late"
                      \/ /\ call[v].phase \in {"waiting", "late"} /\ op[v] # "running"
                         /\ call'[v].phase = "idle"
  <2>1. CASE Authorize(v)
    BY <1>0, <2>1 DEF Authorize, Goto, Answer, Idle
  <2>2. CASE Admit(v)
    <3>1. /\ call[v].phase = "authorized" /\ UNCHANGED op
          /\ Answer(v, "refused") \/ Goto(v, "admitted")
      BY <2>2 DEF Admit
    <3> QED
      BY <1>0, <3>1 DEF Goto, Answer, Idle
  <2>3. CASE Permit(v)
    <3>1. /\ call[v].phase = "admitted" /\ UNCHANGED op
          /\ \/ Answer(v, "refused")
             \/ \E b : call' = [call EXCEPT ![v].phase = "permitted", ![v].valid = b]
      BY <2>3 DEF Permit
    <3> QED
      BY <1>0, <3>1 DEF Answer, Idle
  <2>4. CASE Begin(v)
    BY <1>0, <2>4 DEF Begin
  <2>5. CASE NotFound(v)
    BY <1>0, <2>5 DEF NotFound, Answer, Idle
  <2>6. CASE TimeOut(v)
    BY <1>0, <2>6 DEF TimeOut, Goto
  <2>7. CASE Look(v)
    BY <1>0, <2>7 DEF Look, Answer, Idle
  <2>8. CASE LeavePool(v)
    BY <1>0, <2>8 DEF LeavePool, Answer, Idle
  <2> QED
    BY <1>2, <2>1, <2>2, <2>3, <2>4, <2>5, <2>6, <2>7, <2>8 DEF CallStep, Check
<1>3. ASSUME NEW v \in Workers, OperationEnds(v)
      PROVE  /\ call' = call
             /\ \A x \in Workers \ {v} : op'[x] = op[x]
             /\ op[v] = "running" /\ op'[v] \in {"done", "failed"}
  BY <1>0, <1>3 DEF OperationEnds, OperationWorks, OperationFails
<1>4. CASE \E v \in Workers, u \in Admins, a \in Actions : Press(v, u, a)
  <2>1. PICK v \in Workers, u \in Admins, a \in Actions : Press(v, u, a)
    BY <1>4
  <2>2. v # w => call'[w] = call[w] /\ op'[w] = op[w]
    BY <2>1, <1>1
  <2>3. v = w => /\ call[w].phase = "idle" /\ op'[w] = "none"
                 /\ call'[w].phase \in {"idle", "granted"}
    BY <2>1, <1>1
  <2> QED
    BY <2>2, <2>3, <1>2, <1>3 DEF Serve
<1>5. CASE \E v \in Workers : CallStep(v)
  <2>1. PICK v \in Workers : CallStep(v)
    BY <1>5
  <2>2. v # w => call'[w] = call[w] /\ op'[w] = op[w]
    BY <2>1, <1>2
  <2> QED
    BY <2>1, <2>2, <1>2, <1>3 DEF Serve
<1>6. CASE \E v \in Workers : OperationEnds(v)
  BY <1>6, <1>2, <1>3 DEF Serve
<1>7. CASE UNCHANGED <<call, op>>
  BY <1>7, <1>2, <1>3 DEF Serve
<1> QED
  BY <1>4, <1>5, <1>6, <1>7 DEF Next, LogIn, Block, Background, Elsewhere, StatusChanges, vars, opVars

LEMMA PhasesNext == CallInv /\ PhasesInv /\ [Next]_vars => PhasesInv'
<1> SUFFICES ASSUME CallInv, PhasesInv, [Next]_vars, NEW w \in Workers
             PROVE  call'[w].phase \in {"idle", "granted", "authorized", "admitted", "permitted",
                                        "waiting", "late"}
  BY DEF PhasesInv
<1> QED
  BY StepOfACall DEF PhasesInv

LEMMA CallsAdvance == CallInv /\ PhasesInv /\ [Next]_vars => [Answering]_vars
<1> SUFFICES ASSUME CallInv, PhasesInv, [Next]_vars, NEW w \in Workers, call[w].phase # "idle"
             PROVE  /\ CallLeft(w)' <= CallLeft(w)
                    /\ Serve(w) => CallLeft(w)' < CallLeft(w)
  BY DEF Answering
<1>1. /\ call[w].phase \in {"granted", "authorized", "admitted", "permitted"} => op[w] = "none"
      /\ op[w] = "running" => call[w].phase \in {"waiting", "late"}
  BY DEF CallInv
<1>2. CallLeft(w) \in Nat
  BY DEF CallLeft
<1>3. CASE call'[w] = call[w] /\ op'[w] = op[w] /\ ~Serve(w)
  BY <1>2, <1>3 DEF CallLeft
<1>4. CASE ~(call'[w] = call[w] /\ op'[w] = op[w] /\ ~Serve(w))
  <2>1. CallLeft(w)' < CallLeft(w)
    BY <1>1, <1>4, StepOfACall DEF CallLeft
  <2>2. CallLeft(w)' \in Nat
    BY DEF CallLeft
  <2> QED
    BY <2>1, <2>2, <1>2
<1> QED
  BY <1>3, <1>4

\* The safety of "every press is answered": a call has seven steps at most,
\* the end of its operation among them; each brings it nearer its answer, no
\* other call, session or container takes it back, and an answered call has
\* left nothing running, a late one included (_run_with_timeout).
THEOREM CallsRunOut == Spec => []AnsweredWhole /\ [][Answering]_vars
<1>1. Init => CallInv /\ PhasesInv
  BY CallInit DEF Init, PhasesInv, Idle
<1>2. CallInv /\ PhasesInv => AnsweredWhole
  <2> SUFFICES ASSUME CallInv, PhasesInv, NEW w \in Workers
               PROVE  CallLeft(w) \in 0..7 /\ (call[w].phase = "idle" <=> CallLeft(w) = 0)
    BY DEF AnsweredWhole
  <2>1. op[w] = "running" => call[w].phase \in {"waiting", "late"}
    BY DEF CallInv
  <2> QED
    BY <2>1 DEF PhasesInv, CallLeft
<1> QED
  BY <1>1, <1>2, CallNext, PhasesNext, CallsAdvance, PTL DEF Spec
----------------------------------------------------------------------------
(* The interval between two operations of a user.                           *)

\* Operations that other users were admitted to since.
Since(times, u) == {v \in Admins \ {u} : times[v] >= times[u]}

\* What a table of times has of what was admitted: a user it does not hold
\* was never admitted, or long ago, or its room went to others since.
TableKeeps(table, times, time) ==
    /\ DOMAIN table \subseteq Admins
    /\ \A u \in DOMAIN table : table[u] = times[u] /\ times[u] \in Nat
    /\ \A u \in Admins : times[u] <= time
    /\ \A u \in Admins \ DOMAIN table :
         \/ times[u] = None
         \/ time - times[u] > RateTTL
         \/ Cardinality(Since(times, u)) >= MaxRateUsers

RateInv ==
    /\ now \in Nat
    /\ admitted \in [Actions -> [Admins -> Nat \cup {-1}]]
    /\ DOMAIN lastOp = Actions
    /\ \A a \in Actions : TableKeeps(lastOp[a], admitted[a], now)
    /\ \A w \in Workers : call[w].phase # "idle" =>
         call[w].user \in Admins /\ call[w].action \in Actions

LEMMA RateTypes ==
    /\ MinInterval \in Nat /\ RateTTL \in Nat /\ MaxRateUsers \in Nat
    /\ MinInterval <= RateTTL
    /\ IsFiniteSet(Admins)
BY FS_Subset, SessionConstants, OperationConstants

LEMMA SinceFinite ==
  ASSUME NEW times, NEW u
  PROVE  IsFiniteSet(Since(times, u)) /\ Cardinality(Since(times, u)) \in Nat
<1>1. Since(times, u) \subseteq Admins
  BY DEF Since
<1> QED
  BY <1>1, RateTypes, FS_Subset, FS_CardinalityType

\* Trimming drops a user only when the entry is stale or the room is taken by
\* users that came later.
LEMMA TrimmingKeeps ==
  ASSUME NEW table, NEW times \in [Admins -> Nat \cup {-1}], now \in Nat,
         TableKeeps(table, times, now), NEW kept \in Trimmed(table)
  PROVE  kept \subseteq DOMAIN table /\ TableKeeps([v \in kept |-> table[v]], times, now)
<1> DEFINE fresh == {u \in DOMAIN table : table[u] >= now - RateTTL}
<1>1. DOMAIN table \subseteq Admins /\ IsFiniteSet(DOMAIN table)
  BY RateTypes, FS_Subset DEF TableKeeps
<1>2. CASE Cardinality(DOMAIN table) <= MaxRateUsers
  <2>1. kept = DOMAIN table
    BY <1>2 DEF Trimmed
  <2> QED
    BY <2>1 DEF TableKeeps
<1>3. CASE ~(Cardinality(DOMAIN table) <= MaxRateUsers)
  <2>1. /\ kept \subseteq fresh
        /\ Cardinality(kept) = IF Cardinality(fresh) < MaxRateUsers
                                 THEN Cardinality(fresh) ELSE MaxRateUsers
        /\ \A u \in kept, v \in fresh \ kept : table[v] <= table[u]
    BY <1>3 DEF Trimmed
  <2>2. fresh \subseteq DOMAIN table /\ kept \subseteq DOMAIN table
    BY <2>1
  <2>3. IsFiniteSet(fresh) /\ Cardinality(fresh) \in Nat
    BY <1>1, FS_Subset, FS_CardinalityType
  <2>4. ASSUME NEW u \in Admins \ kept
        PROVE  \/ times[u] = None
               \/ now - times[u] > RateTTL
               \/ Cardinality(Since(times, u)) >= MaxRateUsers
    <3>1. CASE u \notin DOMAIN table
      BY <3>1 DEF TableKeeps
    <3>2. CASE u \in DOMAIN table /\ u \notin fresh
      <4>1. table[u] = times[u] /\ times[u] \in Nat /\ ~(table[u] >= now - RateTTL)
        BY <3>2 DEF TableKeeps
      <4> QED
        BY <4>1, RateTypes
    <3>3. CASE u \in fresh
      <4>1. Cardinality(kept) = MaxRateUsers
        <5>1. SUFFICES ASSUME Cardinality(kept) = Cardinality(fresh) PROVE FALSE
          BY <2>1
        <5>2. kept = fresh
          BY <2>1, <2>3, <5>1, FS_Subset
        <5> QED
          BY <2>4, <3>3, <5>2
      <4>2. ASSUME NEW v \in kept PROVE v \in Since(times, u)
        <5>1. table[u] <= table[v] /\ v # u
          BY <2>1, <2>4, <3>3
        <5>2. table[u] = times[u] /\ table[v] = times[v] /\ v \in Admins
              /\ times[u] \in Nat /\ times[v] \in Nat
          BY <1>1, <2>2, <3>3 DEF TableKeeps
        <5> QED
          BY <5>1, <5>2 DEF Since
      <4>3. Cardinality(kept) <= Cardinality(Since(times, u))
        BY <4>2, SinceFinite, FS_Subset
      <4> QED
        BY <4>1, <4>3
    <3> QED
      BY <3>1, <3>2, <3>3
  <2>5. DOMAIN [v \in kept |-> table[v]] = kept
    OBVIOUS
  <2>6. \A u \in kept : /\ [v \in kept |-> table[v]][u] = times[u]
                        /\ times[u] \in Nat
    BY <2>2 DEF TableKeeps
  <2> QED
    BY <1>1, <2>2, <2>4, <2>5, <2>6 DEF TableKeeps
<1> QED
  BY <1>2, <1>3

\* A user that is let in is entered with the time; everyone else has one more
\* that came since.
LEMMA RecordingKeeps ==
  ASSUME NEW table, NEW times \in [Admins -> Nat \cup {-1}], now \in Nat, NEW kept,
         kept \subseteq DOMAIN table, NEW u \in Admins,
         TableKeeps([v \in kept |-> table[v]], times, now)
  PROVE  TableKeeps(Recorded(table, kept, u), [times EXCEPT ![u] = now], now)
<1> DEFINE new == Recorded(table, kept, u)
           then == [times EXCEPT ![u] = now]
           old == [v \in kept |-> table[v]]
<1>1. /\ DOMAIN new = kept \cup {u} /\ new[u] = now
      /\ \A v \in kept \ {u} : new[v] = table[v]
  BY DEF Recorded
<1>2. /\ then \in [Admins -> Nat \cup {-1}] /\ then[u] = now
      /\ \A v \in Admins \ {u} : then[v] = times[v]
  OBVIOUS
<1>3. /\ kept \subseteq Admins
      /\ \A v \in kept : table[v] = times[v] /\ times[v] \in Nat
      /\ \A v \in Admins : times[v] <= now
      /\ \A v \in Admins \ kept :
           \/ times[v] = None
           \/ now - times[v] > RateTTL
           \/ Cardinality(Since(times, v)) >= MaxRateUsers
  <2>1. DOMAIN old = kept /\ \A v \in kept : old[v] = table[v]
    OBVIOUS
  <2> HIDE DEF old
  <2> QED
    BY <2>1 DEF TableKeeps, old
<1> HIDE DEF new, then, old
<1>4. ASSUME NEW v \in Admins \ DOMAIN new
      PROVE  \/ then[v] = None
             \/ now - then[v] > RateTTL
             \/ Cardinality(Since(then, v)) >= MaxRateUsers
  <2>1. v \in Admins \ kept /\ v # u /\ then[v] = times[v]
    BY <1>1, <1>2, <1>4
  <2>2. Since(times, v) \subseteq Since(then, v)
    <3> SUFFICES ASSUME NEW x \in Since(times, v) PROVE x \in Since(then, v)
      OBVIOUS
    <3>1. x \in Admins \ {v} /\ times[x] >= times[v]
      BY DEF Since
    <3>2. then[x] >= then[v]
      BY <1>2, <1>3, <2>1, <3>1
    <3> QED
      BY <3>1, <3>2 DEF Since
  <2>3. Cardinality(Since(times, v)) <= Cardinality(Since(then, v))
    BY <2>2, SinceFinite, FS_Subset
  <2> QED
    BY <1>3, <2>1, <2>3, SinceFinite, RateTypes
<1>5. \A v \in DOMAIN new : new[v] = then[v] /\ then[v] \in Nat
  BY <1>1, <1>2, <1>3
<1>6. \A v \in Admins : then[v] <= now
  BY <1>2, <1>3
<1>7. TableKeeps(new, then, now)
  BY <1>1, <1>3, <1>4, <1>5, <1>6 DEF TableKeeps
<1> QED
  BY <1>7 DEF new, then

LEMMA WaitingKeeps ==
  ASSUME NEW table, NEW times \in [Admins -> Nat \cup {-1}], TableKeeps(table, times, now),
         now \in Nat, now' \in Nat, now' >= now
  PROVE  TableKeeps(table, times, now')
<1>1. \A u \in Admins : times[u] <= now'
  BY DEF TableKeeps
<1>2. \A u \in Admins : now - times[u] > RateTTL => now' - times[u] > RateTTL
  BY RateTypes
<1> QED
  BY <1>1, <1>2 DEF TableKeeps

\* Only a tick moves the clock, and only Admit the tables.
LEMMA ClockAdvances ==
  ASSUME now \in Nat, [Next]_vars
  PROVE  now' \in Nat /\ now' >= now
<1>1. CASE Tick
  BY <1>1 DEF Tick
<1>2. CASE now' = now
  BY <1>2
<1> QED
  BY <1>1, <1>2, Zenon
     DEF Next, CallStep, Check, OperationEnds, LogIn, Block, Background, Press, Authorize,
         Admit, Permit, Begin, NotFound, OperationWorks, OperationFails, TimeOut, Look,
         LeavePool, StatusChanges, ClearExpiredSessions, DropExpired, SetBlockedTime,
         IsAuthenticated, Store, vars, sessionVars

LEMMA OnlyAdmitRecords ==
  ASSUME CallInv, [Next]_vars
  PROVE  \/ UNCHANGED <<lastOp, admitted>>
         \/ \E w \in Workers : Admit(w)
BY DEF Next, CallStep, Check, OperationEnds, LogIn, Block, Background, Elsewhere, opVars,
       Press, Authorize, Permit, Begin, NotFound, OperationWorks, OperationFails,
       TimeOut, Look, LeavePool, StatusChanges, vars
\* Who a call is for, once it is under way.
CallersKnown ==
    \A w \in Workers : call[w].phase # "idle" =>
      call[w].user \in Admins /\ call[w].action \in Actions

LEMMA CallersStayKnown ==
  ASSUME CallInv, CallersKnown, [Next]_vars
  PROVE  CallersKnown'
<1> USE DEF CallersKnown, CallInv
<1>1. CASE UNCHANGED opVars
  BY <1>1 DEF opVars
<1>2. CASE StatusChanges
  BY <1>2 DEF StatusChanges
<1>3. ASSUME NEW w \in Workers, NEW u \in Admins, NEW a \in Actions, Press(w, u, a)
      PROVE  CallersKnown'
  BY <1>3 DEF Press, Idle
<1>4. ASSUME NEW w \in Workers, Authorize(w)
      PROVE  CallersKnown'
  BY <1>4 DEF Authorize, Goto, Answer, Idle
<1>5. ASSUME NEW w \in Workers, Admit(w)
      PROVE  CallersKnown'
  <2>1. call[w].phase = "authorized" /\ (Answer(w, "refused") \/ Goto(w, "admitted"))
    BY <1>5 DEF Admit
  <2> QED
    BY <2>1 DEF Goto, Answer, Idle
<1>6. ASSUME NEW w \in Workers, Permit(w)
      PROVE  CallersKnown'
  BY <1>6 DEF Permit, Answer, Idle
<1>7. ASSUME NEW w \in Workers, Begin(w) \/ NotFound(w)
      PROVE  CallersKnown'
  BY <1>7 DEF Begin, NotFound, Answer, Idle
<1>8. ASSUME NEW w \in Workers, OperationEnds(w)
      PROVE  CallersKnown'
  BY <1>8 DEF OperationEnds, OperationWorks, OperationFails
<1>9. ASSUME NEW w \in Workers, TimeOut(w)
      PROVE  CallersKnown'
  BY <1>9 DEF TimeOut, Goto
<1>10. ASSUME NEW w \in Workers, Look(w) \/ LeavePool(w)
       PROVE  CallersKnown'
  BY <1>10 DEF Look, LeavePool, Answer, Idle
<1>11. CASE UNCHANGED vars
  BY <1>1, <1>11 DEF vars
<1> QED
  BY <1>1, <1>2, <1>3, <1>4, <1>5, <1>6, <1>7, <1>8, <1>9, <1>10, <1>11
     DEF Next, CallStep, Check, LogIn, Block, Background, Elsewhere

LEMMA RateInit == Init => RateInv
<1> SUFFICES ASSUME Init PROVE RateInv
  OBVIOUS
<1>1. now = 0 /\ CallersKnown
  BY DEF Init, SessionInit, CallersKnown, Idle
<1>2. /\ admitted = [a \in Actions |-> [u \in Admins |-> -1]]
      /\ lastOp = [a \in Actions |-> [u \in {} |-> 0]]
  BY DEF Init, None
<1>3. admitted \in [Actions -> [Admins -> Nat \cup {-1}]]
  BY <1>2
<1>4. ASSUME NEW a \in Actions PROVE TableKeeps(lastOp[a], admitted[a], now)
  <2>1. DOMAIN lastOp[a] = {} /\ \A u \in Admins : admitted[a][u] = -1
    BY <1>2
  <2> QED
    BY <1>1, <2>1 DEF TableKeeps, None
<1> QED
  BY <1>1, <1>2, <1>3, <1>4 DEF RateInv, CallersKnown

\* What Admit does to the table and to the history of an action.
LEMMA AdmitKeeps ==
  ASSUME CallInv, RateInv, NEW w \in Workers, Admit(w)
  PROVE  /\ admitted' \in [Actions -> [Admins -> Nat \cup {-1}]]
         /\ DOMAIN lastOp' = Actions
         /\ \A a \in Actions : TableKeeps(lastOp'[a], admitted'[a], now)
<1> DEFINE u == call[w].user
           action == call[w].action
           table == lastOp[action]
           times == admitted[action]
<1>1. u \in Admins /\ action \in Actions /\ call[w].phase = "authorized"
  BY DEF Admit, RateInv
<1>2. PICK kept \in Trimmed(table) :
         \/ lastOp' = [lastOp EXCEPT ![action] = [v \in kept |-> table[v]]] /\ UNCHANGED admitted
         \/ /\ lastOp' = [lastOp EXCEPT ![action] = Recorded(table, kept, u)]
            /\ admitted' = [admitted EXCEPT ![action][u] = now]
  BY DEF Admit
<1>3. /\ times \in [Admins -> Nat \cup {-1}] /\ now \in Nat /\ TableKeeps(table, times, now)
      /\ DOMAIN lastOp = Actions /\ admitted \in [Actions -> [Admins -> Nat \cup {-1}]]
      /\ \A a \in Actions : TableKeeps(lastOp[a], admitted[a], now)
  BY <1>1 DEF RateInv
<1> HIDE DEF u, action, table, times
<1>4. /\ kept \subseteq DOMAIN table
      /\ TableKeeps([v \in kept |-> table[v]], times, now)
  BY <1>3, TrimmingKeeps
<1>5. TableKeeps(Recorded(table, kept, u), [times EXCEPT ![u] = now], now)
  BY <1>1, <1>3, <1>4, RecordingKeeps
<1>6. CASE /\ lastOp' = [lastOp EXCEPT ![action] = [v \in kept |-> table[v]]]
           /\ UNCHANGED admitted
  <2>1. /\ DOMAIN lastOp' = Actions /\ lastOp'[action] = [v \in kept |-> table[v]]
        /\ \A a \in Actions \ {action} : lastOp'[a] = lastOp[a]
    BY <1>1, <1>3, <1>6
  <2>2. TableKeeps(lastOp'[action], admitted'[action], now)
    BY <1>4, <1>6, <2>1 DEF times
  <2> QED
    BY <1>3, <1>6, <2>1, <2>2
<1>7. CASE /\ lastOp' = [lastOp EXCEPT ![action] = Recorded(table, kept, u)]
           /\ admitted' = [admitted EXCEPT ![action][u] = now]
  <2>1. /\ DOMAIN lastOp' = Actions /\ lastOp'[action] = Recorded(table, kept, u)
        /\ \A a \in Actions \ {action} : lastOp'[a] = lastOp[a]
    BY <1>1, <1>3, <1>7
  <2>2. /\ admitted'[action] = [times EXCEPT ![u] = now]
        /\ \A a \in Actions \ {action} : admitted'[a] = admitted[a]
    BY <1>1, <1>3, <1>7 DEF times
  <2>3. [times EXCEPT ![u] = now] \in [Admins -> Nat \cup {-1}]
    BY <1>3
  <2>4. admitted' = [admitted EXCEPT ![action] = [times EXCEPT ![u] = now]]
    BY <1>7 DEF times
  <2>5. admitted' \in [Actions -> [Admins -> Nat \cup {-1}]]
    BY <1>3, <2>3, <2>4
  <2> QED
    BY <1>3, <1>5, <2>1, <2>2, <2>5
<1> QED
  BY <1>2, <1>6, <1>7

LEMMA RateNext == CallInv /\ RateInv /\ [Next]_vars => RateInv'
<1> SUFFICES ASSUME CallInv, RateInv, [Next]_vars PROVE RateInv'
  OBVIOUS
<1>1. now \in Nat /\ now' \in Nat /\ now' >= now
  BY ClockAdvances DEF RateInv
<1>2. CallersKnown'
  BY CallersStayKnown DEF RateInv, CallersKnown
<1>3. /\ admitted' \in [Actions -> [Admins -> Nat \cup {-1}]]
      /\ DOMAIN lastOp' = Actions
      /\ \A a \in Actions : TableKeeps(lastOp'[a], admitted'[a], now)
  <2>1. CASE UNCHANGED <<lastOp, admitted>>
    BY <2>1 DEF RateInv
  <2>2. CASE \E w \in Workers : Admit(w)
    BY <2>2, AdmitKeeps
  <2> QED
    BY <2>1, <2>2, OnlyAdmitRecords
<1>4. \A a \in Actions : TableKeeps(lastOp'[a], admitted'[a], now')
  BY <1>1, <1>3, WaitingKeeps
<1> QED
  BY <1>1, <1>2, <1>3, <1>4 DEF RateInv, CallersKnown

\* The step from authorized to admitted is an Admit of that worker which the
\* table did not refuse.
LEMMA AdmittedByAdmit ==
  ASSUME CallInv, [Next]_vars, NEW w \in Workers,
         call[w].phase = "authorized", call'[w].phase = "admitted"
  PROVE  Admit(w)
<1>2. call' # call
  BY DEF CallInv
<1> USE DEF CallInv
<1>3. ASSUME NEW x \in Workers, NEW u \in Admins, NEW a \in Actions, Press(x, u, a)
      PROVE  FALSE
  BY <1>3 DEF Press, Idle
<1>4. ASSUME NEW x \in Workers, Authorize(x) \/ Permit(x)
      PROVE  FALSE
  BY <1>4 DEF Authorize, Permit, Goto, Answer, Idle
<1>5. ASSUME NEW x \in Workers, Admit(x), x # w
      PROVE  FALSE
  <2>1. Answer(x, "refused") \/ Goto(x, "admitted")
    BY <1>5 DEF Admit
  <2> QED
    BY <1>5, <2>1 DEF Answer, Goto, Idle
<1>6. ASSUME NEW x \in Workers, Begin(x) \/ NotFound(x) \/ TimeOut(x) \/ Look(x) \/ LeavePool(x)
      PROVE  FALSE
  BY <1>6 DEF Begin, NotFound, TimeOut, Look, LeavePool, Goto, Answer, Idle
<1>7. ASSUME NEW x \in Workers, OperationEnds(x) PROVE FALSE
  BY <1>2, <1>7 DEF OperationEnds, OperationWorks, OperationFails
<1>8. CASE UNCHANGED opVars
  BY <1>2, <1>8 DEF opVars
<1> QED
  BY <1>2, <1>3, <1>4, <1>5, <1>6, <1>7, <1>8
     DEF Next, CallStep, Check, LogIn, Block, Background, Elsewhere, StatusChanges, vars

LEMMA AdmitSpaced ==
  ASSUME CallInv, RateInv, NEW w \in Workers, Admit(w), call'[w].phase = "admitted"
  PROVE  LET u == call[w].user
             times == admitted[call[w].action]
         IN  \/ times[u] = None
             \/ now - times[u] >= MinInterval
             \/ Cardinality({v \in Admins \ {u} : times[v] >= times[u]}) >= MaxRateUsers
<1> DEFINE u == call[w].user
           action == call[w].action
           table == lastOp[action]
           times == admitted[action]
<1>1. u \in Admins /\ action \in Actions /\ call[w].phase = "authorized"
  BY DEF Admit, RateInv
<1>2. PICK kept \in Trimmed(table) : ~TooSoon(table, kept, u)
  <2>1. Answer(w, "refused") => call'[w].phase = "idle"
    BY DEF Answer, Idle, CallInv
  <2> QED
    BY <2>1 DEF Admit
<1>3. /\ times \in [Admins -> Nat \cup {-1}] /\ now \in Nat /\ TableKeeps(table, times, now)
  BY <1>1 DEF RateInv
<1> HIDE DEF u, action, table, times
<1>4. /\ kept \subseteq DOMAIN table
      /\ TableKeeps([v \in kept |-> table[v]], times, now)
  BY <1>3, TrimmingKeeps
<1>5. DOMAIN [v \in kept |-> table[v]] = kept
  OBVIOUS
<1>6. CASE u \in kept
  <2>1. table[u] = times[u]
    BY <1>3, <1>4, <1>6 DEF TableKeeps
  <2>2. ~(now - table[u] < MinInterval) /\ times[u] \in Nat
    BY <1>2, <1>3, <1>4, <1>6 DEF TooSoon, TableKeeps
  <2>3. now - times[u] >= MinInterval
    BY <1>3, <2>1, <2>2, RateTypes
  <2> QED
    BY <2>3 DEF u, action, times
<1>7. CASE u \notin kept
  <2>1. \/ times[u] = None
        \/ now - times[u] > RateTTL
        \/ Cardinality(Since(times, u)) >= MaxRateUsers
    BY <1>1, <1>4, <1>5, <1>7 DEF TableKeeps
  <2>2. now - times[u] > RateTTL => now - times[u] >= MinInterval
    BY <1>1, <1>3, RateTypes
  <2>3. \/ times[u] = None
        \/ now - times[u] >= MinInterval
        \/ Cardinality({v \in Admins \ {u} : times[v] >= times[u]}) >= MaxRateUsers
    BY <2>1, <2>2 DEF Since
  <2> QED
    BY <2>3 DEF u, action, times
<1> QED
  BY <1>6, <1>7

\* Two operations of one user and one kind are an interval apart, unless so
\* many others came in since that the table had no room for the user.
THEOREM OperationsAreSpaced == Spec => RateSpaced
<1> DEFINE Spaced(w) ==
      LET u == call[w].user
          times == admitted[call[w].action]
      IN  call[w].phase = "authorized" /\ call'[w].phase = "admitted" =>
            \/ times[u] = None
            \/ now - times[u] >= MinInterval
            \/ Cardinality({v \in Admins \ {u} : times[v] >= times[u]}) >= MaxRateUsers
<1>1. ASSUME CallInv, RateInv, [Next]_vars PROVE \A w \in Workers : Spaced(w)
  BY <1>1, AdmittedByAdmit, AdmitSpaced
<1>2. CallInv /\ RateInv /\ [Next]_vars => [\A w \in Workers : Spaced(w)]_vars
  BY <1>1
<1> QED
  BY <1>2, CallInit, CallNext, RateInit, RateNext, PTL DEF Spec, RateSpaced
----------------------------------------------------------------------------
(* The behaviours of the composition, part by part.                         *)

\* Whatever part runs, each part takes a step of its own or stands still.
LEMMA PartsStep ==
  ASSUME [OperationStep \/ ImageStep \/ MessageStep \/ ClientStep]_allVars
  PROVE  /\ [Next]_vars
         /\ [Images!UpdatesNext]_imageVars
         /\ [Messages!DeletionNext]_messageVars
         /\ [Adapter!AdapterNext]_clientVars
BY DEF OperationStep, ImageStep, MessageStep, ClientStep, allVars

LEMMA PartsInit ==
  MCInit => Init /\ Images!UpdatesInit /\ Messages!DeletionInit /\ Adapter!AdapterInit
BY DEF MCInit

----------------------------------------------------------------------------
(* The Docker client of a thread.                                           *)

ClientPlaces == {"away", "first look", "second look", "creating", "testing", "using"}

ClientTypeOK ==
    /\ mode \in [strict : BOOLEAN, disabled : BOOLEAN]
    /\ client \in {"none", "unavailable", "real"}
    /\ checked \in 0 .. HealthInterval + 1
    /\ visit \in [at : ClientPlaces, test : Nat]
    /\ daemonUp \in BOOLEAN /\ downSeen \in BOOLEAN
    /\ proven \in [age : 0 .. HealthInterval + 1, failed : BOOLEAN]

\* A client that is not real is never taken for checked, a real one was
\* answered no longer ago than its check, and a visit that finds Docker gone
\* has seen it go.
ClientInv ==
    /\ client # "real" => checked = HealthInterval + 1
    /\ client = "real" => /\ ~mode.disabled /\ proven.age <= checked
                          /\ checked <= HealthInterval => ~proven.failed
    /\ visit.at \notin {"away", "using"} => ~mode.disabled
    /\ visit.at \in {"creating", "testing"} => client = "none"
    /\ visit.at # "away" /\ ~daemonUp => downSeen
    /\ visit.at = "using" =>
         /\ client = "unavailable" => mode.disabled \/ downSeen
         /\ client = "real" => checked <= HealthInterval

LEMMA AdapterTypes == HealthInterval \in Nat /\ TestRetries \in Nat \ {0}
BY ServiceConstants DEF Adapter!AdapterConstants

LEMMA ClientInit == Adapter!AdapterInit => ClientTypeOK /\ ClientInv
<1> SUFFICES ASSUME Adapter!AdapterInit PROVE ClientTypeOK /\ ClientInv
  OBVIOUS
<1>1. mode \in [strict : BOOLEAN, disabled : BOOLEAN]
  BY DEF Adapter!AdapterInit
<1>2. /\ client = "none" /\ checked = HealthInterval + 1
      /\ visit = [at |-> "away", test |-> 0]
      /\ daemonUp \in BOOLEAN /\ downSeen \in BOOLEAN
      /\ proven = [age |-> HealthInterval + 1, failed |-> FALSE]
  BY DEF Adapter!AdapterInit, Adapter!Long, Adapter!Away
<1> QED
  BY <1>1, <1>2, AdapterTypes DEF ClientInv, ClientTypeOK, ClientPlaces

LEMMA ClientNext ==
  ClientTypeOK /\ ClientInv /\ [Adapter!AdapterNext]_clientVars => (ClientTypeOK /\ ClientInv)'
<1> SUFFICES ASSUME ClientTypeOK, ClientInv, [Adapter!AdapterNext]_clientVars
             PROVE  ClientTypeOK' /\ ClientInv'
  OBVIOUS
<1> DEFINE Long == HealthInterval + 1
           Goes(p) == visit' = [visit EXCEPT !.at = p]
<1>0. /\ HealthInterval \in Nat /\ TestRetries \in Nat \ {0}
      /\ visit \in [at : ClientPlaces, test : Nat]
      /\ checked \in 0 .. Long /\ proven.age \in 0 .. Long
      /\ proven \in [age : 0 .. Long, failed : BOOLEAN]
  BY AdapterTypes DEF ClientTypeOK
<1>a. \A p \in ClientPlaces :
        Goes(p) => visit' \in [at : ClientPlaces, test : Nat] /\ visit'.at = p
  BY <1>0
<1>b. /\ "using" \in ClientPlaces /\ "second look" \in ClientPlaces
      /\ "creating" \in ClientPlaces /\ "first look" \in ClientPlaces
      /\ "away" \in ClientPlaces /\ "testing" \in ClientPlaces
  BY DEF ClientPlaces
<1>c. /\ 0 \in 0 .. Long /\ Long \in 0 .. Long
      /\ [age |-> 0, failed |-> FALSE] \in [age : 0 .. Long, failed : BOOLEAN]
      /\ [proven EXCEPT !.failed = TRUE] \in [age : 0 .. Long, failed : BOOLEAN]
  <2>1. 0 \in 0 .. Long /\ Long \in 0 .. Long
    BY <1>0
  <2> HIDE DEF Long
  <2> QED
    BY <1>0, <2>1
<1>d. \A p \in ClientPlaces, n \in Nat :
        [at |-> p, test |-> n] \in [at : ClientPlaces, test : Nat]
  OBVIOUS
<1>1. CASE Adapter!Enter
  <2>1. /\ visit.at = "away" /\ downSeen' = ~daemonUp
        /\ UNCHANGED <<mode, checked, daemonUp, proven>>
        /\ \/ /\ mode.disabled /\ Goes("using")
              /\ client' = IF client = "none" THEN "unavailable" ELSE client
           \/ ~mode.disabled /\ Goes("first look") /\ UNCHANGED client
    BY <1>1 DEF Adapter!Enter, Adapter!At
  <2>2. ClientTypeOK'
    BY <1>a, <1>b, <2>1 DEF ClientTypeOK
  <2>3. ClientInv'
    BY <1>0, <1>a, <1>b, <2>1 DEF ClientInv, ClientTypeOK
  <2> QED
    BY <2>2, <2>3
<1>2. CASE Adapter!Look
  <2>1. /\ visit.at \in {"first look", "second look"}
        /\ UNCHANGED <<mode, daemonUp, downSeen>>
        /\ \/ /\ client # "none" /\ checked < Long /\ Goes("using")
              /\ UNCHANGED <<client, checked, proven>>
           \/ /\ client = "real" /\ Goes("using") /\ checked' = 0
              /\ proven' = [age |-> 0, failed |-> FALSE] /\ UNCHANGED client
           \/ /\ Goes("second look") /\ UNCHANGED <<client, checked, proven>>
           \/ /\ client = "none" \/ checked = Long
              /\ Goes("creating") /\ client' = "none" /\ UNCHANGED <<checked, proven>>
    BY <1>2, Zenon DEF Adapter!Look, Adapter!At, Adapter!Answered, Adapter!Long
  <2>2. ClientTypeOK'
    BY <1>a, <1>b, <1>c, <2>1 DEF ClientTypeOK
  <2>3. ClientInv'
    <3>1. CASE /\ client # "none" /\ checked < Long /\ Goes("using")
               /\ UNCHANGED <<client, checked, proven>>
      <4>1. visit'.at = "using"
        BY <1>a, <1>b, <3>1
      <4>2. checked <= HealthInterval /\ checked # Long
        BY <1>0, <3>1
      <4>3. client = "real"
        BY <3>1, <4>2 DEF ClientInv
      <4> QED
        BY <2>1, <3>1, <4>1, <4>2, <4>3 DEF ClientInv
    <3>2. CASE /\ client = "real" /\ Goes("using") /\ checked' = 0
               /\ proven' = [age |-> 0, failed |-> FALSE] /\ UNCHANGED client
      <4>1. visit'.at = "using"
        BY <1>a, <1>b, <3>2
      <4>2. ~proven'.failed /\ proven'.age <= checked' /\ checked' <= HealthInterval
        BY <1>0, <3>2
      <4> QED
        BY <2>1, <3>2, <4>1, <4>2 DEF ClientInv
    <3>3. CASE Goes("second look") /\ UNCHANGED <<client, checked, proven>>
      <4>1. visit'.at = "second look"
        BY <1>a, <1>b, <3>3
      <4> QED
        BY <2>1, <3>3, <4>1 DEF ClientInv
    <3>4. CASE /\ client = "none" \/ checked = Long
               /\ Goes("creating") /\ client' = "none" /\ UNCHANGED <<checked, proven>>
      <4>1. visit'.at = "creating"
        BY <1>a, <1>b, <3>4
      <4> QED
        BY <2>1, <3>4, <4>1 DEF ClientInv
    <3> QED
      BY <2>1, <3>1, <3>2, <3>3, <3>4
  <2> QED
    BY <2>2, <2>3
<1>3. CASE Adapter!Create \/ Adapter!Test
  <2>1. /\ visit.at \in {"creating", "testing"}
        /\ UNCHANGED <<mode, daemonUp, downSeen>>
        /\ \/ /\ \E n \in Nat : visit' = [at |-> "testing", test |-> n]
              /\ UNCHANGED <<client, checked, proven>>
           \/ /\ client' = "real" /\ checked' = 0 /\ proven' = [age |-> 0, failed |-> FALSE]
              /\ visit' = [at |-> "using", test |-> 0]
              /\ daemonUp
           \/ /\ client' \in {"none", "unavailable"} /\ UNCHANGED <<checked, proven>>
              /\ visit' \in {[at |-> "using", test |-> 0], [at |-> "away", test |-> 0]}
              /\ client' = "none" => visit' = [at |-> "away", test |-> 0]
              /\ ~daemonUp
    <3>1. CASE Adapter!Create
      BY <3>1 DEF Adapter!Create, Adapter!Fail, Adapter!Away
    <3>2. CASE Adapter!Test /\ visit' = [visit EXCEPT !.test = @ + 1]
      BY <1>0, <3>2 DEF Adapter!Test, Adapter!Fail, Adapter!Away
    <3>3. CASE Adapter!Test /\ ~(visit' = [visit EXCEPT !.test = @ + 1])
      BY <3>3 DEF Adapter!Test, Adapter!Fail, Adapter!Away, Adapter!Answered
    <3> QED
      BY <1>3, <3>1, <3>2, <3>3
  <2>2. ClientTypeOK'
    BY <1>b, <1>c, <1>d, <2>1 DEF ClientTypeOK
  <2>3. ClientInv'
    BY <1>0, <2>1 DEF ClientInv
  <2> QED
    BY <2>2, <2>3
<1>4. CASE Adapter!Use
  <2>1. /\ visit' = [at |-> "away", test |-> 0]
        /\ UNCHANGED <<mode, client, daemonUp, downSeen>>
        /\ \/ UNCHANGED <<checked, proven>>
           \/ checked' = Long /\ proven' = [proven EXCEPT !.failed = TRUE]
    BY <1>4 DEF Adapter!Use, Adapter!Away, Adapter!Long
  <2>2. ClientTypeOK'
    BY <1>b, <1>c, <1>d, <2>1 DEF ClientTypeOK
  <2>3. ClientInv'
    BY <1>0, <2>1 DEF ClientInv
  <2> QED
    BY <2>2, <2>3
<1>5. CASE Adapter!Close
  BY <1>0, <1>5 DEF Adapter!Close, Adapter!Long, ClientInv, ClientTypeOK
<1>6. CASE Adapter!AdapterTick
  BY <1>0, <1>6 DEF Adapter!AdapterTick, Adapter!Long, ClientInv, ClientTypeOK
<1>7. CASE Adapter!DaemonChanges
  BY <1>7 DEF Adapter!DaemonChanges, ClientInv, ClientTypeOK
<1>8. CASE UNCHANGED clientVars
  BY <1>8 DEF clientVars, ClientInv, ClientTypeOK
<1> QED
  BY <1>1, <1>2, <1>3, <1>4, <1>5, <1>6, <1>7, <1>8 DEF Adapter!AdapterNext, clientVars

\* A client that refuses everything is given only if Docker is disabled or
\* did not answer during the call, a real one only if Docker answered lately
\* and since the last failure, for every interval and number of tests.
THEOREM ClientsAreHonest == MCSpec => []ClientIsHonest
<1>1. ClientTypeOK /\ ClientInv => ClientIsHonest
  BY AdapterTypes DEF ClientTypeOK, ClientInv, ClientIsHonest, Adapter!ClientIsHonest
<1> QED
  BY <1>1, ClientInit, ClientNext, PartsInit, PartsStep, PTL DEF MCSpec
----------------------------------------------------------------------------
(* The check for image updates.                                             *)

ReposAreRecords ==
    DOMAIN repo = Repos /\ \A r \in Repos : DOMAIN repo[r] = {"at", "url", "attempt"}

\* While a back-off holds nobody enters, so those that asked during it and
\* those still inside are together what was inside, less the one that was
\* refused.
BackoffInv ==
    /\ ReposAreRecords /\ limited \in BOOLEAN
    /\ IsFiniteSet(late) /\ IsFiniteSet(Images!Inside)
    /\ Cardinality(Images!Inside) <= MaxConcurrent
    /\ limited => Cardinality(late \cup Images!Inside) < MaxConcurrent
    /\ ~limited => late = {}

\* The instance has the library's cardinality under its own name.
LEMMA SameCardinality == \A S : Images!Cardinality(S) = Cardinality(S)
  BY DEF Images!Cardinality, Cardinality

\* What a step leaves inside decides: those that were, or one more when there
\* is no limit.
LEMMA BackoffKept ==
  ASSUME BackoffInv, Images!Inside' \subseteq Images!Inside, limited' \in BOOLEAN,
         late' \subseteq late \cup Images!Inside, limited' => limited, ~limited' => late' = {},
         ReposAreRecords'
  PROVE  BackoffInv'
<1> USE DEF BackoffInv
<1>1. /\ IsFiniteSet(late \cup Images!Inside)
      /\ late' \cup Images!Inside' \subseteq late \cup Images!Inside
  BY FS_Union
<1>2. /\ IsFiniteSet(late') /\ IsFiniteSet(Images!Inside')
      /\ Cardinality(Images!Inside') <= Cardinality(Images!Inside)
      /\ Cardinality(late' \cup Images!Inside') <= Cardinality(late \cup Images!Inside)
  BY <1>1, FS_Subset
<1>3. /\ Cardinality(Images!Inside) \in Nat /\ Cardinality(Images!Inside') \in Nat
      /\ Cardinality(late \cup Images!Inside) \in Nat
      /\ Cardinality(late' \cup Images!Inside') \in Nat
      /\ MaxConcurrent \in Nat
  BY <1>1, <1>2, FS_CardinalityType, FS_Union, ServiceConstants DEF Images!UpdateConstants
<1> QED
  BY <1>2, <1>3

LEMMA RepoChanges ==
  ASSUME ReposAreRecords, NEW r \in Repos, NEW rec, DOMAIN rec = {"at", "url", "attempt"},
         repo' = [repo EXCEPT ![r] = rec]
  PROVE  /\ ReposAreRecords'
         /\ rec.at \in {"queued", "asking", "asleep"} => Images!Inside' = Images!Inside \cup {r}
         /\ rec.at \notin {"queued", "asking", "asleep"} => Images!Inside' = Images!Inside \ {r}
<1>1. DOMAIN repo' = Repos /\ repo'[r] = rec /\ \A q \in Repos \ {r} : repo'[q] = repo[q]
  BY DEF ReposAreRecords
<1>2. ReposAreRecords'
  BY <1>1 DEF ReposAreRecords
<1>3. Images!Inside' = {q \in Repos : repo'[q].at \in {"queued", "asking", "asleep"}}
  BY DEF Images!Inside
<1> QED
  BY <1>1, <1>2, <1>3 DEF Images!Inside

LEMMA UpdateLimits == MaxConcurrent \in Nat /\ MaxConcurrent >= 1
  BY ServiceConstants DEF Images!UpdateConstants

\* A press, like the start, puts nobody inside.
LEMMA BackoffStarts ==
  ASSUME ReposAreRecords', limited' = FALSE, late' = {}, Images!Inside' = {}
  PROVE  BackoffInv'
<1>1. IsFiniteSet({}) /\ Cardinality({}) = 0 /\ {} \cup {} = {}
  BY FS_EmptySet
<1>2. IsFiniteSet(late') /\ IsFiniteSet(Images!Inside') /\ limited' \in BOOLEAN
  BY <1>1
<1>3. Cardinality(Images!Inside') <= MaxConcurrent
  BY <1>1, UpdateLimits
<1> QED
  BY <1>2, <1>3 DEF BackoffInv

LEMMA BackoffInit == Images!UpdatesInit => BackoffInv
<1> SUFFICES ASSUME Images!UpdatesInit PROVE BackoffInv
  OBVIOUS
<1>1. Images!Inside = {} /\ late = {} /\ limited = FALSE
  BY DEF Images!UpdatesInit, Images!Inside, Images!Out
<1>2. IsFiniteSet({}) /\ Cardinality({}) = 0
  BY FS_EmptySet
<1>3. DOMAIN Images!Out = {"at", "url", "attempt"}
  BY DEF Images!Out
<1>4. ReposAreRecords
  BY <1>3 DEF Images!UpdatesInit, ReposAreRecords
<1>5. IsFiniteSet(late) /\ IsFiniteSet(Images!Inside) /\ limited \in BOOLEAN
  BY <1>1, <1>2
<1>6. Cardinality(Images!Inside) <= MaxConcurrent
  BY <1>1, <1>2, UpdateLimits
<1> QED
  BY <1>1, <1>4, <1>5, <1>6 DEF BackoffInv

LEMMA BackoffNext == BackoffInv /\ [Images!UpdatesNext]_imageVars => BackoffInv'
<1> SUFFICES ASSUME BackoffInv, [Images!UpdatesNext]_imageVars PROVE BackoffInv'
  OBVIOUS
<1> DEFINE Same == UNCHANGED <<limited, late>>
<1>a. ReposAreRecords /\ limited \in BOOLEAN /\ (~limited => late = {})
  BY DEF BackoffInv
<1>b. ASSUME NEW r \in Repos, NEW rec, DOMAIN rec = {"at", "url", "attempt"},
             repo' = [repo EXCEPT ![r] = rec],
             rec.at \in {"queued", "asking", "asleep"} => r \in Images!Inside,
             Same \/ (limited' = limited /\ late' = IF limited THEN late \cup {r} ELSE late),
             rec.at = "asking" \/ Same
      PROVE  BackoffInv'
  <2>1. ReposAreRecords' /\ Images!Inside' \subseteq Images!Inside
    BY <1>a, <1>b, RepoChanges
  <2>2. limited' = limited /\ late' \subseteq late \cup Images!Inside /\ (~limited' => late' = {})
    BY <1>a, <1>b
  <2> QED
    BY <1>a, <2>1, <2>2, BackoffKept
<1>c. ASSUME NEW r \in Repos, NEW what, what \notin {"queued", "asking", "asleep"},
             Images!Result(r, what), Same
      PROVE  BackoffInv'
  <2> DEFINE rec == [Images!Out EXCEPT !.at = what]
  <2>1. DOMAIN rec = {"at", "url", "attempt"} /\ rec.at = what
    BY DEF Images!Out
  <2>2. repo' = [repo EXCEPT ![r] = rec]
    BY <1>c DEF Images!Result
  <2> HIDE DEF rec
  <2> QED
    BY <1>b, <1>c, <2>1, <2>2
<1>d. ASSUME NEW r \in Repos, r \in Images!Inside, Images!NextUrl(r), Same PROVE BackoffInv'
  <2>1. CASE Images!LastUrl(r)
    BY <1>c, <1>d, <2>1 DEF Images!NextUrl
  <2>2. CASE ~Images!LastUrl(r)
    <3> DEFINE rec == [at |-> "queued", url |-> 2, attempt |-> 1]
    <3>1. DOMAIN rec = {"at", "url", "attempt"} /\ rec.at = "queued"
      OBVIOUS
    <3>2. repo' = [repo EXCEPT ![r] = rec]
      BY <1>d, <2>2 DEF Images!NextUrl
    <3> HIDE DEF rec
    <3> QED
      BY <1>b, <1>d, <3>1, <3>2
  <2> QED
    BY <2>1, <2>2
<1>1. CASE \E local \in SUBSET Repos : Images!PressCheck(local)
  <2>1. PICK local \in SUBSET Repos : Images!PressCheck(local)
    BY <1>1
  <2>2. \A what : LET rec == [Images!Out EXCEPT !.at = what]
                  IN  DOMAIN rec = {"at", "url", "attempt"} /\ rec.at = what
    BY DEF Images!Out
  <2>3. DOMAIN Images!Out = {"at", "url", "attempt"} /\ Images!Out.at = "none"
    BY DEF Images!Out
  <2>4. /\ repo' = [r \in Repos |-> IF r \in local THEN [Images!Out EXCEPT !.at = "waiting"]
                                    ELSE Images!Out]
        /\ limited' = FALSE /\ late' = {}
    BY <2>1 DEF Images!PressCheck
  <2>5. DOMAIN repo' = Repos
    BY <2>4
  <2>6. \A r \in Repos : repo'[r] = IF r \in local THEN [Images!Out EXCEPT !.at = "waiting"]
                                    ELSE Images!Out
    BY <2>4
  <2>7. \A r \in Repos : DOMAIN repo'[r] = {"at", "url", "attempt"}
                         /\ repo'[r].at \in {"waiting", "none"}
    BY <2>2, <2>3, <2>6
  <2>8. ReposAreRecords'
    BY <2>5, <2>7 DEF ReposAreRecords
  <2>9. Images!Inside' = {}
    BY <2>7 DEF Images!Inside
  <2> QED
    BY <2>4, <2>8, <2>9, BackoffStarts
<1>2. ASSUME NEW r \in Repos, Images!Enter(r) PROVE BackoffInv'
  <2>1. CASE limited
    BY <1>2, <1>c, <2>1 DEF Images!Enter
  <2>2. CASE ~limited
    <3> DEFINE rec == [at |-> "queued", url |-> 1, attempt |-> 1]
    <3>1. DOMAIN rec = {"at", "url", "attempt"} /\ rec.at = "queued"
      OBVIOUS
    <3>2. /\ repo' = [repo EXCEPT ![r] = rec]
          /\ Cardinality(Images!Inside) < MaxConcurrent /\ UNCHANGED <<limited, late>>
      BY <1>2, <2>2, SameCardinality DEF Images!Enter
    <3> HIDE DEF rec
    <3>3. ReposAreRecords' /\ Images!Inside' = Images!Inside \cup {r}
      BY <1>a, <3>1, <3>2, RepoChanges
    <3>4. IsFiniteSet(Images!Inside)
      BY DEF BackoffInv
    <3>5. /\ IsFiniteSet(Images!Inside \cup {r}) /\ Cardinality(Images!Inside) \in Nat
          /\ \/ Cardinality(Images!Inside \cup {r}) = Cardinality(Images!Inside)
             \/ Cardinality(Images!Inside \cup {r}) = Cardinality(Images!Inside) + 1
      BY <3>4, FS_AddElement, FS_CardinalityType
    <3>6. IsFiniteSet(Images!Inside') /\ Cardinality(Images!Inside') <= MaxConcurrent
      BY <3>2, <3>3, <3>5, UpdateLimits
    <3>7. late' = {} /\ limited' = FALSE /\ IsFiniteSet({})
      BY <1>a, <2>2, <3>2, FS_EmptySet
    <3> QED
      BY <3>3, <3>6, <3>7 DEF BackoffInv
  <2> QED
    BY <2>1, <2>2
<1>3. ASSUME NEW r \in Repos, Images!Send(r) PROVE BackoffInv'
  <2> DEFINE rec == [repo[r] EXCEPT !.at = "asking"]
  <2>1. DOMAIN rec = {"at", "url", "attempt"} /\ rec.at = "asking"
    BY <1>a DEF ReposAreRecords
  <2>2. repo' = [repo EXCEPT ![r] = rec] /\ repo[r].at = "queued"
    BY <1>3 DEF Images!Send
  <2>3. limited' = limited /\ late' = IF limited THEN late \cup {r} ELSE late
    BY <1>3 DEF Images!Send
  <2>4. r \in Images!Inside
    BY <2>2 DEF Images!Inside
  <2> HIDE DEF rec
  <2> QED
    BY <1>b, <2>1, <2>2, <2>3, <2>4
<1>4. ASSUME NEW r \in Repos, Images!TagsCome(r) PROVE BackoffInv'
  BY <1>4, <1>c DEF Images!TagsCome
<1>5. ASSUME NEW r \in Repos, Images!Refused(r) PROVE BackoffInv'
  <2>1. r \in Images!Inside
    BY <1>5 DEF Images!Refused, Images!Inside
  <2> QED
    BY <1>5, <1>d, <2>1 DEF Images!Refused
<1>6. ASSUME NEW r \in Repos, Images!LimitComes(r) PROVE BackoffInv'
  <2>1. CASE UNCHANGED limited
    BY <1>6, <1>a, <1>c, <2>1 DEF Images!LimitComes
  <2>2. CASE limited' # limited
    <3> DEFINE rec == [Images!Out EXCEPT !.at = "limited"]
    <3>1. DOMAIN rec = {"at", "url", "attempt"} /\ rec.at = "limited"
      BY DEF Images!Out
    <3>2. Images!Result(r, "limited") /\ limited' = TRUE /\ late' = late /\ repo[r].at = "asking"
      BY <1>6, <2>2 DEF Images!LimitComes
    <3>3. repo' = [repo EXCEPT ![r] = rec]
      BY <3>2 DEF Images!Result
    <3> HIDE DEF rec
    <3>4. ReposAreRecords' /\ Images!Inside' = Images!Inside \ {r}
      BY <1>a, <3>1, <3>3, RepoChanges
    <3>5. r \in Images!Inside /\ IsFiniteSet(Images!Inside)
          /\ Cardinality(Images!Inside) <= MaxConcurrent
      BY <3>2 DEF Images!Inside, BackoffInv
    <3>6. /\ IsFiniteSet(Images!Inside \ {r}) /\ Cardinality(Images!Inside) \in Nat
          /\ Cardinality(Images!Inside \ {r}) = Cardinality(Images!Inside) - 1
      BY <3>5, FS_RemoveElement, FS_CardinalityType
    <3>7. late' = {} /\ IsFiniteSet({}) /\ late' \cup Images!Inside' = Images!Inside'
      BY <1>a, <2>2, <3>2, FS_EmptySet
    <3>8. IsFiniteSet(Images!Inside') /\ Cardinality(Images!Inside') < MaxConcurrent
          /\ Cardinality(Images!Inside') <= MaxConcurrent
      BY <3>4, <3>5, <3>6, UpdateLimits
    <3> QED
      BY <3>2, <3>4, <3>7, <3>8 DEF BackoffInv
  <2> QED
    BY <2>1, <2>2
<1>7. ASSUME NEW r \in Repos, Images!Transient(r) PROVE BackoffInv'
  <2>1. r \in Images!Inside /\ Same
    BY <1>7 DEF Images!Transient, Images!Inside
  <2>2. CASE repo[r].attempt < MaxRetries
    <3> DEFINE rec == [repo[r] EXCEPT !.at = "asleep"]
    <3>1. DOMAIN rec = {"at", "url", "attempt"} /\ rec.at = "asleep"
      BY <1>a DEF ReposAreRecords
    <3>2. repo' = [repo EXCEPT ![r] = rec]
      BY <1>7, <2>2 DEF Images!Transient
    <3> HIDE DEF rec
    <3> QED
      BY <1>b, <2>1, <3>1, <3>2
  <2>3. CASE ~(repo[r].attempt < MaxRetries)
    BY <1>7, <1>d, <2>1, <2>3 DEF Images!Transient
  <2> QED
    BY <2>2, <2>3
<1>8. ASSUME NEW r \in Repos, Images!Again(r) PROVE BackoffInv'
  <2> DEFINE rec == [repo[r] EXCEPT !.at = "queued", !.attempt = repo[r].attempt + 1]
  <2>1. DOMAIN rec = {"at", "url", "attempt"} /\ rec.at = "queued"
    BY <1>a DEF ReposAreRecords
  <2>2. repo' = [repo EXCEPT ![r] = rec]
    BY <1>8, <1>a DEF Images!Again, ReposAreRecords
  <2>3. r \in Images!Inside /\ Same
    BY <1>8 DEF Images!Again, Images!Inside
  <2> HIDE DEF rec
  <2> QED
    BY <1>b, <2>1, <2>2, <2>3
<1>9. ASSUME UNCHANGED repo, limited' => limited, limited' \in BOOLEAN,
             late' \subseteq late, ~limited' => late' = {}
      PROVE  BackoffInv'
  <2>1. Images!Inside' = Images!Inside /\ ReposAreRecords'
    BY <1>9, <1>a DEF Images!Inside, ReposAreRecords
  <2> QED
    BY <1>9, <2>1, BackoffKept
<1>10. CASE Images!BackoffEnds
  BY <1>9, <1>10 DEF Images!BackoffEnds
<1>11. CASE Images!Conclude
  BY <1>9, <1>11, <1>a DEF Images!Conclude
<1>12. CASE UNCHANGED imageVars
  BY <1>9, <1>12, <1>a DEF imageVars
<1> QED
  BY <1>1, <1>2, <1>3, <1>4, <1>5, <1>6, <1>7, <1>8, <1>10, <1>11, <1>12
     DEF Images!UpdatesNext, Images!Advance, Images!Answered

\* Once Docker Hub set a limit, fewer repositories than the semaphore lets in
\* still ask it, for every number of repositories, places and retries.
THEOREM LimitIsNoticed == MCSpec => []FewAfterLimit
<1>1. BackoffInv => FewAfterLimit
  <2> SUFFICES ASSUME BackoffInv PROVE Cardinality(late) < MaxConcurrent
    BY SameCardinality DEF FewAfterLimit, Images!FewAfterLimit
  <2>1. CASE limited
    <3>1. /\ IsFiniteSet(late \cup Images!Inside)
          /\ Cardinality(late \cup Images!Inside) < MaxConcurrent
      BY <2>1, FS_Union DEF BackoffInv
    <3>2. /\ Cardinality(late) <= Cardinality(late \cup Images!Inside)
          /\ Cardinality(late) \in Nat /\ Cardinality(late \cup Images!Inside) \in Nat
      BY <3>1, FS_Subset, FS_CardinalityType DEF BackoffInv
    <3> QED
      BY <3>1, <3>2, UpdateLimits
  <2>2. CASE ~limited
    BY <2>2, FS_EmptySet, UpdateLimits DEF BackoffInv
  <2> QED
    BY <2>1, <2>2
<1> QED
  BY <1>1, BackoffInit, BackoffNext, PartsInit, PartsStep, PTL DEF MCSpec
----------------------------------------------------------------------------
(* The check for updates comes to an end, with a true answer.               *)

RepoPlaces == {"none", "waiting", "queued", "asking", "asleep"} \cup Images!Results

\* What the coroutine of a repository can be at.
RepoStates(r) ==
    {x \in [at : RepoPlaces, url : 0 .. 2, attempt : Nat] :
       x.at \in {"queued", "asking", "asleep"} =>
         /\ x.url \in 1 .. 2 /\ (x.url = 2 => r \in Official)
         /\ x.attempt \in 1 .. MaxRetries}

\* The steps that a coroutine still has before it, at most: three for every
\* attempt at every URL, and its entry.
Left(x) ==
    IF x.at = "waiting" THEN 6 * MaxRetries + 1
    ELSE IF x.at \notin {"queued", "asking", "asleep"} THEN 0
    ELSE (IF x.url = 1 THEN 3 * MaxRetries ELSE 0) + 3 * (MaxRetries - x.attempt)
         + (IF x.at = "queued" THEN 3 ELSE IF x.at = "asking" THEN 2 ELSE 1)

\* Nothing runs for a check that has its answer.
CheckInv ==
    /\ DOMAIN repo = Repos /\ \A r \in Repos : repo[r] \in RepoStates(r)
    /\ \A r \in Repos : repo[r].at = "asleep" => repo[r].attempt < MaxRetries
    /\ check # "checking" => Images!Inside = {}

LEMMA RetriesPositive == MaxRetries \in Nat \ {0}
BY ServiceConstants DEF Images!UpdateConstants

LEMMA CheckInit == Images!UpdatesInit => CheckInv
<1> SUFFICES ASSUME Images!UpdatesInit PROVE CheckInv
  OBVIOUS
<1>1. DOMAIN repo = Repos /\ \A r \in Repos : repo[r] = [at |-> "none", url |-> 0, attempt |-> 0]
  BY DEF Images!UpdatesInit, Images!Out
<1>2. \A r \in Repos : repo[r] \in RepoStates(r) /\ repo[r].at = "none"
  BY <1>1 DEF RepoStates, RepoPlaces
<1> QED
  BY <1>1, <1>2 DEF CheckInv, Images!Inside

\* One coroutine that goes on, and has less before it.
Shorter(r) ==
    \E x \in RepoStates(r) :
      /\ repo' = [repo EXCEPT ![r] = x]
      /\ x.at = "asleep" => x.attempt < MaxRetries
      /\ Left(x) < Left(repo[r])

LEMMA EndedIsShorter ==
  ASSUME CheckInv, NEW r \in Repos, repo[r].at \in {"waiting", "queued", "asking", "asleep"},
         NEW what \in Images!Results, Images!Result(r, what)
  PROVE  Shorter(r)
<1> DEFINE x == [at |-> what, url |-> 0, attempt |-> 0]
<1>1. repo' = [repo EXCEPT ![r] = x]
  <2>1. [Images!Out EXCEPT !.at = what] = x
    BY DEF Images!Out
  <2> QED
    BY <2>1 DEF Images!Result
<1>2. what \in RepoPlaces /\ what \notin {"waiting", "queued", "asking", "asleep"}
  BY DEF RepoPlaces, Images!Results
<1>3. x \in RepoStates(r) /\ x.at = what
  BY <1>2 DEF RepoStates
<1>4. repo[r] \in RepoStates(r)
  BY DEF CheckInv
<1>5. Left(x) = 0 /\ Left(repo[r]) > 0
  BY <1>2, <1>4, RetriesPositive DEF Left, RepoStates
<1> QED
  BY <1>1, <1>2, <1>3, <1>5 DEF Shorter

LEMMA NextUrlIsShorter ==
  ASSUME CheckInv, NEW r \in Repos, repo[r].at \in {"queued", "asking"}, Images!NextUrl(r)
  PROVE  Shorter(r)
<1>1. CASE Images!LastUrl(r)
  BY <1>1, EndedIsShorter DEF Images!NextUrl, Images!Results
<1>2. CASE ~Images!LastUrl(r)
  <2> DEFINE x == [at |-> "queued", url |-> 2, attempt |-> 1]
  <2>1. repo' = [repo EXCEPT ![r] = x]
    BY <1>2 DEF Images!NextUrl
  <2>2. repo[r] \in RepoStates(r)
    BY DEF CheckInv
  <2>3. repo[r].url = 1 /\ r \in Official
    BY <1>2, <2>2 DEF Images!LastUrl, RepoStates
  <2>4. x \in RepoStates(r)
    BY <2>3, RetriesPositive DEF RepoStates, RepoPlaces
  <2>5. Left(x) = 3 * MaxRetries
    BY RetriesPositive DEF Left
  <2>6. Left(repo[r]) > 3 * MaxRetries
    BY <2>2, <2>3, RetriesPositive DEF Left, RepoStates
  <2> QED
    BY <2>1, <2>4, <2>5, <2>6, RetriesPositive DEF Shorter
<1> QED
  BY <1>1, <1>2

\* Whatever a coroutine does, while the check runs, it comes nearer its end.
LEMMA AdvanceIsShorter ==
  ASSUME CheckInv, NEW r \in Repos, Images!Advance(r)
  PROVE  check = "checking" /\ check' = check /\ Shorter(r)
<1>0. repo[r] \in RepoStates(r) /\ DOMAIN repo = Repos
  BY DEF CheckInv
<1>a. check' = check
  BY DEF Images!Advance, Images!Enter, Images!Send, Images!Answered, Images!TagsCome,
         Images!Refused, Images!LimitComes, Images!Transient, Images!Again
<1>b. check = "checking"
  <2>1. Images!Enter(r) \/ r \in Images!Inside
    BY DEF Images!Advance, Images!Send, Images!Answered, Images!TagsCome, Images!Inside,
           Images!Refused, Images!LimitComes, Images!Transient, Images!Again
  <2> QED
    BY <2>1 DEF CheckInv, Images!Enter
<1> SUFFICES Shorter(r)
  BY <1>a, <1>b
<1>1. CASE Images!Enter(r)
  <2>1. CASE limited
    BY <1>1, <2>1, EndedIsShorter DEF Images!Enter, Images!Results
  <2>2. CASE ~limited
    <3> DEFINE x == [at |-> "queued", url |-> 1, attempt |-> 1]
    <3>1. repo' = [repo EXCEPT ![r] = x] /\ repo[r].at = "waiting"
      BY <1>1, <2>2 DEF Images!Enter
    <3>2. x \in RepoStates(r) /\ x.at = "queued"
      BY RetriesPositive DEF RepoStates, RepoPlaces
    <3>3. Left(x) = 6 * MaxRetries /\ Left(repo[r]) = 6 * MaxRetries + 1
      BY <3>1, RetriesPositive DEF Left
    <3> HIDE DEF x
    <3>4. Left(x) < Left(repo[r])
      BY <3>3, RetriesPositive
    <3> QED
      BY <3>1, <3>2, <3>4 DEF Shorter
  <2> QED
    BY <2>1, <2>2
<1>2. CASE Images!Send(r)
  <2> DEFINE x == [repo[r] EXCEPT !.at = "asking"]
  <2>1. repo' = [repo EXCEPT ![r] = x] /\ repo[r].at = "queued"
    BY <1>2 DEF Images!Send
  <2>2. /\ x \in [at : RepoPlaces, url : 0 .. 2, attempt : Nat]
        /\ x.at = "asking" /\ x.url = repo[r].url /\ x.attempt = repo[r].attempt
    BY <1>0 DEF RepoStates, RepoPlaces
  <2>3. x \in RepoStates(r)
    BY <1>0, <2>1, <2>2 DEF RepoStates
  <2> HIDE DEF x
  <2>4. Left(x) = Left(repo[r]) - 1 /\ Left(repo[r]) \in Int
    BY <1>0, <2>1, <2>2, RetriesPositive DEF Left, RepoStates
  <2>5. Left(x) < Left(repo[r])
    BY <2>4
  <2> QED
    BY <2>1, <2>2, <2>3, <2>5 DEF Shorter
<1>c. ASSUME repo[r].at = "asking", NEW what \in {"updates", "current", "failed", "limited"},
             Images!Result(r, what)
      PROVE  Shorter(r)
  BY <1>c, EndedIsShorter DEF Images!Results
<1>3. CASE Images!TagsCome(r)
  BY <1>3, <1>c DEF Images!TagsCome
<1>4. CASE Images!Refused(r)
  <2>1. repo[r].at = "asking" /\ Images!NextUrl(r)
    BY <1>4 DEF Images!Refused
  <2> QED
    BY <2>1, NextUrlIsShorter
<1>5. CASE Images!LimitComes(r)
  BY <1>5, <1>c DEF Images!LimitComes
<1>6. CASE Images!Transient(r)
  <2>1. CASE repo[r].attempt < MaxRetries
    <3> DEFINE x == [repo[r] EXCEPT !.at = "asleep"]
    <3>1. repo' = [repo EXCEPT ![r] = x] /\ repo[r].at \in {"queued", "asking"}
      BY <1>6, <2>1 DEF Images!Transient
    <3>2. /\ x \in [at : RepoPlaces, url : 0 .. 2, attempt : Nat]
          /\ x.at = "asleep" /\ x.url = repo[r].url /\ x.attempt = repo[r].attempt
      BY <1>0 DEF RepoStates, RepoPlaces
    <3>3. x \in RepoStates(r)
      BY <1>0, <3>1, <3>2 DEF RepoStates
    <3> HIDE DEF x
    <3>4. Left(x) < Left(repo[r])
      BY <1>0, <3>1, <3>2, RetriesPositive DEF Left, RepoStates
    <3>5. x.attempt < MaxRetries
      BY <2>1, <3>2
    <3> QED
      BY <3>1, <3>3, <3>4, <3>5 DEF Shorter
  <2>2. CASE ~(repo[r].attempt < MaxRetries)
    <3>1. repo[r].at \in {"queued", "asking"} /\ Images!NextUrl(r)
      BY <1>6, <2>2 DEF Images!Transient
    <3> QED
      BY <3>1, NextUrlIsShorter
  <2> QED
    BY <2>1, <2>2
<1>7. CASE Images!Again(r)
  <2> DEFINE x == [repo[r] EXCEPT !.at = "queued", !.attempt = @ + 1]
  <2>1. repo' = [repo EXCEPT ![r] = x] /\ repo[r].at = "asleep"
    BY <1>0, <1>7 DEF Images!Again
  <2>0. /\ repo[r] \in [at : RepoPlaces, url : 0 .. 2, attempt : Nat]
        /\ repo[r].attempt \in Nat /\ repo[r].attempt + 1 \in Nat
    BY <1>0 DEF RepoStates
  <2>2. /\ x \in [at : RepoPlaces, url : 0 .. 2, attempt : Nat]
        /\ x.at = "queued" /\ x.url = repo[r].url /\ x.attempt = repo[r].attempt + 1
    BY <2>0 DEF RepoPlaces
  <2>3. repo[r].attempt < MaxRetries
    BY <2>1 DEF CheckInv
  <2> HIDE DEF x
  <2>4. x \in RepoStates(r)
    <3>1. repo[r].url \in 1 .. 2 /\ (repo[r].url = 2 => r \in Official)
          /\ repo[r].attempt \in 1 .. MaxRetries
      BY <1>0, <2>1 DEF RepoStates
    <3>2. x.attempt \in 1 .. MaxRetries
      BY <2>2, <2>3, <3>1, RetriesPositive
    <3> QED
      BY <2>2, <3>1, <3>2 DEF RepoStates
  <2> HIDE DEF x
  <2>5. Left(x) < Left(repo[r])
    BY <1>0, <2>1, <2>2, <2>3, RetriesPositive DEF Left, RepoStates
  <2> QED
    BY <2>1, <2>2, <2>4, <2>5 DEF Shorter
<1> QED
  BY <1>1, <1>2, <1>3, <1>4, <1>5, <1>6, <1>7 DEF Images!Advance, Images!Answered

LEMMA CheckNext == CheckInv /\ [Images!UpdatesNext]_imageVars => CheckInv'
<1> SUFFICES ASSUME CheckInv, [Images!UpdatesNext]_imageVars PROVE CheckInv'
  OBVIOUS
<1>1. ASSUME NEW local \in SUBSET Repos, Images!PressCheck(local) PROVE CheckInv'
  <2> DEFINE x == [at |-> "waiting", url |-> 0, attempt |-> 0]
             y == [at |-> "none", url |-> 0, attempt |-> 0]
  <2>1. Images!Out = y /\ [Images!Out EXCEPT !.at = "waiting"] = x
    BY DEF Images!Out
  <2>2. DOMAIN repo' = Repos /\ \A r \in Repos : repo'[r] = IF r \in local THEN x ELSE y
    BY <1>1, <2>1 DEF Images!PressCheck
  <2>3. \A r \in Repos : {x, y} \subseteq RepoStates(r) /\ x.at = "waiting" /\ y.at = "none"
    BY DEF RepoStates, RepoPlaces
  <2> HIDE DEF x, y
  <2>4. \A r \in Repos : repo'[r] \in RepoStates(r) /\ repo'[r].at \in {"waiting", "none"}
    BY <2>2, <2>3
  <2>5. Images!Inside' = {}
    BY <2>4 DEF Images!Inside
  <2> QED
    BY <2>2, <2>4, <2>5 DEF CheckInv
<1>2. ASSUME NEW r \in Repos, Images!Advance(r) PROVE CheckInv'
  <2>1. check' = "checking" /\ Shorter(r)
    BY <1>2, AdvanceIsShorter
  <2>2. PICK x \in RepoStates(r) :
          repo' = [repo EXCEPT ![r] = x] /\ (x.at = "asleep" => x.attempt < MaxRetries)
    BY <2>1 DEF Shorter
  <2> QED
    BY <2>1, <2>2 DEF CheckInv
<1>3. CASE Images!Conclude
  <2>1. UNCHANGED repo /\ check = "checking"
        /\ \A r \in Images!Local : repo[r].at \in Images!Results
    BY <1>3 DEF Images!Conclude
  <2>2. \A r \in Images!Inside : r \in Images!Local /\ repo[r].at \notin Images!Results
    BY DEF Images!Inside, Images!Local, Images!Results
  <2>3. Images!Inside = {} /\ Images!Inside' = Images!Inside
    BY <2>1, <2>2 DEF Images!Inside
  <2> QED
    BY <2>1, <2>3 DEF CheckInv
<1>4. CASE UNCHANGED <<check, repo>>
  <2>1. Images!Inside' = Images!Inside
    BY <1>4 DEF Images!Inside
  <2> QED
    BY <1>4, <2>1 DEF CheckInv
<1> QED
  BY <1>1, <1>2, <1>3, <1>4 DEF Images!UpdatesNext, Images!BackoffEnds, imageVars

\* A step of a check that has its answer is a press; the press forgets it.
LEMMA AnswerStaysTrue ==
  ASSUME CheckInv, Images!AnswerIsTrue, [Images!UpdatesNext]_imageVars
  PROVE  Images!AnswerIsTrue'
<1>1. ASSUME NEW local \in SUBSET Repos, Images!PressCheck(local) PROVE Images!AnswerIsTrue'
  <2>1. Images!Out.at = "none" /\ [Images!Out EXCEPT !.at = "waiting"].at = "waiting"
    BY DEF Images!Out
  <2>2. \A r \in Repos : repo'[r].at \in {"waiting", "none"}
    BY <1>1, <2>1 DEF Images!PressCheck
  <2>3. \A r \in Images!Local' : repo'[r].at \notin Images!Results
    BY <2>2 DEF Images!Local, Images!Results
  <2> QED
    BY <2>3 DEF Images!AnswerIsTrue
<1>2. ASSUME NEW r \in Repos, Images!Advance(r) PROVE Images!AnswerIsTrue'
  <2>1. check' = "checking"
    BY <1>2, AdvanceIsShorter
  <2> QED
    BY <2>1 DEF Images!AnswerIsTrue
<1>3. CASE Images!Conclude
  <2>1. /\ UNCHANGED repo
        /\ check' = CASE Images!Status = "rate limited" -> "rate limited"
                      [] Images!Status = "error" -> "error"
                      [] OTHER -> IF Images!With("updates") = {} THEN "none found" ELSE "updates"
    BY <1>3 DEF Images!Conclude
  <2>2. \A what : Images!With(what)' = Images!With(what)
    BY <2>1 DEF Images!With
  <2>3. /\ check' = "updates" => Images!With("updates") # {}
        /\ check' = "none found" => Images!With("current") # {} /\ Images!With("updates") = {}
        /\ check' = "rate limited" => Images!With("limited") # {}
        /\ check' = "error" => Images!With("updates") = {} /\ Images!With("limited") = {}
    BY <2>1 DEF Images!Status
  <2> QED
    BY <2>2, <2>3 DEF Images!AnswerIsTrue
<1>4. CASE UNCHANGED <<check, repo>>
  <2>1. /\ Images!Local' = Images!Local
        /\ \A what : Images!With(what)' = Images!With(what)
    BY <1>4 DEF Images!With, Images!Local
  <2> QED
    BY <1>4, <2>1 DEF Images!AnswerIsTrue
<1> QED
  BY <1>1, <1>2, <1>3, <1>4 DEF Images!UpdatesNext, Images!BackoffEnds, imageVars

\* What a check shows is true of the answers it got: an error or a limit only
\* when no tags came or a limit did, updates when there are some, none only
\* after tags were read (the handler of "Check updates").
THEOREM UpdateAnswersAreTrue == MCSpec => [][Images!AnswerIsTrue']_imageVars
<1>1. Images!UpdatesInit => Images!AnswerIsTrue
  <2> SUFFICES ASSUME Images!UpdatesInit PROVE Images!AnswerIsTrue
    OBVIOUS
  <2>1. check = "idle"
    BY DEF Images!UpdatesInit
  <2> QED
    BY <2>1 DEF Images!AnswerIsTrue
<1>2. CheckInv /\ Images!AnswerIsTrue /\ [Images!UpdatesNext]_imageVars => Images!AnswerIsTrue'
  BY AnswerStaysTrue
<1> QED
  BY <1>1, <1>2, CheckInit, CheckNext, PartsInit, PartsStep, PTL DEF MCSpec

\* Somebody can go on: a coroutine may enter, has a connection to take, has an
\* answer coming or a pause that ends, or all have their result.
CheckGoesOn ==
    \/ \A r \in Images!Local : repo[r].at \in Images!Results
    \/ \E r \in Repos :
         \/ repo[r].at = "waiting" /\ Cardinality(Images!Inside) < MaxConcurrent
         \/ repo[r].at = "queued" /\ Cardinality(Images!Asking) < PerHost
         \/ repo[r].at \in {"asking", "asleep"}

\* A step of a running check: one coroutine comes nearer its end and the
\* others stay where they are, or the answer is given, or a limit is over.
CheckProgress ==
    check = "checking" =>
      \/ \E r \in Repos : /\ Left(repo[r])' < Left(repo[r])
                          /\ \A q \in Repos \ {r} : repo[q]' = repo[q]
      \/ check' # "checking" /\ UNCHANGED repo
      \/ limited /\ ~limited' /\ UNCHANGED <<check, repo>>

LEMMA NobodyBlocksACheck == CheckInv => CheckGoesOn
<1> SUFFICES ASSUME CheckInv, ~CheckGoesOn PROVE FALSE
  OBVIOUS
<1>1. IsFiniteSet({}) /\ Cardinality({}) = 0
  BY FS_EmptySet
<1>2. MaxConcurrent \in Nat \ {0} /\ PerHost \in Nat \ {0}
  BY ServiceConstants DEF Images!UpdateConstants
<1>3. Images!Asking = {}
  BY DEF CheckGoesOn, Images!Asking
<1>4. \A r \in Repos : repo[r].at # "queued"
  BY <1>1, <1>2, <1>3 DEF CheckGoesOn
<1>5. Images!Inside = {}
  BY <1>4 DEF Images!Inside, CheckGoesOn
<1>6. \A r \in Repos : repo[r].at # "waiting"
  BY <1>1, <1>2, <1>5 DEF CheckGoesOn
<1>7. \A r \in Repos : repo[r].at \in {"none"} \cup Images!Results
  BY <1>4, <1>6 DEF CheckInv, RepoStates, RepoPlaces, CheckGoesOn
<1> QED
  BY <1>7 DEF CheckGoesOn, Images!Local

LEMMA EveryStepCounts == CheckInv /\ [Images!UpdatesNext]_imageVars => [CheckProgress]_imageVars
<1> SUFFICES ASSUME CheckInv, Images!UpdatesNext, check = "checking" PROVE CheckProgress
  BY DEF CheckProgress
<1>1. ASSUME NEW r \in Repos, Images!Advance(r) PROVE CheckProgress
  <2>1. PICK x \in RepoStates(r) : repo' = [repo EXCEPT ![r] = x] /\ Left(x) < Left(repo[r])
    BY <1>1, AdvanceIsShorter DEF Shorter
  <2>2. repo'[r] = x /\ \A q \in Repos \ {r} : repo'[q] = repo[q]
    BY <2>1 DEF CheckInv
  <2>3. Left(repo[r])' = Left(repo'[r])
    BY DEF Left
  <2>4. Left(repo[r])' < Left(repo[r])
    BY <2>1, <2>2, <2>3
  <2> QED
    BY <2>2, <2>4 DEF CheckProgress
<1>2. CASE Images!Conclude
  BY <1>2 DEF Images!Conclude, CheckProgress
<1>3. CASE Images!BackoffEnds
  BY <1>3 DEF Images!BackoffEnds, CheckProgress
<1> QED
  BY <1>1, <1>2, <1>3 DEF Images!UpdatesNext, Images!PressCheck

\* The safety of "a check ends": at any time some coroutine can go on, and
\* each step takes one nearer its end, of at most 6 * MAX_RETRIES + 1 steps,
\* whatever fails, is tried again or waits for a place.
THEOREM ChecksRunOut ==
    MCSpec => [](check = "checking" => CheckGoesOn) /\ [][CheckProgress]_imageVars
  BY CheckInit, CheckNext, NobodyBlocksACheck, EveryStepCounts, PartsInit, PartsStep,
     PTL DEF MCSpec
----------------------------------------------------------------------------
(* Messages that delete themselves.                                         *)

Numbers(keys, u) == {k[2] : k \in {l \in keys : l[1] = u}}

\* Each place is a key, a number of its user and a thread that has it.
PlacesInv ==
    /\ \A t \in threads : {"user", "id"} \subseteq DOMAIN t
    /\ \A k \in tasks : \E t \in threads : k = <<t.user, t.id>>
    /\ DOMAIN pending = Readers
    /\ \A u \in Readers : /\ pending[u] = Numbers(tasks, u)
                          /\ IsFiniteSet(pending[u]) /\ Cardinality(pending[u]) <= MaxPending

LEMMA SameCount == \A S : Messages!Cardinality(S) = Cardinality(S)
  BY DEF Messages!Cardinality, Cardinality

LEMMA PendingLimit == MaxPending \in Nat
  BY ServiceConstants DEF Messages!DeletionConstants

LEMMA PlacesInit == Messages!DeletionInit => PlacesInv
<1> SUFFICES ASSUME Messages!DeletionInit PROVE PlacesInv
  OBVIOUS
<1>1. threads = {} /\ tasks = {} /\ DOMAIN pending = Readers
  BY DEF Messages!DeletionInit
<1>2. ASSUME NEW u \in Readers
      PROVE  /\ pending[u] = Numbers(tasks, u)
             /\ IsFiniteSet(pending[u]) /\ Cardinality(pending[u]) <= MaxPending
  <2>1. pending[u] = {} /\ Numbers(tasks, u) = {}
    BY DEF Messages!DeletionInit, Numbers
  <2> QED
    BY <2>1, FS_EmptySet, PendingLimit
<1> QED
  BY <1>1, <1>2 DEF PlacesInv

\* A place is taken: the key, the number and the thread at once.
LEMMA PlaceTaken ==
  ASSUME PlacesInv, NEW new, {"user", "id"} \subseteq DOMAIN new,
         ~(Cardinality(pending[new.user]) >= MaxPending),
         threads' = threads \cup {new}, tasks' = tasks \cup {<<new.user, new.id>>},
         pending' = [pending EXCEPT ![new.user] = @ \cup {new.id}]
  PROVE  PlacesInv'
<1>1. ASSUME NEW u \in Readers
      PROVE  /\ pending'[u] = Numbers(tasks', u)
             /\ IsFiniteSet(pending'[u]) /\ Cardinality(pending'[u]) <= MaxPending
  <2>0. pending[u] = Numbers(tasks, u) /\ IsFiniteSet(pending[u])
        /\ Cardinality(pending[u]) <= MaxPending /\ DOMAIN pending = Readers
    BY DEF PlacesInv
  <2>1. CASE u = new.user
    <3>1. pending'[u] = pending[u] \cup {new.id}
      BY <2>0, <2>1
    <3>2. Numbers(tasks', u) = Numbers(tasks, u) \cup {new.id}
      <4> DEFINE key == <<new.user, new.id>>
      <4>1. key[1] = u /\ key[2] = new.id /\ tasks' = tasks \cup {key}
        BY <2>1
      <4> HIDE DEF key
      <4> QED
        BY <4>1 DEF Numbers
    <3>3. /\ IsFiniteSet(pending[u] \cup {new.id}) /\ Cardinality(pending[u]) \in Nat
          /\ \/ Cardinality(pending[u] \cup {new.id}) = Cardinality(pending[u])
             \/ Cardinality(pending[u] \cup {new.id}) = Cardinality(pending[u]) + 1
      BY <2>0, FS_AddElement, FS_CardinalityType
    <3>4. pending'[u] = Numbers(tasks', u)
      BY <2>0, <3>1, <3>2
    <3>5. Cardinality(pending[u]) < MaxPending
      BY <2>1, <3>3, PendingLimit
    <3>6. Cardinality(pending[u] \cup {new.id}) <= MaxPending
      BY <3>3, <3>5, PendingLimit
    <3> QED
      BY <3>1, <3>3, <3>4, <3>6
  <2>2. CASE u # new.user
    <3>1. pending'[u] = pending[u]
      BY <2>0, <2>2
    <3>2. Numbers(tasks', u) = Numbers(tasks, u)
      BY <2>2 DEF Numbers
    <3> QED
      BY <2>0, <3>1, <3>2
  <2> QED
    BY <2>1, <2>2
<1>2. DOMAIN pending' = Readers /\ \A t \in threads' : {"user", "id"} \subseteq DOMAIN t
  BY DEF PlacesInv
<1>3. \A k \in tasks' : \E t \in threads' : k = <<t.user, t.id>>
  BY DEF PlacesInv
<1> QED
  BY <1>1, <1>2, <1>3 DEF PlacesInv

\* A thread ends: it gives back what it had.
LEMMA PlaceGivenBack ==
  ASSUME PlacesInv, NEW t \in threads,
         threads' = threads \ {t}, tasks' = tasks \ {<<t.user, t.id>>},
         pending' = [pending EXCEPT ![t.user] = @ \ {t.id}]
  PROVE  PlacesInv'
<1>1. ASSUME NEW u \in Readers
      PROVE  /\ pending'[u] = Numbers(tasks', u)
             /\ IsFiniteSet(pending'[u]) /\ Cardinality(pending'[u]) <= MaxPending
  <2>0. /\ pending[u] = Numbers(tasks, u) /\ IsFiniteSet(pending[u])
        /\ Cardinality(pending[u]) <= MaxPending /\ DOMAIN pending = Readers
        /\ \A k \in tasks : \E v \in threads : k = <<v.user, v.id>>
    BY DEF PlacesInv
  <2>1. CASE u = t.user
    <3>1. pending'[u] = pending[u] \ {t.id}
      BY <2>0, <2>1
    <3>2. \A k \in tasks : k = <<k[1], k[2]>>
      BY <2>0
    <3>3. Numbers(tasks', u) = Numbers(tasks, u) \ {t.id}
      BY <2>1, <3>2 DEF Numbers
    <3>4. IsFiniteSet(pending'[u]) /\ Cardinality(pending'[u]) <= Cardinality(pending[u])
      BY <2>0, <3>1, FS_Subset
    <3>5. Cardinality(pending[u]) \in Nat /\ Cardinality(pending'[u]) \in Nat
      BY <2>0, <3>4, FS_CardinalityType
    <3>6. Cardinality(pending'[u]) <= MaxPending
      BY <2>0, <3>4, <3>5, PendingLimit
    <3> QED
      BY <2>0, <3>1, <3>3, <3>4, <3>6
  <2>2. CASE u # t.user
    <3>1. pending'[u] = pending[u]
      BY <2>0, <2>2
    <3>2. Numbers(tasks', u) = Numbers(tasks, u)
      BY <2>2 DEF Numbers
    <3> QED
      BY <2>0, <3>1, <3>2
  <2> QED
    BY <2>1, <2>2
<1>2. DOMAIN pending' = Readers /\ \A v \in threads' : {"user", "id"} \subseteq DOMAIN v
  BY DEF PlacesInv
<1>3. \A k \in tasks' : \E v \in threads' : k = <<v.user, v.id>>
  <2> SUFFICES ASSUME NEW k \in tasks' PROVE \E v \in threads' : k = <<v.user, v.id>>
    OBVIOUS
  <2>1. PICK v \in threads : k = <<v.user, v.id>>
    BY DEF PlacesInv
  <2> QED
    BY <2>1
<1> QED
  BY <1>1, <1>2, <1>3 DEF PlacesInv

LEMMA PlacesNext == PlacesInv /\ [Messages!DeletionNext]_messageVars => PlacesInv'
<1> SUFFICES ASSUME PlacesInv, [Messages!DeletionNext]_messageVars PROVE PlacesInv'
  OBVIOUS
<1>0. ASSUME UNCHANGED <<tasks, pending, threads>> PROVE PlacesInv'
  BY <1>0 DEF PlacesInv, Numbers
<1>1. ASSUME NEW s \in Senders, NEW u \in Readers, NEW c \in Chats,
             Messages!SendTemporary(s, u, c)
      PROVE  PlacesInv'
  BY <1>0, <1>1 DEF Messages!SendTemporary
<1>2. ASSUME NEW s \in Senders, Messages!Schedule(s)
      PROVE  PlacesInv'
  <2>1. CASE UNCHANGED <<tasks, pending, threads>>
    BY <1>0, <2>1
  <2>2. ASSUME NEW at, Messages!Take(sender[s], at),
               ~(Cardinality(pending[sender[s].user]) >= MaxPending)
        PROVE  PlacesInv'
    <3> DEFINE new == [user |-> sender[s].user, chat |-> sender[s].chat,
                       id |-> sender[s].id, at |-> at]
    <3>1. /\ tasks' = tasks \cup {<<sender[s].user, sender[s].id>>}
          /\ pending' = [pending EXCEPT ![sender[s].user] = @ \cup {sender[s].id}]
          /\ threads' = threads \cup {new}
      BY <2>2 DEF Messages!Take
    <3>2. /\ {"user", "id"} \subseteq DOMAIN new
          /\ new.user = sender[s].user /\ new.id = sender[s].id
      OBVIOUS
    <3> HIDE DEF new
    <3> QED
      BY <2>2, <3>1, <3>2, PlaceTaken
  <2> QED
    BY <1>2, <2>1, <2>2, SameCount DEF Messages!Schedule
<1>3. ASSUME NEW s \in Senders, Messages!Warn(s)
      PROVE  PlacesInv'
  BY <1>0, <1>3 DEF Messages!Warn
<1>4. ASSUME NEW t \in threads, Messages!Execute(t)
      PROVE  PlacesInv'
  <2> DEFINE new == [t EXCEPT !.at = "finishing"]
  <2>1. /\ threads' = (threads \ {t}) \cup {new} /\ UNCHANGED <<tasks, pending>>
    BY <1>4 DEF Messages!Execute, Messages!Replace
  <2>2. {"user", "id"} \subseteq DOMAIN t
    BY DEF PlacesInv
  <2>3. {"user", "id"} \subseteq DOMAIN new /\ new.user = t.user /\ new.id = t.id
    BY <2>2
  <2> HIDE DEF new
  <2>4. \A v \in threads' : {"user", "id"} \subseteq DOMAIN v
    BY <2>1, <2>3 DEF PlacesInv
  <2>5. \A k \in tasks : \E v \in threads' : k = <<v.user, v.id>>
    BY <2>1, <2>3 DEF PlacesInv
  <2> QED
    BY <2>1, <2>4, <2>5 DEF PlacesInv, Numbers
<1>5. ASSUME NEW t \in threads, Messages!Finish(t)
      PROVE  PlacesInv'
  BY <1>5, PlaceGivenBack DEF Messages!Finish
<1>6. CASE Messages!BotGoes
  BY <1>0, <1>6 DEF Messages!BotGoes
<1>7. CASE Messages!Cleanup
  <2>1. /\ tasks' = {} /\ UNCHANGED threads
        /\ pending' = [u \in Readers |-> pending[u] \ Numbers(tasks, u)]
    BY <1>7 DEF Messages!Cleanup, Numbers
  <2>2. ASSUME NEW u \in Readers
        PROVE  /\ pending'[u] = Numbers(tasks', u)
               /\ IsFiniteSet(pending'[u]) /\ Cardinality(pending'[u]) <= MaxPending
    <3>1. pending'[u] = {} /\ Numbers(tasks', u) = {}
      BY <2>1 DEF PlacesInv, Numbers
    <3> QED
      BY <3>1, FS_EmptySet, PendingLimit
  <2> QED
    BY <2>1, <2>2 DEF PlacesInv
<1>8. CASE UNCHANGED messageVars
  BY <1>0, <1>8 DEF messageVars
<1> QED
  BY <1>1, <1>2, <1>3, <1>4, <1>5, <1>6, <1>7, <1>8
     DEF Messages!DeletionNext, Messages!SenderStep, Messages!ThreadStep

\* Every place of the deletion manager is a thread's, which gives it back unless
\* it could not be started, and no user has more than the limit, for any number
\* of senders and chats.
THEOREM PlacesComeBack == MCSpec => []PlacesAreHeld
<1>1. PlacesInv => PlacesAreHeld
  <2> SUFFICES ASSUME PlacesInv PROVE PlacesAreHeld
    OBVIOUS
  <2>1. ASSUME NEW u \in Readers
        PROVE  /\ pending[u] = {k[2] : k \in {l \in tasks : l[1] = u}}
               /\ Messages!Cardinality(pending[u]) <= MaxPending
    BY SameCount DEF PlacesInv, Numbers
  <2>2. tasks \subseteq {<<t.user, t.id>> : t \in threads}
    BY DEF PlacesInv
  <2> QED
    BY <2>1, <2>2 DEF PlacesAreHeld, Messages!PlacesAreHeld
<1> QED
  BY <1>1, PlacesInit, PlacesNext, PartsInit, PartsStep, PTL DEF MCSpec
----------------------------------------------------------------------------
(* Every promise to delete a message is in somebody's hand.                 *)

Sending(s) == sender[s].at # "idle"

\* The number of a message is counted per chat, but the key of a deletion is
\* the user and the number only.
Shared(c, i) == \E d \in Chats \ {c} : i \in DOMAIN chat[d]

\* A message still promised is being sent, or a thread sleeps that will delete
\* it, or its number is also one of another chat.
PromisesAreKept ==
    botAlive => \A c \in Chats : \A i \in DOMAIN chat[c] :
      chat[c][i] = "promised" =>
        \/ \E s \in Senders : Sending(s) /\ sender[s].chat = c /\ sender[s].id = i
        \/ \E t \in threads : t.at = "asleep" /\ t.chat = c /\ t.id = i
        \/ Shared(c, i)

\* Who sends a message is alone with it, until a thread takes it over.
KeepersInv ==
    /\ DOMAIN sender = Senders
    /\ \A s \in Senders :
         sender[s] \in [at : {"idle", "sent", "full"}, user : Readers \cup {0},
                        chat : Chats \cup {0}, id : Nat]
    /\ chat \in [Chats -> Seq({"promised", "deleted", "failed", "warned", "unknown"})]
    /\ \A s \in Senders : Sending(s) =>
         sender[s].chat \in Chats /\ sender[s].id \in DOMAIN chat[sender[s].chat]
    /\ \A t \in threads :
         /\ DOMAIN t = {"user", "chat", "id", "at"}
         /\ t.chat \in Chats /\ t.id \in DOMAIN chat[t.chat]
    /\ \A s \in Senders, t \in threads :
         Sending(s) => <<t.chat, t.id>> # <<sender[s].chat, sender[s].id>>
    /\ \A s, q \in Senders :
         /\ Sending(s) /\ Sending(q)
         /\ <<sender[s].chat, sender[s].id>> = <<sender[q].chat, sender[q].id>>
         => s = q

PromisesInv == PlacesInv /\ KeepersInv /\ PromisesAreKept

LEMMA PromisesInit == Messages!DeletionInit => PromisesInv
<1> SUFFICES ASSUME Messages!DeletionInit PROVE PromisesInv
  OBVIOUS
<1>1. /\ threads = {} /\ chat = [c \in Chats |-> << >>]
      /\ sender = [s \in Senders |-> [at |-> "idle", user |-> 0, chat |-> 0, id |-> 0]]
  BY DEF Messages!DeletionInit, Messages!Idle
<1>2. \A s \in Senders :
        sender[s] \in [at : {"idle", "sent", "full"}, user : Readers \cup {0},
                       chat : Chats \cup {0}, id : Nat] /\ ~Sending(s)
  BY <1>1 DEF Sending
<1>3. << >> \in Seq({"promised", "deleted", "failed", "warned", "unknown"}) /\ DOMAIN << >> = {}
  OBVIOUS
<1>4. KeepersInv
  BY <1>1, <1>2, <1>3 DEF KeepersInv
<1>5. PromisesAreKept
  BY <1>1, <1>3 DEF PromisesAreKept
<1> QED
  BY <1>4, <1>5, PlacesInit DEF PromisesInv

\* A message gets another state: the chats keep their lengths.
LEMMA MarkEffect ==
  ASSUME KeepersInv, NEW c \in Chats, NEW i \in DOMAIN chat[c],
         NEW state \in {"deleted", "failed", "warned", "unknown"}, Messages!Mark(c, i, state)
  PROVE  /\ chat' \in [Chats -> Seq({"promised", "deleted", "failed", "warned", "unknown"})]
         /\ \A d \in Chats : DOMAIN chat'[d] = DOMAIN chat[d]
         /\ \A d \in Chats : \A j \in DOMAIN chat[d] :
              chat'[d][j] = "promised" => chat[d][j] = "promised" /\ <<d, j>> # <<c, i>>
<1> DEFINE States == {"promised", "deleted", "failed", "warned", "unknown"}
           line == [chat[c] EXCEPT ![i] = state]
<1>1. chat \in [Chats -> Seq(States)] /\ chat[c] \in Seq(States) /\ state \in States
  BY DEF KeepersInv
<1>2. chat' = [chat EXCEPT ![c] = line]
  BY <1>1 DEF Messages!Mark
<1>3. line \in Seq(States) /\ DOMAIN line = DOMAIN chat[c]
      /\ \A j \in DOMAIN chat[c] : line[j] = IF j = i THEN state ELSE chat[c][j]
  BY <1>1
<1> HIDE DEF line
<1>4. chat' \in [Chats -> Seq(States)] /\ chat'[c] = line
      /\ \A d \in Chats \ {c} : chat'[d] = chat[d]
  BY <1>1, <1>2, <1>3
<1> QED
  BY <1>3, <1>4

\* A step that adds no thread, no sender and no promise keeps who holds what.
LEMMA KeepersStay ==
  ASSUME KeepersInv, NEW s \in Senders,
         sender' = [sender EXCEPT ![s] = Messages!Idle],
         threads' = threads,
         chat' \in [Chats -> Seq({"promised", "deleted", "failed", "warned", "unknown"})],
         \A d \in Chats : DOMAIN chat'[d] = DOMAIN chat[d]
  PROVE  KeepersInv'
<1>1. sender'[s] = [at |-> "idle", user |-> 0, chat |-> 0, id |-> 0]
      /\ DOMAIN sender' = Senders /\ \A q \in Senders \ {s} : sender'[q] = sender[q]
  BY DEF KeepersInv, Messages!Idle
<1>2. ~Sending(s)' /\ \A q \in Senders : Sending(q)' => Sending(q) /\ sender'[q] = sender[q]
  BY <1>1 DEF Sending
<1>3. \A q \in Senders :
        sender'[q] \in [at : {"idle", "sent", "full"}, user : Readers \cup {0},
                        chat : Chats \cup {0}, id : Nat]
  BY <1>1 DEF KeepersInv
<1> QED
  BY <1>1, <1>2, <1>3 DEF KeepersInv

LEMMA PromisesNext == PromisesInv /\ [Messages!DeletionNext]_messageVars => PromisesInv'
<1> SUFFICES ASSUME PromisesInv, [Messages!DeletionNext]_messageVars PROVE PromisesInv'
  OBVIOUS
<1> DEFINE States == {"promised", "deleted", "failed", "warned", "unknown"}
           Held == [at : {"idle", "sent", "full"}, user : Readers \cup {0},
                    chat : Chats \cup {0}, id : Nat]
<1>0. PlacesInv /\ KeepersInv /\ PromisesAreKept /\ PlacesInv'
  BY PlacesNext DEF PromisesInv
<1> SUFFICES KeepersInv' /\ PromisesAreKept'
  BY <1>0 DEF PromisesInv
<1>1. ASSUME NEW s \in Senders, NEW u \in Readers, NEW c \in Chats,
             Messages!SendTemporary(s, u, c)
      PROVE  KeepersInv' /\ PromisesAreKept'
  <2> DEFINE i == Len(chat[c]) + 1
             new == [at |-> "sent", user |-> u, chat |-> c, id |-> i]
  <2>1. /\ sender' = [sender EXCEPT ![s] = new] /\ threads' = threads /\ botAlive' = botAlive
        /\ chat' = [chat EXCEPT ![c] = Append(chat[c], "promised")] /\ ~Sending(s)
    BY <1>0, <1>1 DEF Messages!SendTemporary, Sending, KeepersInv
  <2>2. chat \in [Chats -> Seq(States)] /\ chat[c] \in Seq(States)
    BY <1>0 DEF KeepersInv
  <2>3. /\ i \in Nat /\ i \notin DOMAIN chat[c]
        /\ Append(chat[c], "promised") \in Seq(States)
        /\ DOMAIN Append(chat[c], "promised") = DOMAIN chat[c] \cup {i}
        /\ \A j \in DOMAIN chat[c] : Append(chat[c], "promised")[j] = chat[c][j]
    BY <2>2
  <2>4. new \in Held /\ new.at = "sent" /\ new.chat = c /\ new.id = i
    BY <2>3
  <2> HIDE DEF new, i
  <2>5. /\ chat' \in [Chats -> Seq(States)] /\ DOMAIN chat'[c] = DOMAIN chat[c] \cup {i}
        /\ \A d \in Chats \ {c} : chat'[d] = chat[d]
        /\ \A j \in DOMAIN chat[c] : chat'[c][j] = chat[c][j]
    BY <2>1, <2>2, <2>3
  <2>6. DOMAIN sender' = Senders /\ sender'[s] = new
        /\ \A q \in Senders \ {s} : sender'[q] = sender[q]
    BY <1>0, <2>1 DEF KeepersInv
  <2>7. Sending(s)' /\ \A q \in Senders \ {s} : Sending(q)' = Sending(q)
    BY <2>4, <2>6 DEF Sending
  <2>8. \A d \in Chats : DOMAIN chat[d] \subseteq DOMAIN chat'[d]
    BY <2>5
  <2>9. \A q \in Senders : sender'[q] \in Held
    BY <1>0, <2>4, <2>6 DEF KeepersInv
  <2>10. \A q \in Senders : Sending(q)' =>
           sender'[q].chat \in Chats /\ sender'[q].id \in DOMAIN chat'[sender'[q].chat]
    BY <1>0, <2>4, <2>5, <2>6, <2>7, <2>8 DEF KeepersInv
  <2>11. \A t \in threads : t.chat \in Chats /\ t.id \in DOMAIN chat'[t.chat]
    BY <1>0, <2>8 DEF KeepersInv
  <2>12. \A t \in threads : <<t.chat, t.id>> # <<c, i>>
    BY <1>0, <2>3 DEF KeepersInv
  <2>13. \A q \in Senders \ {s} : Sending(q) => <<sender[q].chat, sender[q].id>> # <<c, i>>
    BY <1>0, <2>3 DEF KeepersInv
  <2>14. \A q \in Senders, t \in threads :
           Sending(q)' => <<t.chat, t.id>> # <<sender'[q].chat, sender'[q].id>>
    <3> SUFFICES ASSUME NEW q \in Senders, NEW t \in threads, Sending(q)'
                 PROVE  <<t.chat, t.id>> # <<sender'[q].chat, sender'[q].id>>
      OBVIOUS
    <3>1. CASE q = s
      BY <2>4, <2>6, <2>12, <3>1
    <3>2. CASE q # s
      <4>1. Sending(q) /\ sender'[q] = sender[q]
        BY <2>6, <2>7, <3>2
      <4> QED
        BY <1>0, <4>1 DEF KeepersInv
    <3> QED
      BY <3>1, <3>2
  <2>15. \A p, q \in Senders :
           /\ Sending(p)' /\ Sending(q)'
           /\ <<sender'[p].chat, sender'[p].id>> = <<sender'[q].chat, sender'[q].id>>
           => p = q
    BY <1>0, <2>4, <2>6, <2>7, <2>13 DEF KeepersInv
  <2>16. KeepersInv'
    BY <1>0, <2>1, <2>5, <2>6, <2>9, <2>10, <2>11, <2>14, <2>15 DEF KeepersInv
  <2>17. ASSUME botAlive', NEW d \in Chats, NEW j \in DOMAIN chat'[d], chat'[d][j] = "promised"
         PROVE  \/ \E q \in Senders : Sending(q)' /\ sender'[q].chat = d /\ sender'[q].id = j
                \/ \E t \in threads' : t.at = "asleep" /\ t.chat = d /\ t.id = j
                \/ Shared(d, j)'
    <3>1. CASE d = c /\ j = i
      BY <2>4, <2>6, <2>7, <3>1
    <3>2. CASE ~(d = c /\ j = i)
      <4>1. j \in DOMAIN chat[d] /\ chat[d][j] = "promised"
        BY <2>5, <2>17, <3>2
      <4>2. Shared(d, j) => Shared(d, j)'
        BY <2>8 DEF Shared
      <4>3. \A q \in Senders : Sending(q) => Sending(q)' /\ sender'[q] = sender[q]
        BY <2>1, <2>6, <2>7
      <4> QED
        BY <1>0, <2>1, <2>17, <4>1, <4>2, <4>3 DEF PromisesAreKept
    <3> QED
      BY <3>1, <3>2
  <2> QED
    BY <2>16, <2>17 DEF PromisesAreKept
<1>2. ASSUME NEW s \in Senders, Messages!Schedule(s)
      PROVE  KeepersInv' /\ PromisesAreKept'
  <2> DEFINE m == sender[s]
  <2>1. m.at = "sent" /\ UNCHANGED botAlive /\ Sending(s) /\ s \in DOMAIN sender
    BY <1>0, <1>2 DEF Messages!Schedule, Sending, KeepersInv
  <2>2. m \in Held /\ m.chat \in Chats /\ m.id \in DOMAIN chat[m.chat]
    BY <1>0, <2>1 DEF KeepersInv
  <2>3. CASE <<m.user, m.id>> \in tasks
    <3>1. sender' = [sender EXCEPT ![s] = Messages!Idle] /\ threads' = threads /\ chat' = chat
      BY <1>2, <2>3 DEF Messages!Schedule
    <3>2. KeepersInv'
      BY <1>0, <2>1, <3>1, KeepersStay DEF KeepersInv
    <3>3. PICK t \in threads : <<m.user, m.id>> = <<t.user, t.id>>
      BY <1>0, <2>3 DEF PlacesInv
    <3>4. t.chat \in Chats \ {m.chat} /\ m.id \in DOMAIN chat[t.chat]
      BY <1>0, <2>1, <3>3 DEF KeepersInv
    <3>5. Shared(m.chat, m.id)
      BY <3>4 DEF Shared
    <3>6. \A q \in Senders \ {s} : sender'[q] = sender[q]
      BY <1>0, <3>1 DEF KeepersInv
    <3>7. \A q \in Senders : Sending(q) /\ q # s => Sending(q)' /\ sender'[q] = sender[q]
      BY <3>6 DEF Sending
    <3>8. \A c, i : Shared(c, i)' = Shared(c, i)
      BY <3>1 DEF Shared
    <3>9. PromisesAreKept'
      BY <1>0, <2>1, <3>1, <3>5, <3>7, <3>8 DEF PromisesAreKept
    <3> QED
      BY <3>2, <3>9
  <2>4. CASE sender' = [sender EXCEPT ![s].at = "full"] /\ threads' = threads /\ chat' = chat
    <3> DEFINE x == [sender[s] EXCEPT !.at = "full"]
    <3>1. /\ x \in Held /\ x.at = "full" /\ x.chat = m.chat /\ x.id = m.id
          /\ sender' = [sender EXCEPT ![s] = x]
      BY <2>2, <2>4
    <3> HIDE DEF x
    <3>2. sender'[s] = x /\ DOMAIN sender' = Senders
          /\ \A q \in Senders \ {s} : sender'[q] = sender[q]
      BY <1>0, <3>1 DEF KeepersInv
    <3>3. \A q \in Senders : /\ Sending(q)' = Sending(q)
                             /\ sender'[q].chat = sender[q].chat /\ sender'[q].id = sender[q].id
                             /\ sender'[q] \in Held
      BY <1>0, <2>1, <3>1, <3>2 DEF Sending, KeepersInv
    <3>a. \A q \in Senders : Sending(q)' =>
            sender'[q].chat \in Chats /\ sender'[q].id \in DOMAIN chat[sender'[q].chat]
      BY <1>0, <3>3 DEF KeepersInv
    <3>b. \A q \in Senders, t \in threads :
            Sending(q)' => <<t.chat, t.id>> # <<sender'[q].chat, sender'[q].id>>
      BY <1>0, <3>3 DEF KeepersInv
    <3>c. \A p, q \in Senders :
            /\ Sending(p)' /\ Sending(q)'
            /\ <<sender'[p].chat, sender'[p].id>> = <<sender'[q].chat, sender'[q].id>>
            => p = q
      BY <1>0, <3>3 DEF KeepersInv
    <3>4. KeepersInv'
      BY <1>0, <2>1, <2>4, <3>2, <3>3, <3>a, <3>b, <3>c DEF KeepersInv
    <3>5. \A c, i : Shared(c, i)' = Shared(c, i)
      BY <2>4 DEF Shared
    <3>6. PromisesAreKept'
      BY <1>0, <2>1, <2>4, <3>3, <3>5 DEF PromisesAreKept
    <3> QED
      BY <3>4, <3>6
  <2>5. ASSUME NEW at, Messages!Take(m, at),
               sender' = [sender EXCEPT ![s] = Messages!Idle],
               chat' \in [Chats -> Seq(States)],
               \A d \in Chats : DOMAIN chat'[d] = DOMAIN chat[d],
               \A d \in Chats : \A j \in DOMAIN chat[d] :
                 chat'[d][j] = "promised" =>
                   /\ chat[d][j] = "promised"
                   /\ at = "asleep" \/ <<d, j>> # <<m.chat, m.id>>
        PROVE  KeepersInv' /\ PromisesAreKept'
    <3> DEFINE new == [user |-> m.user, chat |-> m.chat, id |-> m.id, at |-> at]
    <3>1. /\ new.at = at /\ new.chat = m.chat /\ new.id = m.id
          /\ DOMAIN new = {"user", "chat", "id", "at"}
          /\ threads' = threads \cup {new}
      BY <2>5 DEF Messages!Take
    <3> HIDE DEF new
    <3>2. sender'[s] = [at |-> "idle", user |-> 0, chat |-> 0, id |-> 0]
          /\ DOMAIN sender' = Senders /\ \A q \in Senders \ {s} : sender'[q] = sender[q]
      BY <1>0, <2>5 DEF KeepersInv, Messages!Idle
    <3>3. ~Sending(s)' /\ \A q \in Senders \ {s} : Sending(q)' = Sending(q)
      BY <3>2 DEF Sending
    <3>4. \A q \in Senders : sender'[q] \in Held
      BY <1>0, <3>2 DEF KeepersInv
    <3>5. \A q \in Senders \ {s} : Sending(q) =>
            <<sender[q].chat, sender[q].id>> # <<m.chat, m.id>>
      BY <1>0, <2>1 DEF KeepersInv
    <3>6. \A q \in Senders, t \in threads' :
            Sending(q)' => <<t.chat, t.id>> # <<sender'[q].chat, sender'[q].id>>
      BY <1>0, <2>5, <3>1, <3>2, <3>3, <3>5 DEF KeepersInv
    <3>7. \A t \in threads' : /\ DOMAIN t = {"user", "chat", "id", "at"}
                              /\ t.chat \in Chats /\ t.id \in DOMAIN chat[t.chat]
      BY <1>0, <2>2, <2>5, <3>1 DEF KeepersInv
    <3>8. \A q \in Senders : Sending(q)' =>
            sender'[q].chat \in Chats /\ sender'[q].id \in DOMAIN chat[sender'[q].chat]
      BY <1>0, <3>2, <3>3 DEF KeepersInv
    <3>9. \A p, q \in Senders :
            /\ Sending(p)' /\ Sending(q)'
            /\ <<sender'[p].chat, sender'[p].id>> = <<sender'[q].chat, sender'[q].id>>
            => p = q
      BY <1>0, <3>2, <3>3 DEF KeepersInv
    <3>10. KeepersInv'
      BY <1>0, <2>5, <3>2, <3>4, <3>6, <3>7, <3>8, <3>9 DEF KeepersInv
    <3>11. \A c, i : Shared(c, i) => Shared(c, i)'
      BY <2>5 DEF Shared
    <3>12. ASSUME botAlive', NEW d \in Chats, NEW j \in DOMAIN chat'[d], chat'[d][j] = "promised"
           PROVE  \/ \E q \in Senders : Sending(q)' /\ sender'[q].chat = d /\ sender'[q].id = j
                  \/ \E t \in threads' : t.at = "asleep" /\ t.chat = d /\ t.id = j
                  \/ Shared(d, j)'
      <4>1. j \in DOMAIN chat[d] /\ chat[d][j] = "promised"
        BY <2>5, <3>12
      <4>2. CASE d = m.chat /\ j = m.id
        BY <2>5, <3>1, <3>12, <4>1, <4>2
      <4>3. CASE ~(d = m.chat /\ j = m.id)
        <5>1. \/ \E q \in Senders : Sending(q) /\ sender[q].chat = d /\ sender[q].id = j
              \/ \E t \in threads : t.at = "asleep" /\ t.chat = d /\ t.id = j
              \/ Shared(d, j)
          BY <1>0, <2>1, <3>12, <4>1 DEF PromisesAreKept
        <5> QED
          BY <3>1, <3>2, <3>3, <3>11, <4>3, <5>1
      <4> QED
        BY <4>2, <4>3
    <3> QED
      BY <3>10, <3>12 DEF PromisesAreKept
  <2>6. CASE sender' = [sender EXCEPT ![s] = Messages!Idle] /\ Messages!Take(m, "asleep") /\ chat' = chat
    BY <1>0, <2>5, <2>6 DEF KeepersInv
  <2>7. CASE /\ sender' = [sender EXCEPT ![s] = Messages!Idle] /\ Messages!Take(m, "unstarted")
             /\ Messages!Mark(m.chat, m.id, "unknown")
    <3>1. /\ chat' \in [Chats -> Seq(States)]
          /\ \A d \in Chats : DOMAIN chat'[d] = DOMAIN chat[d]
          /\ \A d \in Chats : \A j \in DOMAIN chat[d] :
               chat'[d][j] = "promised" => chat[d][j] = "promised" /\ <<d, j>> # <<m.chat, m.id>>
      BY <1>0, <2>2, <2>7, MarkEffect
    <3> QED
      BY <2>5, <2>7, <3>1
  <2> QED
    BY <1>2, <2>3, <2>4, <2>6, <2>7 DEF Messages!Schedule
<1>3. ASSUME NEW s \in Senders, Messages!Warn(s)
      PROVE  KeepersInv' /\ PromisesAreKept'
  <2> DEFINE m == sender[s]
  <2>1. /\ sender' = [sender EXCEPT ![s] = Messages!Idle] /\ threads' = threads
        /\ botAlive' = botAlive /\ m.at = "full"
    BY <1>3 DEF Messages!Warn
  <2>2. Sending(s)
    BY <2>1 DEF Sending
  <2>3. m.chat \in Chats /\ m.id \in DOMAIN chat[m.chat]
    BY <1>0, <2>2 DEF KeepersInv
  <2>4. PICK state \in {"warned", "unknown"} : Messages!Mark(m.chat, m.id, state)
    BY <1>3 DEF Messages!Warn
  <2>5. /\ chat' \in [Chats -> Seq(States)]
        /\ \A d \in Chats : DOMAIN chat'[d] = DOMAIN chat[d]
        /\ \A d \in Chats : \A j \in DOMAIN chat[d] :
             chat'[d][j] = "promised" => chat[d][j] = "promised" /\ <<d, j>> # <<m.chat, m.id>>
    BY <1>0, <2>3, <2>4, MarkEffect
  <2>6. KeepersInv'
    BY <1>0, <2>1, <2>5, KeepersStay
  <2>7. \A q \in Senders \ {s} : Sending(q)' = Sending(q) /\ sender'[q] = sender[q]
    BY <1>0, <2>1 DEF KeepersInv, Sending
  <2>8. \A c, i : Shared(c, i) => Shared(c, i)'
    BY <2>5 DEF Shared
  <2>9. ASSUME botAlive', NEW d \in Chats, NEW j \in DOMAIN chat'[d], chat'[d][j] = "promised"
        PROVE  \/ \E q \in Senders : Sending(q)' /\ sender'[q].chat = d /\ sender'[q].id = j
               \/ \E t \in threads' : t.at = "asleep" /\ t.chat = d /\ t.id = j
               \/ Shared(d, j)'
    <3>1. j \in DOMAIN chat[d] /\ chat[d][j] = "promised" /\ <<d, j>> # <<m.chat, m.id>>
      BY <2>5, <2>9
    <3>2. \/ \E q \in Senders : Sending(q) /\ sender[q].chat = d /\ sender[q].id = j
          \/ \E t \in threads : t.at = "asleep" /\ t.chat = d /\ t.id = j
          \/ Shared(d, j)
      BY <1>0, <2>1, <2>9, <3>1 DEF PromisesAreKept
    <3> QED
      BY <2>1, <2>7, <2>8, <3>1, <3>2
  <2> QED
    BY <2>6, <2>9 DEF PromisesAreKept
<1>4. ASSUME NEW t \in threads, Messages!Execute(t)
      PROVE  KeepersInv' /\ PromisesAreKept'
  <2> DEFINE new == [t EXCEPT !.at = "finishing"]
  <2>1. /\ threads' = (threads \ {t}) \cup {new} /\ UNCHANGED <<sender, botAlive>>
        /\ t.at = "asleep"
    BY <1>4 DEF Messages!Execute, Messages!Replace
  <2>2. DOMAIN t = {"user", "chat", "id", "at"} /\ t.chat \in Chats /\ t.id \in DOMAIN chat[t.chat]
    BY <1>0 DEF KeepersInv
  <2>3. /\ DOMAIN new = {"user", "chat", "id", "at"} /\ new.at = "finishing"
        /\ new.chat = t.chat /\ new.id = t.id
    BY <2>2
  <2> HIDE DEF new
  <2>4. /\ chat' \in [Chats -> Seq(States)]
        /\ \A d \in Chats : DOMAIN chat'[d] = DOMAIN chat[d]
        /\ botAlive => \A d \in Chats : \A j \in DOMAIN chat[d] :
             chat'[d][j] = "promised" => chat[d][j] = "promised" /\ <<d, j>> # <<t.chat, t.id>>
    <3>1. CASE botAlive
      <4>1. PICK state \in {"deleted", "failed"} : Messages!Mark(t.chat, t.id, state)
        BY <1>4, <3>1 DEF Messages!Execute
      <4> QED
        BY <1>0, <2>2, <4>1, MarkEffect
    <3>2. CASE ~botAlive
      <4>1. chat' = chat
        BY <1>4, <3>2 DEF Messages!Execute
      <4> QED
        BY <1>0, <3>2, <4>1 DEF KeepersInv
    <3> QED
      BY <3>1, <3>2
  <2>5. \A q \in Senders : Sending(q)' = Sending(q)
    BY <2>1 DEF Sending
  <2>6. \A q \in Senders, v \in threads' :
          Sending(q) => <<v.chat, v.id>> # <<sender[q].chat, sender[q].id>>
    BY <1>0, <2>1, <2>3 DEF KeepersInv
  <2>7. \A v \in threads' : /\ DOMAIN v = {"user", "chat", "id", "at"}
                            /\ v.chat \in Chats /\ v.id \in DOMAIN chat'[v.chat]
    BY <1>0, <2>1, <2>2, <2>3, <2>4 DEF KeepersInv
  <2>8. KeepersInv'
    BY <1>0, <2>1, <2>4, <2>5, <2>6, <2>7 DEF KeepersInv
  <2>9. \A c, i : Shared(c, i) => Shared(c, i)'
    BY <2>4 DEF Shared
  <2>10. PromisesAreKept'
    BY <1>0, <2>1, <2>4, <2>5, <2>9 DEF PromisesAreKept
  <2> QED
    BY <2>8, <2>10
<1>5. ASSUME NEW t \in threads, Messages!Finish(t)
      PROVE  KeepersInv' /\ PromisesAreKept'
  <2>1. threads' = threads \ {t} /\ t.at = "finishing" /\ UNCHANGED <<sender, chat, botAlive>>
    BY <1>5 DEF Messages!Finish
  <2>2. /\ \A q \in Senders : Sending(q)' = Sending(q)
        /\ \A c, i : Shared(c, i)' = Shared(c, i)
    BY <2>1 DEF Sending, Shared
  <2> QED
    BY <1>0, <2>1, <2>2 DEF KeepersInv, PromisesAreKept
<1>6. CASE UNCHANGED <<threads, sender, chat>> /\ (botAlive' => botAlive)
  <2>1. /\ \A q \in Senders : Sending(q)' = Sending(q)
        /\ \A c, i : Shared(c, i)' = Shared(c, i)
    BY <1>6 DEF Sending, Shared
  <2> QED
    BY <1>0, <1>6, <2>1 DEF KeepersInv, PromisesAreKept
<1>7. CASE Messages!BotGoes
  BY <1>6, <1>7 DEF Messages!BotGoes
<1>8. CASE Messages!Cleanup
  BY <1>6, <1>8 DEF Messages!Cleanup
<1>9. CASE UNCHANGED messageVars
  BY <1>6, <1>9 DEF messageVars
<1> QED
  BY <1>1, <1>2, <1>3, <1>4, <1>5, <1>7, <1>8, <1>9
     DEF Messages!DeletionNext, Messages!SenderStep, Messages!ThreadStep

\* The safety of the promise: while the bot is there, a message that promises
\* to delete itself is in the hands of the handler that sends it or of a thread
\* that will delete it; only one whose number another chat uses too may be
\* taken for scheduled already (schedule_deletion: the key has no chat).
THEOREM PromisesHaveKeepers == MCSpec => []PromisesAreKept
<1>1. PromisesInv => PromisesAreKept
  BY DEF PromisesInv
<1> QED
  BY <1>1, PromisesInit, PromisesNext, PartsInit, PartsStep, PTL DEF MCSpec
=============================================================================
