------------------------ MODULE HealthMonitor_proofs ------------------------
(***************************************************************************)
(* What /health says, for every set of checkers, every interval and every  *)
(* duration of a cycle of checks.                                          *)
(***************************************************************************)
EXTENDS HealthMonitor, FiniteSetTheorems, TLAPS

\* The result of a checker, and a snapshot: results of checkers, with a
\* critical one of the monitor itself after a cycle that failed.
Result == [level : Levels, age : Nat]

IsSnapshot(s) ==
    /\ s = [c \in DOMAIN s |-> s[c]]
    /\ DOMAIN s \subseteq Components \cup {Self}
    /\ \A c \in DOMAIN s : s[c] \in Result
    /\ Self \in DOMAIN s => s[Self].level = Critical

\* What holds of the loop and its snapshots.  A result that is not due is
\* younger than its interval; from there its age grows with the time spent in
\* cycles of checks and with the part of the pause that is over.
HealthInv ==
    /\ loop \in {"new", "testing", "checking", "waiting", "ended"}
    /\ running \in BOOLEAN /\ pause \in Nat /\ spent \in 0 .. CheckTime
    /\ loop # "waiting" => pause = 0
    /\ loop # "checking" => spent = 0
    /\ due \subseteq Components
    /\ IsSnapshot(latest) /\ IsSnapshot(draft)
    /\ DOMAIN latest = {} \/ Self \in DOMAIN latest \/ Components \subseteq DOMAIN latest
    /\ loop = "checking" =>
         /\ Self \in DOMAIN draft <=> Self \in DOMAIN latest
         /\ Components \ due \subseteq DOMAIN draft
    /\ Self \notin DOMAIN latest =>
         \A c \in DOMAIN latest :
           latest[c].age + pause < Interval[c] + BaseInterval + CheckTime + spent
    /\ loop = "checking" /\ Self \notin DOMAIN draft =>
         \A c \in DOMAIN draft \ due : draft[c].age < Interval[c] + spent

LEMMA Constants ==
    /\ \A c \in Components : Interval[c] \in Nat /\ Interval[c] >= 1
    /\ BaseInterval \in Nat /\ CheckTime \in Nat
    /\ Components \subseteq Checkers /\ Self \notin Components
BY HealthConstants DEF Checkers, Self

----------------------------------------------------------------------------
(* Levels.                                                                  *)

\* Every checker comes to a level, whatever it finds.
LEMMA LevelTypes ==
  ASSUME NEW c \in Components, NEW r
  PROVE  Level(c, r) \in Levels
<1>2. TelegramLevel(r) \in Levels
  BY DEF TelegramLevel, Grade, Levels
<1>3. PollingLevel(r) \in Levels
  BY DEF PollingLevel, Levels
<1>4. ResourceLevel(r) \in Levels
  BY DEF ResourceLevel, Grade, Levels
<1>5. SessionLevel(r) \in Levels
  BY DEF SessionLevel, Grade, Levels
<1>6. TemplateLevel(r) \in Levels
  BY Zenon DEF TemplateLevel, Grade, Levels
<1>7. Judged(c, r) \in Levels
  <2>1. c \in Checkers
    BY Constants
  <2>2. CASE c = "telegram_api"
    BY <1>2, <2>2 DEF Judged
  <2>3. CASE c = "polling"
    BY <1>3, <2>3 DEF Judged
  <2>4. CASE c = "system_resources"
    BY <1>4, <2>4 DEF Judged
  <2>5. CASE c = "sessions"
    BY <1>5, <2>5 DEF Judged
  <2>6. CASE c = "template_parser"
    BY <1>6, <2>6 DEF Judged
  <2> QED
    BY <2>1, <2>2, <2>3, <2>4, <2>5, <2>6 DEF Checkers
<1>8. Offline \in Levels /\ Critical \in Levels
  BY DEF Levels
<1> QED
  BY <1>7, <1>8, Zenon DEF Level

\* The least of some levels is one of them, and they are not below it.
LEMMA LeastLevel ==
  ASSUME NEW S, S \subseteq Levels, S # {}
  PROVE  Min(S) \in S /\ \A x \in S : Min(S) <= x
<1> USE DEF Levels, Healthy, Degraded, Unhealthy, Critical, Offline
<1>1. \E x \in S : \A y \in S : x <= y
  <2>1. CASE 0 \in S
    BY <2>1
  <2>2. CASE 25 \in S /\ 0 \notin S
    BY <2>2
  <2>3. CASE 50 \in S /\ 25 \notin S /\ 0 \notin S
    BY <2>3
  <2>4. CASE 75 \in S /\ 50 \notin S /\ 25 \notin S /\ 0 \notin S
    BY <2>4
  <2>5. CASE 75 \notin S /\ 50 \notin S /\ 25 \notin S /\ 0 \notin S
    <3>1. \E x \in S : TRUE
      OBVIOUS
    <3> QED
      BY <2>5, <3>1
  <2> QED
    BY <2>1, <2>2, <2>3, <2>4, <2>5
<1> QED
  BY <1>1 DEF Min
----------------------------------------------------------------------------
(* Snapshots.                                                               *)

LEMMA EntryTypes ==
  ASSUME NEW s, IsSnapshot(s), NEW c \in DOMAIN s
  PROVE  /\ s[c].level \in Levels /\ s[c].age \in Nat
         /\ DOMAIN s[c] = {"level", "age"}
BY DEF IsSnapshot, Result

\* A new result takes the place of the old one and leaves the others.
LEMMA Entering ==
  ASSUME NEW s, IsSnapshot(s), NEW c \in Components \cup {Self}, NEW r \in Result,
         c = Self => r.level = Critical
  PROVE  /\ IsSnapshot(Enter(s, c, r))
         /\ DOMAIN Enter(s, c, r) = DOMAIN s \cup {c}
         /\ Enter(s, c, r)[c] = r
         /\ \A d \in DOMAIN s \ {c} : Enter(s, c, r)[d] = s[d]
<1> DEFINE t == Enter(s, c, r)
<1>1. /\ DOMAIN t = DOMAIN s \cup {c} /\ t[c] = r
      /\ \A d \in DOMAIN s \ {c} : t[d] = s[d]
      /\ t = [d \in DOMAIN t |-> t[d]]
  BY DEF Enter
<1> HIDE DEF t
<1>2. \A d \in DOMAIN t : t[d] \in Result
  BY <1>1 DEF IsSnapshot
<1>3. DOMAIN t \subseteq Components \cup {Self}
  BY <1>1 DEF IsSnapshot
<1>4. Self \in DOMAIN t => t[Self].level = Critical
  BY <1>1 DEF IsSnapshot
<1>5. IsSnapshot(t)
  BY <1>1, <1>2, <1>3, <1>4 DEF IsSnapshot
<1> QED
  BY <1>1, <1>5 DEF t

\* A tick makes no result older than by one, and changes no level.
LEMMA Aging ==
  ASSUME NEW s, IsSnapshot(s)
  PROVE  /\ IsSnapshot(Aged(s))
         /\ DOMAIN Aged(s) = DOMAIN s
         /\ \A c \in DOMAIN s : Aged(s)[c].age <= s[c].age + 1 /\ Aged(s)[c].age \in Nat
<1> DEFINE t == Aged(s)
<1>1. DOMAIN t = DOMAIN s /\ t = [c \in DOMAIN t |-> t[c]]
  BY DEF Aged
<1>2. ASSUME NEW c \in DOMAIN s
      PROVE  /\ t[c] \in Result /\ t[c].level = s[c].level
             /\ t[c].age <= s[c].age + 1 /\ t[c].age \in Nat
  <2> DEFINE old == s[c].age
             new == IF c = Self THEN old ELSE Older(old)
  <2>1. s[c] \in Result /\ old \in Nat
    BY EntryTypes DEF IsSnapshot
  <2>2. Older(old) \in Nat /\ Older(old) <= old + 1
    BY <2>1 DEF Older
  <2>3. new \in Nat /\ new <= old + 1
    BY <2>1, <2>2
  <2>4. t[c] = [s[c] EXCEPT !.age = new]
    BY DEF Aged
  <2> HIDE DEF new
  <2>5. t[c] \in Result /\ t[c].level = s[c].level /\ t[c].age = new
    BY <2>1, <2>3, <2>4 DEF Result
  <2> QED
    BY <2>3, <2>5
<1> HIDE DEF t
<1>3. IsSnapshot(t)
  BY <1>1, <1>2 DEF IsSnapshot
<1> QED
  BY <1>1, <1>2, <1>3 DEF t

LEMMA EmptySnapshot == IsSnapshot(NoSnapshot) /\ DOMAIN NoSnapshot = {}
<1>1. DOMAIN NoSnapshot = {} /\ NoSnapshot = [c \in DOMAIN NoSnapshot |-> NoSnapshot[c]]
  BY DEF NoSnapshot
<1> HIDE DEF NoSnapshot
<1> QED
  BY <1>1 DEF IsSnapshot, NoSnapshot

LEMMA Pauses == \A overall : PauseAfter(overall) \in Nat /\ PauseAfter(overall) <= BaseInterval
  BY Constants DEF PauseAfter

----------------------------------------------------------------------------
(* The loop.                                                                *)

LEMMA HealthStarts == HealthInit => HealthInv
<1> SUFFICES ASSUME HealthInit PROVE HealthInv
  OBVIOUS
<1>1. IsSnapshot(latest) /\ IsSnapshot(draft) /\ DOMAIN latest = {}
  BY EmptySnapshot DEF HealthInit
<1>2. /\ loop = "new" /\ pause = 0 /\ spent = 0 /\ due = {} /\ running = FALSE
      /\ 0 \in 0 .. CheckTime
  BY Constants DEF HealthInit
<1> QED
  BY <1>1, <1>2 DEF HealthInv

LEMMA HealthStep == HealthInv /\ [HealthNext]_healthVars => HealthInv'
<1> SUFFICES ASSUME HealthInv, [HealthNext]_healthVars PROVE HealthInv'
  OBVIOUS
<1>0. /\ IsSnapshot(latest) /\ IsSnapshot(draft) /\ due \subseteq Components
      /\ \A c \in DOMAIN latest : latest[c].age \in Nat
      /\ \A c \in DOMAIN draft : draft[c].age \in Nat
      /\ pause \in Nat /\ spent \in Nat /\ CheckTime \in Nat /\ BaseInterval \in Nat
      /\ \A c \in Components : Interval[c] \in Nat
      /\ Self \notin DOMAIN latest => DOMAIN latest \subseteq Components
      /\ Self \notin DOMAIN draft => DOMAIN draft \subseteq Components
  BY Constants, EntryTypes DEF HealthInv, IsSnapshot
<1>1. CASE StartMonitoring
  BY <1>1 DEF StartMonitoring, HealthInv
<1>2. CASE StopMonitoring
  BY <1>2 DEF StopMonitoring, HealthInv
<1>3. CASE BeginCycle
  <2>1. CASE Due = {} /\ latest # NoSnapshot
    <3>1. /\ loop' = "waiting" /\ pause' = PauseAfter(OverallOf(latest)) /\ spent' = 0
          /\ due' = {} /\ UNCHANGED <<latest, draft, running>>
      BY <1>3, <2>1 DEF BeginCycle, Wait
    <3>2. pause' \in Nat /\ pause' <= BaseInterval
      BY <3>1, Pauses
    <3>3. \A c \in Components : c \in DOMAIN latest /\ ~(latest[c].age >= Interval[c])
      BY <2>1 DEF Due
    <3>4. Self \notin DOMAIN latest => \A c \in DOMAIN latest :
            latest[c].age + pause' < Interval[c] + BaseInterval + CheckTime + 0
      BY <1>0, <3>2, <3>3
    <3> QED
      BY <1>0, <3>1, <3>2, <3>4 DEF HealthInv
  <2>2. CASE ~(Due = {} /\ latest # NoSnapshot)
    <3>1. /\ loop = "testing" /\ loop' = "checking" /\ spent' = 0 /\ draft' = latest
          /\ due' = Due /\ UNCHANGED <<latest, pause, running>>
      BY <1>3, <2>2 DEF BeginCycle
    <3>2. /\ Due \subseteq Components /\ Components \ Due \subseteq DOMAIN latest
          /\ \A c \in Components \ Due : ~(latest[c].age >= Interval[c])
      BY DEF Due
    <3>3. Self \notin DOMAIN latest =>
            \A c \in DOMAIN latest \ Due : latest[c].age < Interval[c] + 0
      BY <1>0, <3>2
    <3>4. spent = 0 /\ 0 \in 0 .. CheckTime
      BY <1>0, <3>1 DEF HealthInv
    <3> QED
      BY <1>0, <3>1, <3>2, <3>3, <3>4 DEF HealthInv
  <2> QED
    BY <2>1, <2>2
<1>4. ASSUME NEW c \in Components, Check(c) PROVE HealthInv'
  <2>1. /\ loop = "checking" /\ due' = due \ {c} /\ draft' = Enter(draft, c, Found(c))
        /\ UNCHANGED <<latest, loop, pause, spent, running>>
    BY <1>4 DEF Check
  <2>2. c # Self
    BY Constants
  <2>3. Found(c) \in Result /\ Found(c).age = 0
    BY LevelTypes DEF Found, Result
  <2>4. /\ IsSnapshot(draft') /\ DOMAIN draft' = DOMAIN draft \cup {c}
        /\ draft'[c] = Found(c)
        /\ \A d \in DOMAIN draft \ {c} : draft'[d] = draft[d]
    <3> DEFINE r == Found(c)
    <3>1. IsSnapshot(draft) /\ c \in Components \cup {Self} /\ r \in Result
          /\ (c = Self => r.level = Critical)
      BY <1>0, <2>2, <2>3
    <3> HIDE DEF r
    <3>2. draft' = Enter(draft, c, r)
      BY <2>1 DEF r
    <3> DEFINE t == Enter(draft, c, r)
    <3>3. /\ IsSnapshot(t) /\ DOMAIN t = DOMAIN draft \cup {c}
          /\ t[c] = r /\ \A d \in DOMAIN draft \ {c} : t[d] = draft[d]
      BY <3>1, Entering
    <3> HIDE DEF t
    <3> QED
      BY <3>2, <3>3 DEF r, t
  <2>5. ASSUME Self \notin DOMAIN draft', NEW d \in DOMAIN draft' \ due'
        PROVE  draft'[d].age < Interval[d] + spent
    <3>1. CASE d = c
      BY <1>0, <2>3, <2>4, <3>1, Constants
    <3>2. CASE d # c
      BY <2>1, <2>4, <2>5, <3>2 DEF HealthInv
    <3> QED
      BY <3>1, <3>2
  <2>6. Components \ due' \subseteq DOMAIN draft' /\ due' \subseteq Components
    BY <2>1, <2>4 DEF HealthInv
  <2>7. Self \in DOMAIN draft' <=> Self \in DOMAIN latest
    BY <2>1, <2>2, <2>4 DEF HealthInv
  <2> QED
    BY <2>1, <2>4, <2>5, <2>6, <2>7 DEF HealthInv
<1>5. CASE Publish
  <2>1. /\ loop = "checking" /\ due = {} /\ latest' = draft /\ draft' = NoSnapshot
        /\ loop' = "waiting" /\ pause' = PauseAfter(OverallOf(draft)) /\ spent' = 0
        /\ UNCHANGED <<due, running>>
    BY <1>5 DEF Publish, Wait
  <2>2. pause' \in Nat /\ pause' <= BaseInterval
    BY <2>1, Pauses
  <2>3. Components \subseteq DOMAIN draft /\ spent <= CheckTime
    BY <2>1 DEF HealthInv
  <2>4. ASSUME Self \notin DOMAIN draft, NEW c \in DOMAIN draft
        PROVE  draft[c].age + pause' < Interval[c] + BaseInterval + CheckTime + 0
    <3>1. draft[c].age < Interval[c] + spent
      BY <2>1, <2>4 DEF HealthInv
    <3>2. draft[c].age \in Nat /\ Interval[c] \in Nat
      BY <1>0, <2>4
    <3> QED
      BY <1>0, <2>2, <2>3, <3>1, <3>2
  <2> QED
    BY <1>0, <2>1, <2>2, <2>3, <2>4, EmptySnapshot DEF HealthInv
<1>6. CASE CycleFails
  <2> DEFINE r == [level |-> Critical, age |-> 0]
  <2>1. /\ due' = {} /\ draft' = NoSnapshot
        /\ loop' = "waiting" /\ pause' = BaseInterval /\ spent' = 0 /\ UNCHANGED running
        /\ latest' = Enter(latest, Self, r) \/ latest' = Enter(draft, Self, r)
    BY <1>6 DEF CycleFails, Wait
  <2>2. r \in Result /\ r.level = Critical
    BY DEF Result, Levels
  <2> HIDE DEF r
  <2>3. IsSnapshot(latest') /\ Self \in DOMAIN latest'
    <3>1. ASSUME NEW s, IsSnapshot(s)
          PROVE  IsSnapshot(Enter(s, Self, r)) /\ Self \in DOMAIN Enter(s, Self, r)
      <4>1. Self \in Components \cup {Self} /\ Self \in DOMAIN s \cup {Self}
        OBVIOUS
      <4> QED
        BY <2>2, <3>1, <4>1, Entering, Zenon
    <3> QED
      BY <1>0, <2>1, <3>1
  <2> QED
    BY <1>0, <2>1, <2>3, EmptySnapshot DEF HealthInv
<1>7. CASE Wake
  <2>1. /\ loop = "waiting" /\ loop' = "testing" /\ pause' = 0
        /\ UNCHANGED <<latest, draft, due, spent, running>>
    BY <1>7 DEF Wake
  <2>2. Self \notin DOMAIN latest => \A c \in DOMAIN latest :
          latest[c].age + 0 < Interval[c] + BaseInterval + CheckTime + spent
    <3> SUFFICES ASSUME Self \notin DOMAIN latest, NEW c \in DOMAIN latest
                 PROVE  latest[c].age + 0 < Interval[c] + BaseInterval + CheckTime + spent
      OBVIOUS
    <3>1. latest[c].age + pause < Interval[c] + BaseInterval + CheckTime + spent
      BY DEF HealthInv
    <3>2. latest[c].age \in Nat /\ Interval[c] \in Nat
      BY <1>0
    <3> QED
      BY <1>0, <3>1, <3>2
  <2> QED
    BY <2>1, <2>2 DEF HealthInv
<1>8. CASE EndLoop
  BY <1>8 DEF EndLoop, HealthInv
<1>9. CASE Tick
  <2>1. /\ latest' = Aged(latest) /\ draft' = Aged(draft) /\ UNCHANGED <<due, loop, running>>
        /\ \/ loop = "waiting" /\ pause > 0 /\ pause' = pause - 1 /\ UNCHANGED spent
           \/ loop = "checking" /\ spent < CheckTime /\ spent' = spent + 1 /\ UNCHANGED pause
    BY <1>9 DEF Tick
  <2>2. /\ IsSnapshot(latest') /\ DOMAIN latest' = DOMAIN latest
        /\ IsSnapshot(draft') /\ DOMAIN draft' = DOMAIN draft
        /\ \A c \in DOMAIN latest : latest'[c].age <= latest[c].age + 1 /\ latest'[c].age \in Nat
        /\ \A c \in DOMAIN draft : draft'[c].age <= draft[c].age + 1 /\ draft'[c].age \in Nat
    BY <1>0, <2>1, Aging
  <2>3. /\ pause' \in Nat /\ spent' \in 0 .. CheckTime
        /\ loop' # "waiting" => pause' = 0
        /\ loop' # "checking" => spent' = 0
        /\ spent' \in Nat /\ spent' - pause' = spent - pause + 1
    BY <1>0, <2>1 DEF HealthInv
  <2>4. ASSUME Self \notin DOMAIN latest, NEW c \in DOMAIN latest
        PROVE  latest'[c].age + pause' < Interval[c] + BaseInterval + CheckTime + spent'
    <3>1. latest[c].age + pause < Interval[c] + BaseInterval + CheckTime + spent
      BY <2>4 DEF HealthInv
    <3>2. /\ latest[c].age \in Nat /\ Interval[c] \in Nat
          /\ latest'[c].age <= latest[c].age + 1 /\ latest'[c].age \in Nat
      BY <1>0, <2>2, <2>4
    <3>3. /\ pause \in Nat /\ spent \in Nat /\ CheckTime \in Nat /\ BaseInterval \in Nat
          /\ pause' \in Nat /\ spent' \in Nat /\ spent' - pause' = spent - pause + 1
      BY <1>0, <2>3
    <3>4. \A a, b, p, q, x, y, i, j, k \in Nat :
             a + p < i + j + k + x /\ b <= a + 1 /\ y - q = x - p + 1 => b + q < i + j + k + y
      OBVIOUS
    <3> QED
      BY <3>1, <3>2, <3>3, <3>4
  <2>5. ASSUME loop = "checking", Self \notin DOMAIN draft, NEW c \in DOMAIN draft \ due
        PROVE  draft'[c].age < Interval[c] + spent'
    <3>1. draft[c].age < Interval[c] + spent /\ spent' = spent + 1
      BY <2>1, <2>5 DEF HealthInv
    <3>2. /\ draft[c].age \in Nat /\ Interval[c] \in Nat
          /\ draft'[c].age <= draft[c].age + 1 /\ draft'[c].age \in Nat
      BY <1>0, <2>2, <2>5
    <3> QED
      BY <1>0, <3>1, <3>2
  <2> QED
    BY <2>1, <2>2, <2>3, <2>4, <2>5 DEF HealthInv
<1>10. CASE LogHealthStatus
  BY <1>10 DEF LogHealthStatus, HealthInv
<1>11. CASE \E c \in Components : Change(c)
  BY <1>11 DEF Change, HealthInv
<1>12. CASE UNCHANGED healthVars
  BY <1>12 DEF healthVars, HealthInv
<1> QED
  BY <1>1, <1>2, <1>3, <1>4, <1>5, <1>6, <1>7, <1>8, <1>9, <1>10, <1>11, <1>12
     DEF HealthNext, LoopStep
----------------------------------------------------------------------------
(* The screen.                                                              *)

\* The readings of the host and the counters of Docker.
LEMMA HostTypes ==
  ASSUME NEW h \in HostStates
  PROVE  /\ h.host.cpu \in Nat /\ h.host.memory \in Nat /\ h.host.load \in Nat
         /\ h.docker.total \in Nat /\ h.docker.stopped \in Nat
         /\ h.docker.total = 0 => h.docker.stopped = 0
BY HealthConstants

\* The monitor counts as healthy exactly when every result it has is.
LEMMA OverallHealthy ==
  ASSUME IsSnapshot(latest), DOMAIN latest # {}
  PROVE  /\ OverallOf(latest) \in Levels
         /\ OverallOf(latest) = Healthy <=> \A c \in DOMAIN latest : latest[c].level = Healthy
<1> DEFINE S == {latest[c].level : c \in DOMAIN latest}
           L == LevelsOf(latest)
<1>1. S \subseteq Levels /\ S # {}
  BY EntryTypes
<1>2. Min(S) \in S /\ \A x \in S : Min(S) <= x
  BY <1>1, LeastLevel
<1>3. Min(S) = Healthy <=> \A c \in DOMAIN latest : latest[c].level = Healthy
  <2>1. \A x \in S : x \in {0, 25, 50, 75, 100}
    BY <1>1 DEF Levels, Healthy, Degraded, Unhealthy, Critical, Offline
  <2>2. Min(S) = 100 <=> \A x \in S : x = 100
    <3>1. \A x \in S : Min(S) <= x /\ x <= 100 /\ Min(S) \in Nat /\ x \in Nat
      BY <1>2, <2>1
    <3>2. ASSUME Min(S) = 100, NEW x \in S PROVE x = 100
      <4>1. 100 <= x /\ x <= 100 /\ x \in Nat
        BY <3>1, <3>2
      <4> QED
        BY <4>1
    <3>3. (\A x \in S : x = 100) => Min(S) = 100
      BY <1>2
    <3> QED
      BY <3>2, <3>3
  <2> QED
    BY <2>2 DEF Healthy
<1>4. DOMAIN L = DOMAIN latest /\ {L[c] : c \in DOMAIN L} = S
  BY DEF LevelsOf
<1> HIDE DEF S, L
<1>5. CASE Self \in DOMAIN latest
  BY <1>1, <1>2, <1>3, <1>5 DEF OverallOf, S
<1>6. CASE Self \notin DOMAIN latest
  <2>1. OverallOf(latest) = Overall(L)
    BY <1>6 DEF OverallOf, L
  <2>2. Overall(L) = Min(S) \/ (Overall(L) = Degraded /\ Min(S) = Unhealthy)
    BY <1>4 DEF Overall
  <2>3. Min(S) \in Levels /\ Degraded \in Levels
    BY <1>1, <1>2 DEF Levels
  <2>4. Overall(L) \in Levels /\ (Overall(L) = Healthy <=> Min(S) = Healthy)
    BY <2>2, <2>3 DEF Healthy, Degraded, Unhealthy
  <2> QED
    BY <1>3, <2>1, <2>4
<1> QED
  BY <1>5, <1>6

\* The worst of some levels is "healthy" exactly when all are.
LEMMA WorstHealthy ==
  ASSUME NEW S, S \subseteq ViewLevels, S # {}
  PROVE  WorstLevel(S) = "healthy" <=> S = {"healthy"}
<1>1. \E l \in S : \A k \in S : Severity(k) <= Severity(l)
  <2>1. CASE "critical" \in S
    BY <2>1 DEF ViewLevels, Severity
  <2>2. CASE "critical" \notin S /\ "elevated" \in S
    BY <2>2 DEF ViewLevels, Severity
  <2>3. CASE "critical" \notin S /\ "elevated" \notin S
    <3>1. \E l \in S : TRUE
      OBVIOUS
    <3> QED
      BY <2>3, <3>1 DEF ViewLevels, Severity
  <2> QED
    BY <2>1, <2>2, <2>3
<1>2. WorstLevel(S) \in S /\ \A k \in S : Severity(k) <= Severity(WorstLevel(S))
  BY <1>1 DEF WorstLevel
<1>3. WorstLevel(S) = "healthy" => \A k \in S : k = "healthy"
  BY <1>2 DEF ViewLevels, Severity
<1>4. (\A k \in S : k = "healthy") => WorstLevel(S) = "healthy"
  BY <1>2
<1>5. (\A k \in S : k = "healthy") <=> S = {"healthy"}
  BY <1>2
<1> QED
  BY <1>3, <1>4, <1>5

\* The level of the screen, taken apart.
LEMMA ScreenHealthy ==
  ASSUME NEW h \in HostStates, IsSnapshot(latest), DOMAIN latest # {} \/ latest = NoSnapshot
  PROVE  Screen(h).level = "healthy" <=>
           /\ latest # NoSnapshot
           /\ \A c \in DOMAIN latest : latest[c].level = Healthy
           /\ h.host.cpu < 70 /\ h.host.memory < 70 /\ h.host.load < 100
           /\ h.docker.available /\ h.docker.stopped = 0
<1> DEFINE cpu == MetricLevel(h.host.cpu, 70, 85)
           memory == MetricLevel(h.host.memory, 70, 85)
           load == MetricLevel(h.host.load, 100, 150)
           docker == DockerLevel(h.docker)
           monitor == RuntimeLevel(ShownOverall)
<1>1. /\ cpu \in ViewLevels /\ (cpu = "healthy" <=> h.host.cpu < 70)
      /\ memory \in ViewLevels /\ (memory = "healthy" <=> h.host.memory < 70)
      /\ load \in ViewLevels /\ (load = "healthy" <=> h.host.load < 100)
  BY HostTypes DEF MetricLevel, ViewLevels
<1>2. docker \in ViewLevels /\ (docker = "healthy" <=> h.docker.available /\ h.docker.stopped = 0)
  BY HostTypes DEF DockerLevel, ViewLevels
<1>3. /\ monitor \in ViewLevels
      /\ monitor = "healthy" <=>
           latest # NoSnapshot /\ \A c \in DOMAIN latest : latest[c].level = Healthy
  <2>1. CASE latest = NoSnapshot
    <3>1. ShownOverall = -1
      BY <2>1 DEF ShownOverall
    <3>2. monitor = "elevated"
      BY <3>1 DEF RuntimeLevel, Healthy, Degraded, Unhealthy, Critical, Offline
    <3> QED
      BY <2>1, <3>2 DEF ViewLevels
  <2>2. CASE latest # NoSnapshot
    <3>1. ShownOverall = OverallOf(latest) /\ DOMAIN latest # {}
      BY <2>2 DEF ShownOverall
    <3>2. ShownOverall \in {100, 75, 50, 25, 0}
      BY <3>1, OverallHealthy DEF Levels, Healthy, Degraded, Unhealthy, Critical, Offline
    <3>3. monitor \in ViewLevels /\ (monitor = "healthy" <=> ShownOverall = Healthy)
      BY <3>2 DEF RuntimeLevel, ViewLevels, Healthy, Degraded, Unhealthy, Critical, Offline
    <3> QED
      BY <2>2, <3>1, <3>3, OverallHealthy
  <2> QED
    BY <2>1, <2>2
<1>4. Screen(h).level = WorstLevel({cpu, memory, load, docker, monitor})
  BY DEF Screen, ShownLevel
<1> HIDE DEF cpu, memory, load, docker, monitor
<1>5. Screen(h).level = "healthy" <=>
        cpu = "healthy" /\ memory = "healthy" /\ load = "healthy" /\ docker = "healthy"
          /\ monitor = "healthy"
  <2> DEFINE S == {cpu, memory, load, docker, monitor}
  <2>1. S \subseteq ViewLevels /\ S # {}
    BY <1>1, <1>2, <1>3
  <2>2. WorstLevel(S) = "healthy" <=> S = {"healthy"}
    BY <2>1, WorstHealthy
  <2> QED
    BY <1>4, <2>2
<1> QED
  BY <1>1, <1>2, <1>3, <1>5

\* How many components want attention is a number, none exactly when all are
\* healthy.
LEMMA Attention ==
  ASSUME IsSnapshot(latest)
  PROVE  LET n == AttentionCount(LevelsOf(latest))
         IN  n \in Nat /\ (n = 0 <=> \A c \in DOMAIN latest : latest[c].level = Healthy)
<1> DEFINE S == {c \in DOMAIN LevelsOf(latest) : LevelsOf(latest)[c] # Healthy}
<1>1. S \subseteq Checkers \cup {Self}
  BY Constants DEF LevelsOf, IsSnapshot
<1>2. IsFiniteSet(Checkers \cup {Self})
  <2>1. Checkers \cup {Self} =
          {} \cup {"telegram_api"} \cup {"polling"} \cup {"system_resources"}
             \cup {"sessions"} \cup {"template_parser"} \cup {Self}
    BY DEF Checkers
  <2>2. \A T, x : IsFiniteSet(T) => IsFiniteSet(T \cup {x})
    BY FS_AddElement
  <2> QED
    BY <2>1, <2>2, FS_EmptySet
<1>3. IsFiniteSet(S) /\ Cardinality(S) \in Nat /\ (Cardinality(S) = 0 <=> S = {})
  BY <1>1, <1>2, FS_Subset, FS_CardinalityType, FS_EmptySet
<1>4. S = {} <=> \A c \in DOMAIN latest : latest[c].level = Healthy
  BY DEF LevelsOf
<1> QED
  BY <1>3, <1>4 DEF AttentionCount

\* What the screen advises, taken apart.
LEMMA NoAdvice ==
  ASSUME NEW h \in HostStates, IsSnapshot(latest)
  PROVE  Screen(h).advice = {"no action"} <=>
           /\ \A c \in DOMAIN latest : latest[c].level = Healthy
           /\ h.host.cpu < 70 /\ h.host.memory < 70 /\ h.host.load < 100
           /\ h.docker.available /\ h.docker.stopped = 0
<1> DEFINE n == AttentionCount(LevelsOf(latest))
           components == IF n > 0 THEN {"components"} ELSE {}
           cpu == IF h.host.cpu >= 70 THEN {"cpu"} ELSE {}
           memory == IF h.host.memory >= 70 THEN {"memory"} ELSE {}
           load == IF h.host.load >= 100 THEN {"load"} ELSE {}
           docker == IF ~h.docker.available THEN {"docker access"}
                     ELSE IF h.docker.stopped > 0 THEN {"containers"} ELSE {}
           found == components \cup cpu \cup memory \cup load \cup docker
<1>1. Screen(h).advice = IF found = {} THEN {"no action"} ELSE found
  BY DEF Screen, Recommendations
<1>2. "no action" \notin found
  OBVIOUS
<1>3. components = {} <=> \A c \in DOMAIN latest : latest[c].level = Healthy
  BY Attention
<1>4. /\ cpu = {} <=> h.host.cpu < 70
      /\ memory = {} <=> h.host.memory < 70
      /\ load = {} <=> h.host.load < 100
  BY HostTypes
<1>7. docker = {} <=> h.docker.available /\ h.docker.stopped = 0
  <2>1. CASE h.docker.available
    BY <2>1, HostTypes
  <2>2. CASE ~h.docker.available
    BY <2>2
  <2> QED
    BY <2>1, <2>2
<1> HIDE DEF components, cpu, memory, load, docker
<1>5. found = {} <=>
        components = {} /\ cpu = {} /\ memory = {} /\ load = {} /\ docker = {}
  OBVIOUS
<1>6. Screen(h).advice = {"no action"} <=> found = {}
  BY <1>1, <1>2
<1> QED
  BY <1>3, <1>4, <1>5, <1>6, <1>7

----------------------------------------------------------------------------
LEMMA HealthAlways == HealthSpec => []HealthInv
  BY HealthStarts, HealthStep, PTL DEF HealthSpec

LEMMA SnapshotOrNone ==
  HealthInv => IsSnapshot(latest) /\ (DOMAIN latest # {} \/ latest = NoSnapshot)
<1> SUFFICES ASSUME HealthInv, DOMAIN latest = {} PROVE latest = NoSnapshot
  BY DEF HealthInv
<1>1. latest = [c \in {} |-> latest[c]]
  BY DEF HealthInv, IsSnapshot
<1> QED
  BY <1>1 DEF NoSnapshot

\* When the screen says "Stable", every registered checker found its component
\* healthy, and not longer ago than its interval and one more cycle.
THEOREM StableWasSeenLately == HealthSpec => []StableIsRecent
<1>1. HealthInv => StableIsRecent
  <2> SUFFICES ASSUME HealthInv, NEW h \in HostStates, NEW c \in Components,
                      Screen(h).level = "healthy"
               PROVE  /\ c \in DOMAIN latest /\ latest[c].level = Healthy
                      /\ latest[c].age < Interval[c] + BaseInterval + 2 * CheckTime
    BY DEF StableIsRecent
  <2>1. /\ IsSnapshot(latest) /\ latest # NoSnapshot /\ DOMAIN latest # {}
        /\ \A d \in DOMAIN latest : latest[d].level = Healthy
    BY SnapshotOrNone, ScreenHealthy
  <2>2. Self \notin DOMAIN latest
    BY <2>1 DEF IsSnapshot, Critical, Healthy
  <2>3. c \in DOMAIN latest
    BY <2>1, <2>2 DEF HealthInv
  <2>4. latest[c].age + pause < Interval[c] + BaseInterval + CheckTime + spent
    BY <2>2, <2>3 DEF HealthInv
  <2>5. /\ latest[c].age \in Nat /\ Interval[c] \in Nat /\ pause \in Nat /\ spent \in Nat
        /\ spent <= CheckTime /\ BaseInterval \in Nat /\ CheckTime \in Nat
    BY <2>1, <2>3, EntryTypes, Constants DEF HealthInv
  <2>6. latest[c].age < Interval[c] + BaseInterval + 2 * CheckTime
    BY <2>4, <2>5
  <2> QED
    BY <2>1, <2>3, <2>6
<1> QED
  BY <1>1, HealthAlways, PTL

\* The advice of the screen asks for no action exactly when its level is
\* "Stable".
THEOREM AdviceFollowsLevel == HealthSpec => []AdviceMatchesLevel
<1>1. HealthInv => AdviceMatchesLevel
  <2> SUFFICES ASSUME HealthInv, NEW h \in HostStates, latest # NoSnapshot
               PROVE  Screen(h).level = "healthy" <=> Screen(h).advice = {"no action"}
    BY DEF AdviceMatchesLevel
  <2>1. IsSnapshot(latest) /\ (DOMAIN latest # {} \/ latest = NoSnapshot)
    BY SnapshotOrNone
  <2> QED
    <3> DEFINE Well == /\ \A c \in DOMAIN latest : latest[c].level = Healthy
                       /\ h.host.cpu < 70 /\ h.host.memory < 70 /\ h.host.load < 100
                       /\ h.docker.available /\ h.docker.stopped = 0
    <3>1. Screen(h).level = "healthy" <=> Well
      BY <2>1, ScreenHealthy
    <3>2. Screen(h).advice = {"no action"} <=> Well
      BY <2>1, NoAdvice
    <3> QED
      BY <3>1, <3>2
<1> QED
  BY <1>1, HealthAlways, PTL

----------------------------------------------------------------------------
(* What no longer is so.                                                    *)

\* Snapshot s says of c what its checker would not say now, and since a ticks.
WrongIn(s, c, a) == c \in DOMAIN s /\ s[c].level # Level(c, world[c]) /\ s[c].age = a

\* So does the snapshot that is shown, or the one of the cycle under way.
WrongFor(c, a) == WrongIn(latest, c, a) \/ WrongIn(draft, c, a)

\* While the readings stay as they are, no wrong result comes up, and the ones
\* there are grow older with every tick.
WrongGrowsOld ==
    UNCHANGED world =>
      \A c \in Components, a \in Nat :
        WrongFor(c, a)' =>
          \E b \in Nat : WrongFor(c, b) /\ a = IF Tick THEN Older(b) ELSE b

\* No result is kept longer than its interval, a pause and two cycles.
KeptShortly ==
    Self \notin DOMAIN latest =>
      \A c \in DOMAIN latest :
        latest[c].age < Interval[c] + BaseInterval + 2 * CheckTime

LEMMA ResultsAreKeptShortly == HealthInv => KeptShortly
<1> SUFFICES ASSUME HealthInv, Self \notin DOMAIN latest, NEW c \in DOMAIN latest
             PROVE  latest[c].age < Interval[c] + BaseInterval + 2 * CheckTime
  BY DEF KeptShortly
<1>1. latest[c].age + pause < Interval[c] + BaseInterval + CheckTime + spent
  BY DEF HealthInv
<1>2. latest[c].age \in Nat /\ c \in Components
  BY EntryTypes DEF HealthInv, IsSnapshot
<1>3. /\ Interval[c] \in Nat /\ pause \in Nat /\ spent \in Nat
      /\ spent <= CheckTime /\ BaseInterval \in Nat /\ CheckTime \in Nat
  BY <1>2, Constants DEF HealthInv
<1> QED
  BY <1>1, <1>2, <1>3

\* A step that takes no time and in which nothing comes up that is wrong.
LEMMA NothingComesUp ==
  ASSUME ~Tick, UNCHANGED world,
         \A c \in Components, a \in Nat :
           WrongIn(latest', c, a) \/ WrongIn(draft', c, a) => WrongFor(c, a)
  PROVE  WrongGrowsOld
<1> SUFFICES ASSUME NEW c \in Components, NEW a \in Nat, WrongFor(c, a)'
             PROVE  WrongFor(c, a)
  BY DEF WrongGrowsOld
<1>1. WrongIn(latest', c, a) \/ WrongIn(draft', c, a)
  BY DEF WrongFor, WrongIn
<1> QED
  BY <1>1

\* A tick makes wrong results older and changes nothing else in them.
LEMMA TickAges ==
  ASSUME Tick, UNCHANGED world, IsSnapshot(latest), IsSnapshot(draft)
  PROVE  WrongGrowsOld
<1>1. ASSUME NEW s, IsSnapshot(s), NEW c \in Components, NEW a \in Nat, WrongIn(Aged(s), c, a)
      PROVE  \E b \in Nat : WrongIn(s, c, b) /\ a = Older(b)
  <2> DEFINE b == s[c].age
  <2>1. c \in DOMAIN s /\ Aged(s)[c] = [s[c] EXCEPT !.age = Older(b)] /\ c # Self
    BY <1>1, Constants DEF WrongIn, Aged
  <2>2. b \in Nat /\ Aged(s)[c].level = s[c].level /\ Aged(s)[c].age = Older(b)
    BY <1>1, <2>1, EntryTypes
  <2> QED
    BY <1>1, <2>1, <2>2 DEF WrongIn
<1> SUFFICES ASSUME NEW c \in Components, NEW a \in Nat, WrongFor(c, a)'
             PROVE  \E b \in Nat : WrongFor(c, b) /\ a = Older(b)
  BY DEF WrongGrowsOld
<1>2. WrongIn(Aged(latest), c, a) \/ WrongIn(Aged(draft), c, a)
  BY DEF WrongFor, WrongIn, Tick
<1>3. (\E b \in Nat : WrongIn(latest, c, b) /\ a = Older(b))
        \/ (\E b \in Nat : WrongIn(draft, c, b) /\ a = Older(b))
  BY <1>1, <1>2
<1> QED
  BY <1>3 DEF WrongFor

LEMMA WrongStep == HealthInv /\ [HealthNext]_healthVars => [WrongGrowsOld]_healthVars
<1> SUFFICES ASSUME HealthInv, HealthNext, UNCHANGED world PROVE WrongGrowsOld
  BY DEF WrongGrowsOld
<1>0. IsSnapshot(latest) /\ IsSnapshot(draft) /\ pause \in Nat /\ spent \in Nat
  BY DEF HealthInv
<1>1. CASE Tick
  BY <1>0, <1>1, TickAges
<1>2. CASE ~Tick
  <2>1. CASE \/ StartMonitoring \/ StopMonitoring \/ Wake \/ EndLoop \/ LogHealthStatus
    <3>1. UNCHANGED <<latest, draft>>
      BY <2>1 DEF StartMonitoring, StopMonitoring, Wake, EndLoop, LogHealthStatus
    <3> QED
      BY <1>2, <3>1, NothingComesUp DEF WrongFor
  <2>2. CASE BeginCycle
    <3>1. UNCHANGED latest /\ draft' \in {latest, draft}
      BY <2>2 DEF BeginCycle
    <3> QED
      BY <1>2, <3>1, NothingComesUp DEF WrongFor
  <2>3. CASE Publish
    <3>1. latest' = draft /\ draft' = NoSnapshot /\ DOMAIN NoSnapshot = {}
      BY <2>3, EmptySnapshot DEF Publish
    <3>2. \A c, a : ~WrongIn(draft', c, a)
      BY <3>1 DEF WrongIn
    <3> QED
      BY <1>2, <3>1, <3>2, NothingComesUp DEF WrongFor
  <2>4. CASE CycleFails
    <3>1. /\ draft' = NoSnapshot /\ DOMAIN NoSnapshot = {}
          /\ \E s \in {latest, draft} : latest' = Enter(s, Self, [level |-> Critical, age |-> 0])
      BY <2>4, EmptySnapshot DEF CycleFails
    <3>2. \A c, a : ~WrongIn(draft', c, a)
      BY <3>1 DEF WrongIn
    <3>3. \A c \in Components, a \in Nat : WrongIn(latest', c, a) => WrongFor(c, a)
      <4>1. PICK s \in {latest, draft} :
              latest' = Enter(s, Self, [level |-> Critical, age |-> 0])
        BY <3>1
      <4>2. \A c \in Components, a \in Nat : WrongIn(latest', c, a) => WrongIn(s, c, a)
        BY <4>1, Constants DEF WrongIn, Enter
      <4> QED
        BY <4>2 DEF WrongFor
    <3> QED
      BY <1>2, <3>2, <3>3, NothingComesUp DEF WrongFor
  <2>5. ASSUME NEW c \in Components, Check(c) PROVE WrongGrowsOld
    <3>1. draft' = Enter(draft, c, Found(c)) /\ UNCHANGED latest
      BY <2>5 DEF Check
    <3>2. ASSUME NEW d \in Components, NEW a \in Nat, WrongIn(draft', d, a)
          PROVE  WrongIn(draft, d, a)
      <4>1. d # c
        BY <3>1, <3>2 DEF WrongIn, Enter, Found
      <4> QED
        BY <3>1, <3>2, <4>1 DEF WrongIn, Enter
    <3> QED
      BY <1>2, <3>1, <3>2, NothingComesUp DEF WrongFor
  <2>6. ASSUME NEW c \in Components, Change(c) PROVE WrongGrowsOld
    <3>1. UNCHANGED <<latest, draft>>
      BY <2>6 DEF Change
    <3> QED
      BY <1>2, <3>1, NothingComesUp DEF WrongFor
  <2> QED
    BY <1>2, <2>1, <2>2, <2>3, <2>4, <2>5, <2>6 DEF HealthNext, LoopStep
<1> QED
  BY <1>1, <1>2

\* The safety of "the snapshot converges": while the readings stay as they are
\* a wrong result only grows old, and none grows older than its interval, a
\* pause and two cycles, unless a cycle failed: no alarm outlives its cause and
\* none is missed for longer than that (check_all).
THEOREM WrongResultsFade == HealthSpec => []KeptShortly /\ [][WrongGrowsOld]_healthVars
  BY HealthStarts, HealthStep, ResultsAreKeptShortly, WrongStep, PTL DEF HealthSpec
=============================================================================
