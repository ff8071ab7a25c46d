---------------------------- MODULE HealthMonitor ----------------------------
(***************************************************************************)
(* HealthMonitor of health_system.py with the thread of its loop, the      *)
(* /health screen that reads its snapshot, and the launcher that starts,   *)
(* stops and logs it.  Ages stand for timestamps: the age of a reading     *)
(* grows with every tick.                                                  *)
(***************************************************************************)
EXTENDS HealthChecks

CONSTANTS
    Components,   \* the checkers that are registered
    Readings,     \* component -> what its checker may find
    HostStates,   \* readings of the host and of Docker on the screen
    Interval,     \* component -> interval_seconds
    BaseInterval, \* 120 s; the pause is a half or three quarters of it
    CheckTime     \* the longest a cycle of checks takes

ASSUME HealthConstants ==
    /\ Components \subseteq Checkers
    /\ \A h \in HostStates :
         /\ {h.host.cpu, h.host.memory, h.host.load, h.docker.total, h.docker.running} \subseteq Nat
         /\ h.docker.running <= h.docker.total
         /\ h.docker.stopped = h.docker.total - h.docker.running
    /\ Interval \in [Components -> Nat \ {0}]
    /\ BaseInterval \in Nat /\ BaseInterval % 4 = 0 /\ BaseInterval > 0
    /\ CheckTime \in Nat

VARIABLES
    world,    \* the reading each checker would get now
    latest,   \* _latest: component -> level and age; empty before the first
    draft,    \* components of a check_all that is under way
    due,      \* to_check: what is left of it
    loop,     \* where the loop is
    pause,    \* what is left of its wait
    spent,    \* ticks since the cycle began
    running,  \* _running, and _stop_event is its opposite
    logged    \* _previous_health_level: what the launcher logged last

healthVars == <<world, latest, draft, due, loop, pause, spent, running, logged>>

Self == "health_monitor"
NoSnapshot == << >>
Found(c) == [level |-> Level(c, world[c]), age |-> 0]
Enter(snapshot, c, result) ==
    [d \in DOMAIN snapshot \cup {c} |-> IF d = c THEN result ELSE snapshot[d]]
LevelsOf(snapshot) == [c \in DOMAIN snapshot |-> snapshot[c].level]

\* No older age is told apart.
OldestAge == Max({Interval[c] : c \in Components}) + BaseInterval + 2 * CheckTime + 1
Older(age) == IF age < OldestAge THEN age + 1 ELSE age
Aged(snapshot) ==
    [c \in DOMAIN snapshot |->
       [snapshot[c] EXCEPT !.age = IF c = Self THEN @ ELSE Older(@)]]

\* A failed monitor is published without the rule of seven in ten.
OverallOf(snapshot) ==
    IF Self \in DOMAIN snapshot THEN Min({snapshot[c].level : c \in DOMAIN snapshot})
    ELSE Overall(LevelsOf(snapshot))
ShownOverall == IF latest = NoSnapshot THEN -1 ELSE OverallOf(latest)

HealthInit ==
    /\ world \in [Components -> UNION {Readings[c] : c \in Components}]
    /\ \A c \in Components : world[c] \in Readings[c]
    /\ latest = NoSnapshot /\ draft = NoSnapshot /\ due = {}
    /\ loop = "new" /\ pause = 0 /\ spent = 0 /\ running = FALSE
    /\ logged = -1

----------------------------------------------------------------------------
(* The world. *)

Change(c) ==
    /\ \E r \in Readings[c] : r # world[c] /\ world' = [world EXCEPT ![c] = r]
    /\ UNCHANGED <<latest, draft, due, loop, pause, spent, running, logged>>

Tick ==
    /\ \/ loop = "waiting" /\ pause > 0 /\ running /\ pause' = pause - 1 /\ UNCHANGED spent
       \/ loop = "checking" /\ spent < CheckTime /\ spent' = spent + 1 /\ UNCHANGED pause
    /\ latest' = Aged(latest) /\ draft' = Aged(draft)
    /\ UNCHANGED <<world, due, loop, running, logged>>

----------------------------------------------------------------------------
(* The loop. *)

StartMonitoring ==
    /\ loop = "new"
    /\ running' = TRUE /\ loop' = "testing"
    /\ UNCHANGED <<world, latest, draft, due, pause, spent, logged>>

StopMonitoring ==
    /\ running
    /\ running' = FALSE
    /\ UNCHANGED <<world, latest, draft, due, loop, pause, spent, logged>>

Wait(time) == loop' = "waiting" /\ pause' = time /\ spent' = 0

\* Fault: what is due is told from the age of the snapshot.
DueOfSnapshot ==
    {c \in Components : c \in DOMAIN latest =>
        Min({latest[d].age : d \in DOMAIN latest}) >= Interval[c]}

\* A component is due when its own last result is as old as its interval.
Due == {c \in Components : c \in DOMAIN latest => latest[c].age >= Interval[c]}

\* The wait after a snapshot.
PauseAfter(overall) ==
    IF overall <= Unhealthy THEN BaseInterval \div 2
    ELSE IF overall = Degraded THEN (3 * BaseInterval) \div 4 ELSE BaseInterval

\* The head of the loop and of check_all: if nothing is due the snapshot stays.
BeginCycle ==
    /\ loop = "testing" /\ running
    /\ due' = Due
    /\ IF Due = {} /\ latest # NoSnapshot
         THEN Wait(PauseAfter(OverallOf(latest))) /\ UNCHANGED draft
         ELSE loop' = "checking" /\ spent' = 0 /\ draft' = latest /\ UNCHANGED <<pause>>
    /\ UNCHANGED <<world, latest, running, logged>>

\* Fault: a result of an earlier cycle stands.
CheckOnce(c) ==
    /\ loop = "checking" /\ c \in due
    /\ due' = due \ {c}
    /\ draft' = IF c \in DOMAIN draft THEN draft
                ELSE Enter(draft, c, Found(c))
    /\ UNCHANGED <<world, latest, loop, pause, spent, running, logged>>

\* check_sync of one component that is due; its cache is younger than its
\* interval and never used here.
Check(c) ==
    /\ loop = "checking" /\ c \in due
    /\ due' = due \ {c}
    /\ draft' = Enter(draft, c, Found(c))
    /\ UNCHANGED <<world, latest, loop, pause, spent, running, logged>>

\* The end of check_all and of the cycle.
Publish ==
    /\ loop = "checking" /\ due = {}
    /\ latest' = draft /\ draft' = NoSnapshot
    /\ Wait(PauseAfter(OverallOf(draft)))
    /\ UNCHANGED <<world, due, running, logged>>

\* _publish_monitor_failure: an error of the cycle, which nothing takes back.
\* It comes before there is a new snapshot, or from what the loop does with it:
\* a new one is published by then, and one that was kept is the latest.
CycleFails ==
    /\ loop = "checking" \/ (loop = "testing" /\ running)
    /\ \E s \in {latest} \cup {t \in {draft} : loop = "checking" /\ due = {}} :
         latest' = Enter(s, Self, [level |-> Critical, age |-> 0])
    /\ due' = {} /\ draft' = NoSnapshot /\ Wait(BaseInterval)
    /\ UNCHANGED <<world, running, logged>>

\* The wait is over, or the stop event ends it; the head of the loop tests.
Wake ==
    /\ loop = "waiting" /\ (pause = 0 \/ ~running)
    /\ loop' = "testing" /\ pause' = 0
    /\ UNCHANGED <<world, latest, draft, due, spent, running, logged>>

EndLoop ==
    /\ loop = "testing" /\ ~running
    /\ loop' = "ended"
    /\ UNCHANGED <<world, latest, draft, due, pause, spent, running, logged>>

LoopStep == BeginCycle \/ (\E c \in Components : Check(c)) \/ Publish \/ Wake \/ EndLoop

----------------------------------------------------------------------------
(* Its readers. *)

\* _render_health_message: what /health shows if h is read after the snapshot.
Screen(h) ==
    [level  |-> ShownLevel(ShownOverall, h.host, h.docker),
     advice |-> Recommendations(AttentionCount(LevelsOf(latest)), h.host, h.docker)]

\* _should_log_health_status; that an unchanged level is logged again after
\* five minutes is left out.
ShouldLog ==
    latest # NoSnapshot /\ ShownOverall # logged

\* _should_log_health_status and log_health_status, as the main loop calls them.
LogHealthStatus ==
    /\ running /\ ShouldLog
    /\ logged' = ShownOverall
    /\ UNCHANGED <<world, latest, draft, due, loop, pause, spent, running>>

HealthNext ==
    \/ StartMonitoring \/ StopMonitoring \/ LoopStep \/ CycleFails \/ Tick \/ LogHealthStatus
    \/ (\E c \in Components : Change(c))

\* The threads run, and time passes.
HealthFairness ==
    /\ WF_healthVars(StartMonitoring) /\ WF_healthVars(LoopStep) /\ WF_healthVars(Tick)
    /\ WF_healthVars(LogHealthStatus)

HealthSpec == HealthInit /\ [][HealthNext]_healthVars /\ HealthFairness

----------------------------------------------------------------------------
(* When the screen says "Stable", every checker that is registered found its *)
(* component healthy, and not longer ago than its interval and one more      *)
(* cycle: a component is never left out or kept from an old snapshot.        *)
StableIsRecent ==
    \A h \in HostStates, c \in Components :
      running /\ Screen(h).level = "healthy" =>
        /\ c \in DOMAIN latest /\ latest[c].level = Healthy
        /\ latest[c].age < Interval[c] + BaseInterval + 2 * CheckTime

(* The advice of the screen is computed apart from its level: as soon as     *)
(* there is a snapshot, it asks for no action exactly when the level is      *)
(* "Stable".                                                                 *)
AdviceMatchesLevel ==
    \A h \in HostStates :
      latest # NoSnapshot =>
        (Screen(h).level = "healthy" <=> Screen(h).advice = {"no action"})

(* Once the readings stay as they are and no cycle fails, the snapshot, and  *)
(* the level that was logged last, come to what the checkers find now: no    *)
(* alarm outlives its cause and none is missed.                              *)
Converges ==
    [](Self \notin DOMAIN latest) /\ <>[][UNCHANGED world]_healthVars =>
      <>[](\/ ~running
           \/ /\ ShownOverall = Overall([c \in Components |-> Level(c, world[c])])
              /\ logged = ShownOverall)
=============================================================================
