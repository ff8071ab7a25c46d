---------------------------- MODULE DockerClient ----------------------------
(***************************************************************************)
(* The Docker adapter of one thread (adapters/docker/_adapter.py): every   *)
(* operation on Docker enters it for a client and leaves it.  The client   *)
(* is kept, checked when its last check is too old or an operation failed, *)
(* and made anew when the check fails; Docker that is not there gives a    *)
(* client that refuses everything, or an error in strict mode.             *)
(***************************************************************************)
EXTENDS Naturals

CONSTANTS
    HealthInterval,  \* _HEALTH_CHECK_INTERVAL
    TestRetries      \* _CONNECTION_TEST_RETRIES

AdapterConstants == HealthInterval \in Nat /\ TestRetries \in Nat \ {0}

VARIABLES
    mode,      \* strict access, and whether the configuration disables Docker
    client,    \* _client
    checked,   \* time since _last_health_check; HealthInterval + 1 is long or none
    visit,     \* where __enter__ is, or the operation, and the connection test
    daemonUp,  \* Docker answers
    downSeen,  \* history: it did not at some time of this visit
    proven     \* history: time since Docker last answered this client, and
               \* whether an operation failed since

adapterVars == <<mode, client, checked, visit, daemonUp, downSeen, proven>>

Long == HealthInterval + 1
Away == [at |-> "away", test |-> 0]
At(place) == visit' = [visit EXCEPT !.at = place]

\* A configuration that cannot be used fails the constructor in strict mode.
AdapterInit ==
    /\ mode \in {m \in [strict : BOOLEAN, disabled : BOOLEAN] : ~(m.strict /\ m.disabled)}
    /\ client = "none" /\ checked = Long /\ visit = Away
    /\ daemonUp \in BOOLEAN /\ downSeen = FALSE
    /\ proven = [age |-> Long, failed |-> FALSE]

Enter ==
    /\ visit.at = "away"
    /\ downSeen' = ~daemonUp
    /\ IF mode.disabled
         THEN client' = (IF client = "none" THEN "unavailable" ELSE client) /\ At("using")
         ELSE At("first look") /\ UNCHANGED client
    /\ UNCHANGED <<mode, checked, daemonUp, proven>>

Answered == checked' = 0 /\ proven' = [age |-> 0, failed |-> FALSE]

\* _should_recreate_client, before and again under the lock of creation: a
\* client that fails its ping the second time is closed.
Look ==
    /\ visit.at \in {"first look", "second look"}
    /\ \/ /\ client # "none" /\ checked < Long
          /\ At("using") /\ UNCHANGED <<client, checked, proven>>
       \/ /\ client = "real" /\ checked = Long /\ daemonUp
          /\ At("using") /\ Answered /\ UNCHANGED client
       \/ /\ client = "none" \/ (checked = Long /\ (client = "unavailable" \/ ~daemonUp))
          /\ IF visit.at = "first look"
               THEN At("second look") /\ UNCHANGED client
               ELSE At("creating") /\ client' = "none"
          /\ UNCHANGED <<checked, proven>>
    /\ UNCHANGED <<mode, daemonUp, downSeen>>

\* Fault: the failed attempt counts as a check.
FailChecked ==
    /\ IF mode.strict
         THEN client' = "none" /\ visit' = Away
         ELSE client' = "unavailable" /\ visit' = [at |-> "using", test |-> 0]
    /\ checked' = 0 /\ UNCHANGED proven

\* The end of __enter__ when no client could be made.
Fail ==
    /\ IF mode.strict
         THEN client' = "none" /\ visit' = Away
         ELSE client' = "unavailable" /\ visit' = [at |-> "using", test |-> 0]
    /\ UNCHANGED <<checked, proven>>

\* The constructor asks Docker for its version, once.
Create ==
    /\ visit.at = "creating"
    /\ IF daemonUp
         THEN visit' = [at |-> "testing", test |-> 1] /\ UNCHANGED <<client, checked, proven>>
         ELSE Fail
    /\ UNCHANGED <<mode, daemonUp, downSeen>>

\* _test_connection, with a pause after each failure but the last.
Test ==
    /\ visit.at = "testing"
    /\ \/ daemonUp /\ client' = "real" /\ Answered /\ visit' = [at |-> "using", test |-> 0]
       \/ /\ ~daemonUp /\ visit.test < TestRetries
          /\ visit' = [visit EXCEPT !.test = @ + 1] /\ UNCHANGED <<client, checked, proven>>
       \/ ~daemonUp /\ visit.test = TestRetries /\ Fail
    /\ UNCHANGED <<mode, daemonUp, downSeen>>

\* The operation, and __exit__: it succeeds or fails by itself, or Docker
\* fails it (an object that is not there counts as well).
Use ==
    /\ visit.at = "using" /\ visit' = Away
    /\ \/ client = "real" /\ daemonUp /\ UNCHANGED <<checked, proven>>
       \/ UNCHANGED <<checked, proven>>
       \/ checked' = Long /\ proven' = [proven EXCEPT !.failed = TRUE]
    /\ UNCHANGED <<mode, client, daemonUp, downSeen>>

\* close, at the shutdown or when the thread is gone; the adapter is new after it.
Close ==
    /\ visit.at = "away" /\ client' = "none" /\ checked' = Long
    /\ UNCHANGED <<mode, visit, daemonUp, downSeen, proven>>

\* Time; that of an operation is counted after it.
AdapterTick ==
    /\ visit.at # "using"
    /\ checked' = IF checked < Long THEN checked + 1 ELSE Long
    /\ proven' = [proven EXCEPT !.age = IF @ < Long THEN @ + 1 ELSE Long]
    /\ UNCHANGED <<mode, client, visit, daemonUp, downSeen>>

DaemonChanges ==
    /\ daemonUp' = ~daemonUp
    /\ downSeen' = (downSeen \/ daemonUp)
    /\ UNCHANGED <<mode, client, checked, visit, proven>>

AdapterNext ==
    \/ Enter \/ Look \/ Create \/ Test \/ Use \/ Close \/ AdapterTick \/ DaemonChanges

----------------------------------------------------------------------------
(* A client is what it seems.  One that refuses everything is given only if  *)
(* Docker is disabled or did not answer during this very call, so the bot is *)
(* never cut off from a Docker that is back; one that is real was answered   *)
(* by Docker lately, and after the last operation that failed.               *)
ClientIsHonest ==
    visit.at = "using" =>
      /\ client = "unavailable" => mode.disabled \/ downSeen
      /\ client = "real" => proven.age <= HealthInterval /\ ~proven.failed
=============================================================================
