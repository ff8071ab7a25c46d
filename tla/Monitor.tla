------------------------------- MODULE Monitor -------------------------------
(***************************************************************************)
(* The monitor plugin: a worker thread that measures, records and alerts   *)
(* in cycles, a supervisor that replaces a worker that died, and the main  *)
(* thread, which starts and stops both.  Recording goes to MetricWriter,   *)
(* alerting to MonitorAlerts.  A join of two seconds against a cycle of up *)
(* to thirty may end at any time.  Threads can always be started.          *)
(***************************************************************************)
EXTENDS MetricWriter, MonitorAlerts, FiniteSets

CONSTANTS
    Threads,   \* bound: worker threads, the numbers 1..Threads
    Attempts,  \* retry_attempts
    MaxDeaths, \* bound: workers that die of an error nobody catches
    MaxTime    \* bound: the clock

ASSUME MonitorConstants ==
    /\ {Threads, Attempts} \subseteq Nat \ {0}
    /\ MaxDeaths \in Nat /\ MaxTime \in Nat

VARIABLES
    main,       \* the main thread, in start_monitoring and stop_monitoring
    attempt,
    taken,      \* the pool that shutdown_async_writes has taken
    active,     \* state.is_active
    stopEvent,  \* _supervisor_stop_event
    monitor,    \* _monitor_thread: 0 for None
    worker,     \* where each worker thread is
    pool,       \* the pool each worker is about to submit to
    supervisor, \* where the supervisor is
    deaths,
    late        \* history: submissions begun after the stop

threadVars == <<main, attempt, taken, active, stopEvent, monitor, worker, pool,
                supervisor, deaths, late>>
vars == <<writerVars, alertVars, threadVars>>

Workers == 1..Threads

Alive(w) == worker[w] \notin {"none", "ended"}
InCycle(w) == Alive(w) /\ worker[w] # "test"

WorkerAt(w, p) == worker' = [worker EXCEPT ![w] = p]

\* A thread whose number has not been used.
Spawn(w) ==
    /\ worker[w] = "none"
    /\ \A v \in 1..(w - 1) : worker[v] # "none"
    /\ WorkerAt(w, "test")
    /\ monitor' = w

----------------------------------------------------------------------------
(* The main thread.                                                        *)

Main(from, to) == main = from /\ main' = to

StartMonitoring ==
    /\ Main("registering", "connecting")
    /\ active' = TRUE
    /\ stopEvent' = FALSE
    /\ UNCHANGED <<writerVars, alertVars, attempt, taken, monitor, worker, pool,
                   supervisor, deaths, late>>

ConnectStore ==
    /\ Main("connecting", "spawning")
    /\ Connect
    /\ UNCHANGED <<alertVars, attempt, taken, active, stopEvent, monitor, worker,
                   pool, supervisor, deaths, late>>

\* The client is closed; after the last attempt the plugin is not active.
ConnectFails ==
    /\ main = "connecting"
    /\ Close
    /\ attempt' = attempt + 1
    /\ IF attempt + 1 < Attempts
         THEN UNCHANGED <<main, active>>
         ELSE main' = "failed" /\ active' = FALSE
    /\ UNCHANGED <<alertVars, taken, stopEvent, monitor, worker, pool, supervisor,
                   deaths, late>>

StartThreads ==
    /\ Main("spawning", "up")
    /\ Spawn(1)
    /\ supervisor' = "test"
    /\ attempt' = 0
    /\ UNCHANGED <<writerVars, alertVars, taken, active, stopEvent, pool, deaths, late>>

\* stop_monitoring, in the steps between which the other threads run.
StopMonitoring ==
    /\ Main("up", "stopping")
    /\ stopEvent' = TRUE
    /\ UNCHANGED <<writerVars, alertVars, attempt, taken, active, monitor, worker, pool,
                   supervisor, deaths, late>>

Deactivate ==
    /\ Main("stopping", "clearing")
    /\ active' = FALSE
    /\ UNCHANGED <<writerVars, alertVars, attempt, taken, stopEvent, monitor, worker, pool,
                   supervisor, deaths, late>>

ClearThreads ==
    /\ Main("clearing", "joining")
    /\ monitor' = 0
    /\ UNCHANGED <<writerVars, alertVars, attempt, taken, active, stopEvent, worker,
                   pool, supervisor, deaths, late>>

\* Both joins, each over when its thread is or when its time is.
Join ==
    /\ Main("joining", "lettingGo")
    /\ UNCHANGED <<writerVars, alertVars, attempt, taken, active, stopEvent, monitor,
                   worker, pool, supervisor, deaths, late>>

LetPoolGo ==
    /\ main = "lettingGo"
    /\ IF writer = 0
         THEN main' = "closing" /\ UNCHANGED <<writerVars, taken>>
         ELSE main' = "shutting" /\ taken' = writer /\ LetGo
    /\ UNCHANGED <<alertVars, attempt, active, stopEvent, monitor, worker, pool,
                   supervisor, deaths, late>>

ShutPoolDown ==
    /\ Main("shutting", "draining")
    /\ ShutDown(taken)
    /\ UNCHANGED <<alertVars, attempt, taken, active, stopEvent, monitor, worker,
                   pool, supervisor, deaths, late>>

Drain ==
    /\ Main("draining", "closing")
    /\ Drained(taken)
    /\ UNCHANGED <<writerVars, alertVars, attempt, taken, active, stopEvent, monitor,
                   worker, pool, supervisor, deaths, late>>

CloseStore ==
    /\ Main("closing", "stopped")
    /\ Close
    /\ UNCHANGED <<alertVars, attempt, taken, active, stopEvent, monitor, worker,
                   pool, supervisor, deaths, late>>

MainStep ==
    \/ StartMonitoring \/ ConnectStore \/ ConnectFails \/ StartThreads
    \/ Deactivate \/ ClearThreads \/ Join \/ LetPoolGo \/ ShutPoolDown \/ Drain \/ CloseStore

----------------------------------------------------------------------------
(* A worker, _monitor_system.                                              *)

MainKeeps == UNCHANGED <<main, attempt, taken, active, stopEvent, monitor, supervisor>>

\* Fault: the loop does not look at the flag.
TestForever(w) ==
    /\ worker[w] = "test"
    /\ WorkerAt(w, "measuring")
    /\ MainKeeps /\ UNCHANGED <<writerVars, alertVars, pool, deaths, late>>

TestActive(w) ==
    /\ worker[w] = "test"
    /\ WorkerAt(w, IF active THEN "measuring" ELSE "ended")
    /\ MainKeeps /\ UNCHANGED <<writerVars, alertVars, pool, deaths, late>>

\* _process_docker_metrics, for each object that is new.
Discover(w) ==
    /\ worker[w] = "measuring"
    /\ Announce
    /\ MainKeeps /\ UNCHANGED <<writerVars, worker, pool, deaths, late>>

\* write_data_async, after the readings.
BeginWrite(w) ==
    /\ worker[w] = "measuring"
    /\ \/ Acquire /\ WorkerAt(w, "holding")
       \/ NoSlot /\ WorkerAt(w, "alerting")
    /\ late' = IF active THEN late ELSE late + 1
    /\ MainKeeps /\ UNCHANGED <<alertVars, pool, deaths>>

ChoosePool(w) ==
    /\ worker[w] = "holding"
    /\ \E p \in Pools : GetPool(p) /\ pool' = [pool EXCEPT ![w] = p]
    /\ WorkerAt(w, "submitting")
    /\ MainKeeps /\ UNCHANGED <<alertVars, deaths, late>>

SubmitWrite(w) ==
    /\ worker[w] = "submitting"
    /\ Submit(pool[w])
    /\ pool' = [pool EXCEPT ![w] = 0]
    /\ WorkerAt(w, "alerting")
    /\ MainKeeps /\ UNCHANGED <<alertVars, deaths, late>>

Alert(w) ==
    /\ worker[w] = "alerting"
    /\ \E issue \in Issues : CheckAlert(issue)
    /\ MainKeeps /\ UNCHANGED <<writerVars, worker, pool, deaths, late>>

\* The end of a cycle: its sleep is over, or a reading raised and the cycle
\* was given up.
EndCycle(w) ==
    /\ worker[w] \in {"measuring", "alerting"}
    /\ WorkerAt(w, "test")
    /\ MainKeeps /\ UNCHANGED <<writerVars, alertVars, pool, deaths, late>>

Die(w) ==
    /\ worker[w] \in {"measuring", "alerting"}
    /\ deaths < MaxDeaths
    /\ deaths' = deaths + 1
    /\ WorkerAt(w, "ended")
    /\ MainKeeps /\ UNCHANGED <<writerVars, alertVars, pool, late>>

WorkerStep(w) ==
    TestActive(w) \/ BeginWrite(w) \/ ChoosePool(w) \/ SubmitWrite(w) \/ EndCycle(w)

----------------------------------------------------------------------------
(* The supervisor, _supervise_monitoring.                                  *)

Supervise(from, to) ==
    /\ supervisor = from
    /\ supervisor' = to
    /\ UNCHANGED <<writerVars, alertVars, main, attempt, taken, active, stopEvent,
                   pool, deaths, late>>

SuperviseActive ==
    /\ Supervise("test", IF active THEN "watching" ELSE "ended")
    /\ UNCHANGED <<monitor, worker>>

\* Fault: a worker between two cycles counts as dead.
WatchCycles ==
    /\ Supervise("watching", "waiting")
    /\ IF (monitor = 0 \/ ~InCycle(monitor)) /\ \E w \in Workers : worker[w] = "none"
         THEN \E w \in Workers : Spawn(w)
         ELSE UNCHANGED <<monitor, worker>>

\* Under the lock: a worker that is gone is replaced.
Watch ==
    /\ Supervise("watching", "waiting")
    /\ IF monitor = 0 \/ ~Alive(monitor)
         THEN \E w \in Workers : Spawn(w)
         ELSE UNCHANGED <<monitor, worker>>

\* The wait for the event, or the interval; the event ends the loop.
WaitForStop ==
    /\ Supervise("waiting", IF stopEvent THEN "ended" ELSE "test")
    /\ UNCHANGED <<monitor, worker>>

SupervisorStep == SuperviseActive \/ Watch \/ WaitForStop

----------------------------------------------------------------------------
Tick ==
    /\ now < MaxTime
    /\ now' = now + 1
    /\ UNCHANGED <<writerVars, events, count, resetAt, sent, threadVars>>

PoolStep(p) == TaskStep(p) /\ UNCHANGED <<alertVars, threadVars>>

Init ==
    /\ WriterInit /\ AlertInit
    /\ main = "registering" /\ attempt = 0 /\ taken = 0
    /\ active = FALSE /\ stopEvent = FALSE
    /\ monitor = 0
    /\ worker = [w \in Workers |-> "none"]
    /\ pool = [w \in Workers |-> 0]
    /\ supervisor = "none"
    /\ deaths = 0 /\ late = 0

Next ==
    \/ MainStep \/ StopMonitoring
    \/ \E w \in Workers : WorkerStep(w) \/ Discover(w) \/ Alert(w) \/ Die(w)
    \/ SupervisorStep
    \/ \E p \in Pools : PoolStep(p)
    \/ Tick

Spec == Init /\ [][Next]_vars

\* Threads run and calls return; nothing makes the main thread stop the
\* plugin, or a worker die.
FairSpec ==
    /\ Spec
    /\ WF_vars(MainStep) /\ WF_vars(SupervisorStep)
    /\ \A w \in Workers : WF_vars(WorkerStep(w))
    /\ \A p \in Pools : WF_vars(PoolStep(p))

----------------------------------------------------------------------------
Holding == {w \in Workers : worker[w] \in {"holding", "submitting"}}
Running == {p \in Pools : busy[p] # "idle"}
Queued  == {t \in Pools \X (1..Slots) : t[2] <= waiting[t[1]]}

(* No slot is lost or won: the free ones, the ones a worker holds, and the  *)
(* ones of queued and running tasks are all there are, whichever of the     *)
(* pools the tasks went to and however submitting them failed.              *)
SlotsAccounted ==
    free + Cardinality(Holding) + Cardinality(Running) + Cardinality(Queued) = Slots

(* One worker at a time is inside a cycle, although supervisor and stop race *)
(* for the thread: the state of the alerts needs no lock for that reason.   *)
OneWorker == Cardinality({w \in Workers : InCycle(w)}) <= 1

(* The stop closes the client only when no task of the pool it took down is *)
(* left, waiting or running, and after the stop at most one more write is   *)
(* begun: the cycle that was under way may open the client once more, but   *)
(* no new one does.                                                         *)
StoreClosedLast ==
    /\ [][main = "closing" /\ main' = "stopped" /\ taken # 0 =>
            waiting[taken] = 0 /\ busy[taken] = "idle"]_vars
    /\ [](late <= 1)

(* A stop ends it all, threads and tasks, from the moment it is called;     *)
(* until then a worker that died is replaced.                               *)
ThreadsSupervised ==
    /\ main = "stopping" ~>
         /\ main = "stopped"
         /\ supervisor = "ended"
         /\ \A w \in Workers : ~Alive(w)
         /\ free = Slots
    /\ (main = "up" /\ monitor # 0 /\ ~Alive(monitor)) ~>
         (~active \/ (monitor # 0 /\ Alive(monitor)))
=============================================================================
