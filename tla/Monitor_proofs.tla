--------------------------- MODULE Monitor_proofs ---------------------------
(***************************************************************************)
(* Theorems about the monitor plugin, for every number of threads, pools,  *)
(* slots, attempts and deaths: one worker at a time is in a cycle, no slot *)
(* of the asynchronous writes is lost or won, the store is closed last,    *)
(* the notifications keep their budget, a stop runs to its end, and a      *)
(* worker that died is replaced.                                           *)
(***************************************************************************)
EXTENDS Monitor, FiniteSetTheorems, SequenceTheorems, TLAPS

----------------------------------------------------------------------------
(* One worker at a time.                                                   *)

\* Until the threads are started there are none.
Before == main \in {"registering", "connecting", "spawning"}

\* While the plugin is active, the thread it knows is the only one alive;
\* afterwards nothing starts a cycle.
WorkersInv ==
    /\ worker \in [Workers ->
         {"none", "test", "measuring", "holding", "submitting", "alerting", "ended"}]
    /\ active \in BOOLEAN
    /\ Before => \A w \in Workers : worker[w] = "none"
    /\ Before => supervisor = "none"
    /\ main \in {"clearing", "joining", "lettingGo", "shutting", "draining", "closing",
                 "stopped"} => ~active
    /\ active => \A w \in Workers : Alive(w) => w = monitor
    /\ \A v, w \in Workers : InCycle(v) /\ InCycle(w) => v = w

LEMMA WorkersInit == Init => WorkersInv
BY DEF Init, WorkersInv, Before, Alive, InCycle

\* A step that leaves the threads where they are, or moves one on within
\* its cycle or out of it.
LEMMA WorkerMoves ==
  ASSUME WorkersInv, NEW w \in Workers, NEW p, WorkerAt(w, p),
         \/ InCycle(w) /\ p \in {"test", "measuring", "holding", "submitting", "alerting", "ended"}
         \/ worker[w] = "test" /\ p = (IF active THEN "measuring" ELSE "ended"),
         UNCHANGED <<main, active, monitor, supervisor>>
  PROVE  WorkersInv'
<1>1. /\ worker' \in [Workers ->
           {"none", "test", "measuring", "holding", "submitting", "alerting", "ended"}]
      /\ worker'[w] = p
      /\ \A v \in Workers \ {w} : worker'[v] = worker[v]
  BY DEF WorkersInv, WorkerAt
<1>2. Alive(w) /\ ~Before
  BY DEF WorkersInv, Alive, InCycle
<1>3. \A v \in Workers : Alive(v)' => Alive(v)
  BY <1>1, <1>2 DEF Alive
<1>4. \A v \in Workers : InCycle(v)' => InCycle(v) \/ (v = w /\ active)
  BY <1>1 DEF InCycle, Alive, WorkersInv
<1>5. \A v \in Workers : InCycle(v) => Alive(v)
  BY DEF InCycle
<1>6. \A u, v \in Workers : InCycle(u)' /\ InCycle(v)' => u = v
  BY <1>2, <1>4, <1>5 DEF WorkersInv
<1>7. active' => \A v \in Workers : Alive(v)' => v = monitor'
  BY <1>3 DEF WorkersInv
<1> QED
  BY <1>1, <1>2, <1>6, <1>7 DEF WorkersInv, Before

\* A step in which only the main thread moves, without activating anything.
LEMMA MainMoves ==
  ASSUME WorkersInv, UNCHANGED <<worker, supervisor, monitor>>,
         active' \in {active, FALSE},
         Before' => Before,
         main' \in {"clearing", "joining", "lettingGo", "shutting", "draining",
                    "closing", "stopped"} => ~active'
  PROVE  WorkersInv'
<1>1. CASE UNCHANGED active
  BY <1>1 DEF WorkersInv, Alive, InCycle
<1>2. CASE active' = FALSE
  BY <1>2 DEF WorkersInv, Alive, InCycle
<1> QED
  BY <1>1, <1>2

\* A new thread, when the plugin is inactive or no thread is alive.
LEMMA SpawnMoves ==
  ASSUME WorkersInv, NEW w \in Workers, Spawn(w), ~Before', UNCHANGED active,
         main' = main \/ main' = "up",
         active => \A v \in Workers : ~Alive(v)
  PROVE  WorkersInv'
<1>1. /\ worker[w] = "none"
      /\ worker'[w] = "test"
      /\ \A v \in Workers \ {w} : worker'[v] = worker[v]
      /\ worker' \in [Workers ->
           {"none", "test", "measuring", "holding", "submitting", "alerting", "ended"}]
      /\ monitor' = w
  BY DEF Spawn, WorkerAt, WorkersInv
<1>2. \A v \in Workers : InCycle(v)' => InCycle(v)
  BY <1>1 DEF InCycle, Alive
<1>3. active => \A v \in Workers : Alive(v)' => v = w
  BY <1>1 DEF Alive
<1> QED
  BY <1>1, <1>2, <1>3 DEF WorkersInv

LEMMA WorkersNext == WorkersInv /\ [Next]_vars => WorkersInv'
<1> SUFFICES ASSUME WorkersInv, [Next]_vars PROVE WorkersInv'
  OBVIOUS
<1>1. CASE UNCHANGED vars
  <2>1. UNCHANGED threadVars
    BY <1>1 DEF vars
  <2> QED
    BY <2>1 DEF threadVars, WorkersInv, Before, Alive, InCycle
<1>2. CASE StartMonitoring
  <2>1. Before /\ Before' /\ active' = TRUE /\ UNCHANGED <<worker, supervisor, monitor>>
        /\ main' = "connecting"
    BY <1>2 DEF StartMonitoring, Main, Before
  <2> QED
    BY <2>1 DEF WorkersInv, Alive, InCycle
<1>3. CASE ConnectStore
  BY <1>3, MainMoves DEF ConnectStore, Main, Before, WorkersInv
<1>4. CASE ConnectFails
  BY <1>4, MainMoves DEF ConnectFails, Before, WorkersInv
<1>5. CASE StartThreads
  <2>1. /\ main = "spawning" /\ main' = "up" /\ Spawn(1) /\ UNCHANGED active
        /\ 1 \in Workers
    BY <1>5, MonitorConstants DEF StartThreads, Main, Workers
  <2>2. \A v \in Workers : ~Alive(v)
    BY <2>1 DEF WorkersInv, Before, Alive
  <2> QED
    BY <2>1, <2>2, SpawnMoves DEF Before
<1>6. CASE StopMonitoring \/ Deactivate
  BY <1>6, MainMoves DEF StopMonitoring, Deactivate, Main, Before, WorkersInv
<1>7. CASE ClearThreads
  BY <1>7 DEF ClearThreads, Main, Before, WorkersInv, Alive, InCycle
<1>8. CASE Join \/ LetPoolGo \/ ShutPoolDown \/ Drain \/ CloseStore
  <2>1. main \in {"joining", "lettingGo", "shutting", "draining", "closing"}
        /\ main' \in {"lettingGo", "shutting", "draining", "closing", "stopped"}
        /\ UNCHANGED <<worker, supervisor, monitor, active>>
    BY <1>8 DEF Join, LetPoolGo, ShutPoolDown, Drain, CloseStore, Main
  <2> QED
    BY <2>1, MainMoves DEF Before, WorkersInv
<1>9. CASE \E w \in Workers : WorkerStep(w) \/ Discover(w) \/ Alert(w) \/ Die(w)
  <2> PICK w \in Workers : WorkerStep(w) \/ Discover(w) \/ Alert(w) \/ Die(w)
    BY <1>9
  <2>1. CASE TestActive(w)
    BY <2>1, WorkerMoves DEF TestActive, MainKeeps
  <2>2. CASE BeginWrite(w) \/ ChoosePool(w) \/ SubmitWrite(w) \/ EndCycle(w) \/ Die(w)
    <3>1. \E p \in {"test", "measuring", "holding", "submitting", "alerting", "ended"} :
             WorkerAt(w, p)
      BY <2>2 DEF BeginWrite, ChoosePool, SubmitWrite, EndCycle, Die
    <3>2. InCycle(w) /\ UNCHANGED <<main, active, monitor, supervisor>>
      BY <2>2 DEF BeginWrite, ChoosePool, SubmitWrite, EndCycle, Die, MainKeeps, InCycle, Alive
    <3> QED
      BY <3>1, <3>2, WorkerMoves
  <2>3. CASE Discover(w) \/ Alert(w)
    BY <2>3 DEF Discover, Alert, MainKeeps, WorkersInv, Before, Alive, InCycle
  <2> QED
    BY <2>1, <2>2, <2>3 DEF WorkerStep
<1>10. CASE SuperviseActive \/ WaitForStop
  <2>1. UNCHANGED <<main, active, monitor, worker>> /\ ~Before
    BY <1>10 DEF SuperviseActive, WaitForStop, Supervise, WorkersInv
  <2> QED
    BY <2>1 DEF WorkersInv, Before, Alive, InCycle
<1>11. CASE Watch
  <2>1. UNCHANGED <<main, active>> /\ ~Before
    BY <1>11 DEF Watch, Supervise, WorkersInv
  <2>2. CASE monitor = 0 \/ ~Alive(monitor)
    <3>1. PICK w \in Workers : Spawn(w)
      BY <1>11, <2>2 DEF Watch
    <3>2. active => \A v \in Workers : ~Alive(v)
      BY <2>2, MonitorConstants DEF WorkersInv, Workers
    <3> QED
      BY <2>1, <3>1, <3>2, SpawnMoves DEF Before
  <2>3. CASE ~(monitor = 0 \/ ~Alive(monitor))
    BY <1>11, <2>1, <2>3 DEF Watch, WorkersInv, Before, Alive, InCycle
  <2> QED
    BY <2>2, <2>3
<1>12. CASE (\E p \in Pools : PoolStep(p)) \/ Tick
  <2>1. UNCHANGED threadVars
    BY <1>12 DEF PoolStep, Tick
  <2> QED
    BY <2>1 DEF threadVars, WorkersInv, Before, Alive, InCycle
<1> QED
  BY <1>1, <1>2, <1>3, <1>4, <1>5, <1>6, <1>7, <1>8, <1>9, <1>10, <1>11, <1>12
     DEF Next, MainStep, SupervisorStep

\* One worker at a time is inside a cycle, however the supervisor's restart
\* and the plugin's stop race for the thread.
THEOREM OneWorkerAtATime == Spec => []OneWorker
<1>1. WorkersInv => OneWorker
  <2> SUFFICES ASSUME WorkersInv PROVE OneWorker
    OBVIOUS
  <2> DEFINE S == {w \in Workers : InCycle(w)}
  <2>1. CASE S = {}
    BY <2>1, FS_EmptySet DEF OneWorker
  <2>2. CASE S # {}
    <3>1. PICK x \in S : TRUE
      BY <2>2
    <3>2. S = {x}
      BY <3>1 DEF WorkersInv
    <3>3. Cardinality(S) = 1
      BY <3>2, FS_Singleton
    <3> QED
      BY <3>3 DEF OneWorker
  <2> QED
    BY <2>1, <2>2
<1> QED
  BY <1>1, WorkersInit, WorkersNext, PTL DEF Spec
----------------------------------------------------------------------------
(* The slots of the asynchronous writes.                                   *)

\* The pool of a submission is one there is, and no queue is longer than
\* there are slots: the second follows from the account itself.
SlotsInv ==
    /\ WorkersInv
    /\ free \in Nat
    /\ waiting \in [Pools -> 0..Slots]
    /\ busy \in [Pools -> {"idle", "opening", "writing"}]
    /\ pool \in [Workers -> Nat]
    /\ \A w \in Workers : worker[w] = "submitting" => pool[w] \in Pools
    /\ SlotsAccounted

LEMMA Finite ==
  /\ IsFiniteSet(Holding) /\ Cardinality(Holding) \in Nat
  /\ IsFiniteSet(Running) /\ Cardinality(Running) \in Nat
  /\ IsFiniteSet(Queued) /\ Cardinality(Queued) \in Nat
<1>1. Threads \in Nat /\ Writers \in Nat /\ Slots \in Nat
  BY MonitorConstants, WriterConstants
<1>2. IsFiniteSet(Workers) /\ IsFiniteSet(Pools) /\ IsFiniteSet(1..Slots)
  BY <1>1, FS_Interval DEF Workers, Pools
<1>3. IsFiniteSet(Pools \X (1..Slots))
  BY <1>2, FS_Product
<1>4. IsFiniteSet(Holding)
  BY <1>2, FS_Subset DEF Holding
<1>5. IsFiniteSet(Running)
  BY <1>2, FS_Subset DEF Running
<1>6. IsFiniteSet(Queued)
  BY <1>3, FS_Subset DEF Queued
<1> QED
  BY <1>4, <1>5, <1>6, FS_CardinalityType

\* The tasks of one queue are some of those that are queued.
LEMMA QueueLength ==
  ASSUME SlotsInv, NEW p \in Pools
  PROVE  waiting[p] <= Cardinality(Queued)
<1> DEFINE n == waiting[p]
           f == [i \in 1..n |-> <<p, i>>]
<1>1. n \in 0..Slots /\ n \in Nat
  BY WriterConstants DEF SlotsInv
<1>2. f \in [1..n -> Queued]
  BY <1>1, WriterConstants DEF Queued
<1>3. \A i, j \in 1..n : f[i] = f[j] => i = j
  OBVIOUS
<1>4. f \in Injection(1..n, Queued)
  BY <1>2, <1>3 DEF Injection, IsInjective
<1>5. Cardinality(1..n) <= Cardinality(Queued)
  BY <1>4, Finite, FS_Injection
<1>6. Cardinality(1..n) = n
  BY <1>1, FS_Interval
<1> QED
  BY <1>5, <1>6

LEMMA SlotsInit == Init => SlotsInv
<1> SUFFICES ASSUME Init PROVE SlotsInv
  OBVIOUS
<1>1. Holding = {} /\ Running = {} /\ Queued = {}
  BY WriterConstants DEF Init, WriterInit, Holding, Running, Queued, Pools
<1>2. SlotsAccounted
  BY <1>1, FS_EmptySet, WriterConstants DEF SlotsAccounted, Init, WriterInit
<1> QED
  BY <1>2, WorkersInit, WriterConstants DEF SlotsInv, Init, WriterInit

\* Steps that leave the slots alone.
LEMMA SlotsKept ==
  ASSUME SlotsInv, WorkersInv', UNCHANGED <<free, waiting>>, Holding' = Holding,
         busy' \in [Pools -> {"idle", "opening", "writing"}], Running' = Running,
         pool' \in [Workers -> Nat],
         \A w \in Workers : worker'[w] = "submitting" => pool'[w] \in Pools
  PROVE  SlotsInv'
<1>1. Queued' = Queued
  BY DEF Queued, Pools
<1>2. SlotsAccounted'
  BY <1>1 DEF SlotsInv, SlotsAccounted
<1> QED
  BY <1>2 DEF SlotsInv, Pools

LEMMA SlotsNext == SlotsInv /\ [Next]_vars => SlotsInv'
<1> SUFFICES ASSUME SlotsInv, [Next]_vars PROVE SlotsInv'
  OBVIOUS
<1>0. WorkersInv /\ WorkersInv'
  BY WorkersNext DEF SlotsInv
<1>1. CASE \/ UNCHANGED vars \/ StartMonitoring \/ ConnectStore \/ ConnectFails
           \/ StopMonitoring \/ Deactivate \/ ClearThreads \/ Join \/ LetPoolGo \/ ShutPoolDown
           \/ Drain \/ CloseStore \/ SuperviseActive \/ WaitForStop \/ Tick
  <2>1. UNCHANGED <<free, waiting, busy, worker, pool>>
    <3>1. CASE UNCHANGED vars
      BY <3>1 DEF vars, writerVars, threadVars
    <3>2. CASE \/ StartMonitoring \/ ConnectStore \/ ConnectFails \/ StopMonitoring
               \/ Deactivate \/ ClearThreads \/ Join
      BY <3>2 DEF StartMonitoring, ConnectStore, ConnectFails, StopMonitoring, Deactivate, ClearThreads,
                  Join, Connect, Close, writerVars
    <3>3. CASE LetPoolGo \/ ShutPoolDown \/ Drain \/ CloseStore
      BY <3>3 DEF LetPoolGo, ShutPoolDown, Drain, CloseStore, LetGo, ShutDown, Close,
                  writerVars
    <3>4. CASE SuperviseActive \/ WaitForStop \/ Tick
      BY <3>4 DEF SuperviseActive, WaitForStop, Supervise, Tick, writerVars, threadVars
    <3> QED
      BY <1>1, <3>1, <3>2, <3>3, <3>4
  <2>2. Holding' = Holding /\ Running' = Running
    BY <2>1 DEF Holding, Running
  <2> QED
    BY <1>0, <2>1, <2>2, SlotsKept DEF SlotsInv
<1>2. CASE StartThreads \/ Watch
  <2>1. UNCHANGED <<free, waiting, busy, pool>>
    BY <1>2 DEF StartThreads, Watch, Supervise, writerVars
  <2>2. UNCHANGED worker \/ \E w \in Workers : Spawn(w)
    BY <1>2, MonitorConstants DEF StartThreads, Watch, Workers
  <2>3. \A v \in Workers : worker'[v] = worker[v] \/ (worker[v] = "none" /\ worker'[v] = "test")
    BY <1>0, <2>2 DEF Spawn, WorkerAt, WorkersInv
  <2>4. Holding' = Holding /\ Running' = Running
    BY <2>1, <2>3 DEF Holding, Running
  <2> QED
    BY <1>0, <2>1, <2>3, <2>4, SlotsKept DEF SlotsInv
<1>3. CASE \E w \in Workers : WorkerStep(w) \/ Discover(w) \/ Alert(w) \/ Die(w)
  <2> PICK w \in Workers : WorkerStep(w) \/ Discover(w) \/ Alert(w) \/ Die(w)
    BY <1>3
  <2>1. CASE TestActive(w) \/ EndCycle(w) \/ Die(w) \/ Discover(w) \/ Alert(w)
    <3>1. UNCHANGED <<free, waiting, busy, pool>>
      BY <2>1 DEF TestActive, EndCycle, Die, Discover, Alert, writerVars
    <3>2. \A v \in Workers : worker'[v] # worker[v] =>
             /\ worker[v] \in {"test", "measuring", "alerting"}
             /\ worker'[v] \in {"test", "measuring", "ended"}
      BY <1>0, <2>1 DEF TestActive, EndCycle, Die, Discover, Alert, WorkerAt, WorkersInv
    <3>3. Holding' = Holding /\ Running' = Running
      BY <3>1, <3>2 DEF Holding, Running
    <3> QED
      BY <1>0, <3>1, <3>2, <3>3, SlotsKept DEF SlotsInv
  <2>2. CASE BeginWrite(w)
    <3>1. CASE Acquire /\ WorkerAt(w, "holding")
      <4>1. Holding' = Holding \cup {w} /\ w \notin Holding
        BY <1>0, <2>2, <3>1 DEF BeginWrite, WorkerAt, WorkersInv, Holding
      <4>2. /\ free > 0 /\ free' = free - 1
            /\ UNCHANGED <<waiting, busy, pool>>
            /\ Running' = Running /\ Queued' = Queued
        BY <2>2, <3>1 DEF BeginWrite, Acquire, Running, Queued
      <4>3. Cardinality(Holding') = Cardinality(Holding) + 1
        BY <4>1, Finite, FS_AddElement
      <4>4. SlotsAccounted'
        BY <4>2, <4>3, Finite DEF SlotsInv, SlotsAccounted
      <4>5. \A v \in Workers : worker'[v] = "submitting" => worker[v] = "submitting"
        BY <1>0, <3>1 DEF WorkerAt, WorkersInv
      <4> QED
        BY <1>0, <4>2, <4>4, <4>5 DEF SlotsInv
    <3>2. CASE NoSlot /\ WorkerAt(w, "alerting")
      <4>1. UNCHANGED <<free, waiting, busy, pool>>
        BY <2>2, <3>2 DEF BeginWrite, NoSlot, writerVars
      <4>2. \A v \in Workers : worker'[v] = worker[v]
                               \/ (worker[v] = "measuring" /\ worker'[v] = "alerting")
        BY <1>0, <2>2, <3>2 DEF BeginWrite, WorkerAt, WorkersInv
      <4>3. Holding' = Holding /\ Running' = Running
        BY <4>1, <4>2 DEF Holding, Running
      <4> QED
        BY <1>0, <4>1, <4>2, <4>3, SlotsKept DEF SlotsInv
    <3> QED
      BY <2>2, <3>1, <3>2 DEF BeginWrite
  <2>3. CASE ChoosePool(w)
    <3>1. PICK p \in Pools : GetPool(p) /\ pool' = [pool EXCEPT ![w] = p]
      BY <2>3 DEF ChoosePool
    <3>2. UNCHANGED <<free, waiting, busy>>
      BY <3>1 DEF GetPool
    <3>3. /\ worker[w] = "holding" /\ worker'[w] = "submitting"
          /\ \A v \in Workers \ {w} : worker'[v] = worker[v]
      BY <1>0, <2>3 DEF ChoosePool, WorkerAt, WorkersInv
    <3>4. Holding' = Holding /\ Running' = Running
      BY <3>2, <3>3 DEF Holding, Running
    <3>5. /\ pool' \in [Workers -> Nat] /\ pool'[w] = p
          /\ \A v \in Workers \ {w} : pool'[v] = pool[v]
      BY <3>1, WriterConstants DEF SlotsInv, Pools
    <3>6. \A v \in Workers : worker'[v] = "submitting" => pool'[v] \in Pools
      BY <3>1, <3>3, <3>5 DEF SlotsInv
    <3> QED
      BY <1>0, <3>2, <3>4, <3>5, <3>6, SlotsKept DEF SlotsInv
  <2>4. CASE SubmitWrite(w)
    <3> DEFINE p == pool[w]
    <3>1. /\ worker[w] = "submitting" /\ Submit(p) /\ p \in Pools
          /\ worker'[w] = "alerting"
          /\ \A v \in Workers \ {w} : worker'[v] = worker[v]
      BY <1>0, <2>4 DEF SubmitWrite, WorkerAt, WorkersInv, SlotsInv
    <3>2. Holding' = Holding \ {w} /\ w \in Holding
      BY <3>1 DEF Holding
    <3>3. Cardinality(Holding') = Cardinality(Holding) - 1
      BY <3>2, Finite, FS_RemoveElement
    <3>4. Cardinality(Holding') \in Nat
      BY <3>2, Finite, FS_RemoveElement, FS_CardinalityType
    <3>5. busy' = busy /\ Running' = Running
      BY <3>1 DEF Submit, Running
    <3>6. /\ pool' \in [Workers -> Nat]
          /\ \A v \in Workers : worker'[v] = "submitting" => pool'[v] \in Pools
      BY <2>4, <3>1 DEF SubmitWrite, SlotsInv
    <3>7. CASE p \in down
      <4>1. free' = free + 1 /\ waiting' = waiting /\ Queued' = Queued
        BY <3>1, <3>7 DEF Submit, Queued
      <4>2. SlotsAccounted'
        BY <3>3, <3>5, <4>1, Finite DEF SlotsInv, SlotsAccounted
      <4> QED
        BY <1>0, <3>5, <3>6, <4>1, <4>2 DEF SlotsInv
    <3>8. CASE p \notin down
      <4> DEFINE n == waiting[p] + 1
      <4>1. free' = free /\ waiting' = [waiting EXCEPT ![p] = n]
        BY <3>1, <3>8 DEF Submit
      <4>2. waiting[p] \in Nat /\ waiting[p] <= Cardinality(Queued)
        BY <3>1, QueueLength, WriterConstants DEF SlotsInv
      <4>3. n \in 1..Slots
        BY <3>3, <3>4, <4>2, Finite, WriterConstants DEF SlotsInv, SlotsAccounted
      <4>4. waiting' \in [Pools -> 0..Slots] /\ waiting'[p] = n
            /\ \A q \in Pools \ {p} : waiting'[q] = waiting[q]
        BY <3>1, <4>1, <4>3 DEF SlotsInv
      <4>5. Queued' = Queued \cup {<<p, n>>} /\ <<p, n>> \notin Queued
        <5>1. \A q \in Pools, i \in 1..Slots :
                 i <= waiting'[q] <=> i <= waiting[q] \/ (q = p /\ i = n)
          BY <4>2, <4>4, WriterConstants DEF SlotsInv
        <5>2. \A t \in Pools \X (1..Slots) :
                 t[2] <= waiting'[t[1]] <=> t[2] <= waiting[t[1]] \/ t = <<p, n>>
          BY <5>1
        <5>3. <<p, n>> \in Pools \X (1..Slots) /\ ~(n <= waiting[p])
          BY <3>1, <4>2, <4>3
        <5> QED
          BY <5>2, <5>3 DEF Queued
      <4>6. Cardinality(Queued') = Cardinality(Queued) + 1
        BY <4>5, Finite, FS_AddElement
      <4>7. SlotsAccounted'
        BY <3>3, <3>5, <4>1, <4>6, Finite DEF SlotsInv, SlotsAccounted
      <4> QED
        BY <1>0, <3>5, <3>6, <4>1, <4>4, <4>7 DEF SlotsInv
    <3> QED
      BY <3>7, <3>8
  <2> QED
    BY <2>1, <2>2, <2>3, <2>4 DEF WorkerStep
<1>4. CASE \E p \in Pools : PoolStep(p)
  <2> PICK p \in Pools : PoolStep(p)
    BY <1>4
  <2>1. UNCHANGED <<worker, pool>> /\ Holding' = Holding
    BY DEF PoolStep, threadVars, Holding
  <2>2. CASE TakeTask(p)
    <3> DEFINE n == waiting[p]
    <3>1. /\ n \in 1..Slots
          /\ free' = free
          /\ waiting' \in [Pools -> 0..Slots] /\ waiting'[p] = n - 1
          /\ \A q \in Pools \ {p} : waiting'[q] = waiting[q]
      BY <2>2, WriterConstants DEF TakeTask, SlotsInv
    <3>2. /\ busy[p] = "idle" /\ busy' = [busy EXCEPT ![p] = "opening"]
          /\ busy' \in [Pools -> {"idle", "opening", "writing"}]
      BY <2>2 DEF TakeTask, SlotsInv
    <3>3. Running' = Running \cup {p} /\ p \notin Running
      BY <3>2 DEF Running, SlotsInv
    <3>4. Queued' = Queued \ {<<p, n>>} /\ <<p, n>> \in Queued
      <4>1. \A q \in Pools, i \in 1..Slots :
               i <= waiting'[q] <=> i <= waiting[q] /\ ~(q = p /\ i = n)
        BY <3>1, WriterConstants DEF SlotsInv
      <4>2. \A t \in Pools \X (1..Slots) :
               t[2] <= waiting'[t[1]] <=> t[2] <= waiting[t[1]] /\ t # <<p, n>>
        BY <4>1
      <4>3. <<p, n>> \in Pools \X (1..Slots)
        BY <3>1
      <4> QED
        BY <4>2, <4>3, <3>1, WriterConstants DEF Queued
    <3>5. /\ Cardinality(Queued') = Cardinality(Queued) - 1
          /\ Cardinality(Running') = Cardinality(Running) + 1
      BY <3>3, <3>4, Finite, FS_AddElement, FS_RemoveElement
    <3>6. SlotsAccounted'
      BY <2>1, <3>1, <3>5, Finite DEF SlotsInv, SlotsAccounted
    <3> QED
      BY <1>0, <2>1, <3>1, <3>2, <3>6 DEF SlotsInv
  <2>3. CASE OpenClient(p)
    <3>1. /\ UNCHANGED <<free, waiting>>
          /\ busy[p] = "opening" /\ busy' = [busy EXCEPT ![p] = "writing"]
          /\ busy' \in [Pools -> {"idle", "opening", "writing"}]
      BY <2>3 DEF OpenClient, SlotsInv
    <3>2. Running' = Running
      BY <3>1 DEF Running, SlotsInv
    <3> QED
      BY <1>0, <2>1, <3>1, <3>2, SlotsKept DEF SlotsInv
  <2>4. CASE EndTask(p)
    <3>1. /\ free' = free + 1 /\ waiting' = waiting /\ Queued' = Queued
          /\ busy[p] # "idle" /\ busy' = [busy EXCEPT ![p] = "idle"]
          /\ busy' \in [Pools -> {"idle", "opening", "writing"}]
      BY <2>4 DEF EndTask, SlotsInv, Queued
    <3>2. Running' = Running \ {p} /\ p \in Running
      BY <3>1 DEF Running, SlotsInv
    <3>3. Cardinality(Running') = Cardinality(Running) - 1
      BY <3>2, Finite, FS_RemoveElement
    <3>4. SlotsAccounted'
      BY <2>1, <3>1, <3>3, Finite DEF SlotsInv, SlotsAccounted
    <3> QED
      BY <1>0, <2>1, <3>1, <3>4 DEF SlotsInv
  <2> QED
    BY <2>2, <2>3, <2>4 DEF PoolStep, TaskStep
<1> QED
  BY <1>1, <1>2, <1>3, <1>4 DEF Next, MainStep, SupervisorStep

\* No slot is lost or won, whichever pool a task goes to and however
\* submitting it fails.
THEOREM SlotsAreAccounted == Spec => []SlotsAccounted
<1>1. SlotsInv => SlotsAccounted
  BY DEF SlotsInv
<1> QED
  BY <1>1, SlotsInit, SlotsNext, PTL DEF Spec

----------------------------------------------------------------------------
(* The stop.                                                               *)

Stopping == {"shutting", "draining", "closing", "stopped"}

\* A pool that was told takes nothing more, so that what is drained stays so.
TakenInv ==
    /\ writer \in Pools \cup {0} /\ taken \in Pools \cup {0}
    /\ waiting \in [Pools -> Nat] /\ DOMAIN busy = Pools
    /\ main \notin Stopping => taken = 0
    /\ main \in {"draining", "closing"} /\ taken # 0 => taken \in down
    /\ main = "closing" /\ taken # 0 => Drained(taken)

\* A write that begins after the stop uses up the cycle that was under way:
\* nobody else is in one, and none is begun again.
LateInv ==
    /\ late \in {0, 1}
    /\ active \/ Before => late = 0
    /\ late = 1 => \A w \in Workers : worker[w] # "measuring"

LEMMA TakenNext == ASSUME TakenInv, [Next]_vars PROVE TakenInv'
<1>1. CASE UNCHANGED vars
  BY <1>1 DEF vars, writerVars, threadVars, TakenInv, Drained
<1>2. CASE \/ StartMonitoring \/ ConnectStore \/ ConnectFails \/ StartThreads
           \/ StopMonitoring \/ Deactivate \/ ClearThreads \/ Join
  <2>1. /\ UNCHANGED <<writer, taken, waiting, busy, down>>
        /\ main \notin Stopping /\ main' \notin Stopping
    BY <1>2 DEF StartMonitoring, ConnectStore, ConnectFails, StartThreads, StopMonitoring, Deactivate,
         ClearThreads, Join, Main, Connect, Close, writerVars, Stopping
  <2> QED
    BY <2>1 DEF TakenInv, Stopping
<1>3. CASE LetPoolGo
  <2>1. CASE writer = 0
    <3>1. taken = 0 /\ UNCHANGED <<writer, taken, waiting, busy, down>>
      BY <1>3, <2>1 DEF LetPoolGo, TakenInv, Stopping, writerVars
    <3> QED
      BY <3>1 DEF TakenInv
  <2>2. CASE writer # 0
    BY <1>3, <2>2 DEF LetPoolGo, LetGo, TakenInv, Stopping
  <2> QED
    BY <2>1, <2>2
<1>4. CASE ShutPoolDown
  BY <1>4 DEF ShutPoolDown, ShutDown, Main, TakenInv, Stopping
<1>5. CASE Drain
  BY <1>5 DEF Drain, Main, TakenInv, Stopping, Drained, writerVars
<1>6. CASE CloseStore
  BY <1>6 DEF CloseStore, Main, Close, TakenInv, Stopping
<1>7. CASE \E w \in Workers : SubmitWrite(w)
  <2>1. PICK w \in Workers : SubmitWrite(w)
    BY <1>7
  <2> DEFINE p == pool[w]
  <2>2. /\ Submit(p) /\ UNCHANGED <<main, taken>>
        /\ UNCHANGED <<writer, busy, down>>
    BY <2>1 DEF SubmitWrite, MainKeeps, Submit
  <2>3. waiting' \in [Pools -> Nat]
    BY <2>2 DEF Submit, TakenInv
  <2>4. taken # 0 /\ taken \in down => waiting'[taken] = waiting[taken]
    BY <2>2 DEF Submit, TakenInv
  <2> QED
    BY <2>2, <2>3, <2>4 DEF TakenInv, Drained
<1>8. CASE \E w \in Workers : ChoosePool(w)
  <2>1. UNCHANGED <<main, taken, waiting, busy, down>> /\ writer' \in Pools
    BY <1>8 DEF ChoosePool, GetPool, MainKeeps
  <2> QED
    BY <2>1 DEF TakenInv, Drained
<1>9. CASE \E w \in Workers : TestActive(w) \/ BeginWrite(w) \/ EndCycle(w) \/ Discover(w)
                               \/ Alert(w) \/ Die(w)
  <2>1. UNCHANGED <<main, taken, writer, waiting, busy, down>>
    BY <1>9 DEF TestActive, BeginWrite, EndCycle, Discover, Alert, Die, MainKeeps, writerVars,
         Acquire, NoSlot
  <2> QED
    BY <2>1 DEF TakenInv, Drained
<1>10. CASE SupervisorStep \/ Tick
  <2>1. UNCHANGED <<main, taken, writer, waiting, busy, down>>
    BY <1>10 DEF SupervisorStep, SuperviseActive, Watch, WaitForStop, Supervise, Tick,
         writerVars, threadVars
  <2> QED
    BY <2>1 DEF TakenInv, Drained
<1>11. CASE \E p \in Pools : PoolStep(p)
  <2>1. PICK p \in Pools : TaskStep(p) /\ UNCHANGED threadVars
    BY <1>11 DEF PoolStep
  <2>2. UNCHANGED <<main, taken, writer, down>>
    BY <2>1 DEF threadVars, TaskStep, TakeTask, OpenClient, EndTask
  <2>3. waiting' \in [Pools -> Nat] /\ DOMAIN busy' = Pools
    BY <2>1 DEF TaskStep, TakeTask, OpenClient, EndTask, TakenInv
  <2>4. taken # 0 /\ Drained(taken) => Drained(taken)'
    BY <2>1, <2>2 DEF TaskStep, TakeTask, OpenClient, EndTask, TakenInv, Drained
  <2> QED
    BY <2>2, <2>3, <2>4 DEF TakenInv
<1> QED
  BY <1>1, <1>2, <1>3, <1>4, <1>5, <1>6, <1>7, <1>8, <1>9, <1>10, <1>11
     DEF Next, MainStep, WorkerStep

\* Nobody who was not measuring is so after a step, unless the plugin is
\* active.
LEMMA LateNext == ASSUME WorkersInv, LateInv, [Next]_vars PROVE LateInv'
<1>1. CASE UNCHANGED vars
  BY <1>1 DEF vars, threadVars, LateInv, Before
<1>2. CASE \E w \in Workers : BeginWrite(w)
  <2>1. PICK w \in Workers : BeginWrite(w)
    BY <1>2
  <2>2. /\ worker[w] = "measuring" /\ worker'[w] # "measuring"
        /\ \A v \in Workers \ {w} : worker'[v] = worker[v]
        /\ late' = (IF active THEN late ELSE late + 1)
        /\ UNCHANGED <<main, active>>
    BY <2>1 DEF BeginWrite, WorkerAt, WorkersInv, MainKeeps
  <2>3. ~Before /\ late = 0
    BY <2>2 DEF WorkersInv, LateInv
  <2>4. \A v \in Workers : worker'[v] # "measuring"
    BY <2>2 DEF WorkersInv, InCycle, Alive
  <2> QED
    BY <2>2, <2>3, <2>4 DEF LateInv, Before
<1>3. CASE \E w \in Workers : TestActive(w) \/ ChoosePool(w) \/ SubmitWrite(w) \/ EndCycle(w)
                               \/ Discover(w) \/ Alert(w) \/ Die(w)
  <2>1. PICK w \in Workers : TestActive(w) \/ ChoosePool(w) \/ SubmitWrite(w) \/ EndCycle(w)
                             \/ Discover(w) \/ Alert(w) \/ Die(w)
    BY <1>3
  <2>2. UNCHANGED <<main, active, late>>
    BY <2>1 DEF TestActive, ChoosePool, SubmitWrite, EndCycle, Discover, Alert, Die, MainKeeps
  <2>3. \A v \in Workers : worker'[v] = "measuring" => worker[v] = "measuring" \/ active
    BY <2>1 DEF TestActive, ChoosePool, SubmitWrite, EndCycle, Discover, Alert, Die, WorkerAt,
         WorkersInv
  <2> QED
    BY <2>2, <2>3 DEF LateInv, Before
<1>4. CASE StartThreads \/ Watch
  <2>1. /\ UNCHANGED <<active, late>>
        /\ Before' => Before
        /\ UNCHANGED worker \/ \E w \in Workers : Spawn(w)
    BY <1>4, MonitorConstants DEF StartThreads, Watch, Supervise, Main, Before, Workers
  <2>2. \A v \in Workers : worker'[v] = "measuring" => worker[v] = "measuring"
    BY <2>1 DEF Spawn, WorkerAt, WorkersInv
  <2> QED
    BY <2>1, <2>2 DEF LateInv
<1>5. CASE StartMonitoring
  BY <1>5 DEF StartMonitoring, Main, Before, LateInv
<1>6. CASE \/ ConnectStore \/ ConnectFails \/ StopMonitoring \/ Deactivate \/ ClearThreads
           \/ Join \/ LetPoolGo \/ ShutPoolDown \/ Drain \/ CloseStore
  <2>1. UNCHANGED <<worker, late>> /\ active' \in {active, FALSE} /\ (Before' => Before)
    BY <1>6 DEF ConnectStore, ConnectFails, StopMonitoring, Deactivate, ClearThreads, Join, LetPoolGo,
         ShutPoolDown, Drain, CloseStore, Main, Before
  <2>2. active' => active
    BY <2>1
  <2> QED
    BY <2>1, <2>2 DEF LateInv
<1>7. CASE SuperviseActive \/ WaitForStop \/ Tick \/ \E p \in Pools : PoolStep(p)
  <2>1. UNCHANGED <<main, active, worker, late>>
    BY <1>7 DEF SuperviseActive, WaitForStop, Supervise, Tick, PoolStep, threadVars
  <2> QED
    BY <2>1 DEF LateInv, Before
<1> QED
  BY <1>1, <1>2, <1>3, <1>4, <1>5, <1>6, <1>7 DEF Next, MainStep, WorkerStep, SupervisorStep

\* The client is closed only when the pool that was taken down is drained,
\* and one write at most begins after the stop.
THEOREM StoreIsClosedLast == Spec => StoreClosedLast
<1> DEFINE StopInv == WorkersInv /\ TakenInv /\ LateInv
           Closed == main = "closing" /\ main' = "stopped" /\ taken # 0 =>
                       waiting[taken] = 0 /\ busy[taken] = "idle"
<1>1. Init => StopInv
  BY WorkersInit, WriterConstants
     DEF Init, WriterInit, TakenInv, LateInv, Stopping, Before, Pools
<1>2. StopInv /\ [Next]_vars => StopInv'
  BY WorkersNext, TakenNext, LateNext
<1>3. StopInv => late <= 1
  BY DEF LateInv
<1>4. StopInv => [Closed]_vars
  BY DEF TakenInv, Drained
<1>5. StopInv /\ [Next]_vars => [Closed]_vars
  BY <1>4
<1> QED
  BY <1>1, <1>2, <1>3, <1>5, PTL DEF Spec, StoreClosedLast
----------------------------------------------------------------------------
(* The budget of the notifications.                                        *)

\* Counted are the last `count` notifications, each sent a window before the
\* budget is given back; the others were sent a window ago or more.
BudgetInv ==
    /\ now \in Nat /\ resetAt \in Nat
    /\ sent \in Seq(Nat)
    /\ count \in 0..MaxNotifications /\ count <= Len(sent)
    /\ count > 0 => /\ resetAt > 0
                    /\ \A i \in 1..Len(sent) : sent[i] + ResetWindow <= resetAt
    /\ \A i \in 1..(Len(sent) - count) : sent[i] + ResetWindow <= now
    /\ \A i \in 1..Len(sent) : sent[i] <= now
    /\ BudgetHolds

LEMMA BudgetInit == Init => BudgetInv
BY AlertConstants DEF Init, AlertInit, BudgetInv, BudgetHolds

\* A notification that goes out finds the one MaxNotifications before it
\* among those that no longer count.
LEMMA SendKeepsBudget ==
  ASSUME BudgetInv, NEW delivered \in BOOLEAN, SendNotification(delivered), UNCHANGED now
  PROVE  BudgetInv'
<1> DEFINE used  == IF ResetDue THEN 0 ELSE count
           until == IF ResetDue THEN 0 ELSE resetAt
           n     == Len(sent)
<1>1. /\ MaxNotifications \in Nat \ {0} /\ ResetWindow \in Nat \ {0}
      /\ n \in Nat /\ now \in Nat /\ DOMAIN sent = 1..n
      /\ \A i \in 1..n : sent[i] \in Nat
  BY AlertConstants DEF BudgetInv
<1>2. /\ used \in 0..MaxNotifications /\ used <= n /\ until \in Nat
      /\ used > 0 => /\ until > 0
                     /\ \A i \in 1..n : sent[i] + ResetWindow <= until
      /\ \A i \in 1..(n - used) : sent[i] + ResetWindow <= now
  <2>1. CASE ResetDue
    <3>1. \A i \in 1..n : sent[i] + ResetWindow <= now
      <4>1. CASE count > 0
        BY <1>1, <2>1, <4>1 DEF BudgetInv, ResetDue
      <4>2. CASE count = 0
        BY <4>2 DEF BudgetInv
      <4> QED
        BY <4>1, <4>2 DEF BudgetInv
    <3> QED
      BY <1>1, <2>1, <3>1
  <2>2. CASE ~ResetDue
    BY <1>1, <2>2 DEF BudgetInv
  <2> QED
    BY <2>1, <2>2
<1>3. CASE delivered /\ used < MaxNotifications
  <2>1. count' = used + 1 /\ resetAt' = now + ResetWindow /\ sent' = Append(sent, now)
    BY <1>3 DEF SendNotification
  <2>2. /\ sent' \in Seq(Nat) /\ Len(sent') = n + 1 /\ sent'[n + 1] = now
        /\ \A i \in 1..n : sent'[i] = sent[i]
        /\ DOMAIN sent' = 1..(n + 1)
    BY <1>1, <2>1 DEF BudgetInv
  <2>3. \A i \in 1..n : sent[i] <= now
    BY DEF BudgetInv
  <2>4. \A i \in 1..(n + 1) : sent'[i] + ResetWindow <= resetAt'
    BY <1>1, <2>1, <2>2, <2>3
  <2>5. \A i \in 1..(n - used) : sent'[i] + ResetWindow <= now
    BY <1>1, <1>2, <2>2
  <2>6. BudgetHolds'
    <3> SUFFICES ASSUME NEW i \in 1..(n + 1), NEW j \in 1..(n + 1), j = i + MaxNotifications
                 PROVE  sent'[j] - sent'[i] >= ResetWindow
      BY <2>2 DEF BudgetHolds
    <3>1. sent'[i] \in Nat /\ sent'[j] \in Nat
      BY <1>1, <2>2
    <3>2. CASE j = n + 1
      <4>1. i \in 1..(n - used)
        BY <1>1, <1>2, <1>3, <3>2
      <4>2. sent'[i] + ResetWindow <= now /\ sent'[j] = now
        BY <2>2, <2>5, <3>2, <4>1
      <4> QED
        BY <1>1, <3>1, <4>2
    <3>3. CASE j \in 1..n
      <4>1. i \in 1..n
        BY <1>1, <3>3
      <4>2. sent[j] - sent[i] >= ResetWindow
        BY <1>1, <3>3, <4>1 DEF BudgetInv, BudgetHolds
      <4> QED
        BY <2>2, <3>3, <4>1, <4>2
    <3> QED
      BY <1>1, <3>2, <3>3
  <2>7. \A i \in 1..(n + 1) : sent'[i] <= now
    BY <1>1, <2>2, <2>3
  <2>8. count' \in 1..MaxNotifications /\ count' <= n + 1 /\ n + 1 - count' = n - used
    BY <1>1, <1>2, <1>3, <2>1
  <2>9. resetAt' \in Nat /\ resetAt' > 0
    BY <1>1, <2>1
  <2>10. \A i \in 1..(Len(sent') - count') : sent'[i] + ResetWindow <= now'
    <3>1. Len(sent') - count' = n - used
      BY <2>2, <2>8
    <3> QED
      BY <2>5, <3>1
  <2>11. /\ \A i \in 1..Len(sent') : sent'[i] + ResetWindow <= resetAt'
         /\ \A i \in 1..Len(sent') : sent'[i] <= now'
         /\ count' <= Len(sent')
    BY <2>2, <2>4, <2>7, <2>8
  <2>12. sent' \in Seq(Nat) /\ now' \in Nat /\ count' \in 0..MaxNotifications
    BY <1>1, <2>2, <2>8
  <2> HIDE DEF used, until, n
  <2> QED
    BY <2>6, <2>9, <2>10, <2>11, <2>12 DEF BudgetInv
<1>4. CASE ~(delivered /\ used < MaxNotifications)
  <2>1. count' = used /\ resetAt' = until /\ sent' = sent
    BY <1>4 DEF SendNotification
  <2> QED
    BY <1>1, <1>2, <2>1 DEF BudgetInv, BudgetHolds
<1> QED
  BY <1>3, <1>4

LEMMA BudgetNext == BudgetInv /\ [Next]_vars => BudgetInv'
<1> SUFFICES ASSUME BudgetInv, [Next]_vars PROVE BudgetInv'
  OBVIOUS
<1>1. CASE UNCHANGED alertVars
  BY <1>1 DEF alertVars, BudgetInv, BudgetHolds
<1>2. CASE Tick
  <2>1. now' = now + 1 /\ now \in Nat /\ now' \in Nat /\ UNCHANGED <<count, resetAt, sent>>
    BY <1>2 DEF Tick, BudgetInv
  <2>2. ResetWindow \in Nat /\ Len(sent) \in Nat /\ count \in Nat
    BY AlertConstants DEF BudgetInv
  <2>3. \A i \in 1..Len(sent) : sent[i] \in Nat
    BY DEF BudgetInv
  <2>4. \A i \in 1..Len(sent) : sent[i] <= now'
    BY <2>1, <2>3 DEF BudgetInv
  <2>5. \A i \in 1..(Len(sent) - count) : sent[i] + ResetWindow <= now'
    <3> SUFFICES ASSUME NEW i \in 1..(Len(sent) - count) PROVE sent[i] + ResetWindow <= now'
      OBVIOUS
    <3>1. i \in 1..Len(sent) /\ sent[i] + ResetWindow <= now
      BY <2>2 DEF BudgetInv
    <3> QED
      BY <2>1, <2>2, <2>3, <3>1
  <2>6. BudgetHolds'
    BY <2>1 DEF BudgetInv, BudgetHolds
  <2> QED
    BY <2>1, <2>4, <2>5, <2>6 DEF BudgetInv
<1>3. CASE \E w \in Workers : Alert(w)
  <2>1. PICK issue \in Issues : CheckAlert(issue)
    BY <1>3 DEF Alert
  <2>2. \/ UNCHANGED <<count, resetAt, sent, now>>
        \/ \E delivered \in BOOLEAN : SendNotification(delivered) /\ UNCHANGED now
    BY <2>1 DEF CheckAlert, Above, Below
  <2> QED
    BY <2>2, SendKeepsBudget DEF BudgetInv, BudgetHolds
<1>4. CASE \E w \in Workers : Discover(w)
  <2>1. \E delivered \in BOOLEAN : SendNotification(delivered) /\ UNCHANGED now
    BY <1>4 DEF Discover, Announce
  <2> QED
    BY <2>1, SendKeepsBudget
<1> QED
  <2>1. CASE UNCHANGED vars
    BY <1>1, <2>1 DEF vars
  <2>2. CASE MainStep \/ StopMonitoring
    BY <1>1, <2>2 DEF MainStep, StartMonitoring, ConnectStore, ConnectFails, StartThreads,
       StopMonitoring, Deactivate, ClearThreads, Join, LetPoolGo, ShutPoolDown, Drain, CloseStore
  <2>3. CASE \E w \in Workers : WorkerStep(w) \/ Die(w)
    BY <1>1, <2>3 DEF WorkerStep, TestActive, BeginWrite, ChoosePool, SubmitWrite, EndCycle, Die
  <2>4. CASE SupervisorStep
    BY <1>1, <2>4 DEF SupervisorStep, SuperviseActive, Watch, WaitForStop, Supervise
  <2>5. CASE \E p \in Pools : PoolStep(p)
    BY <1>1, <2>5 DEF PoolStep
  <2> QED
    BY <1>2, <1>3, <1>4, <2>1, <2>2, <2>3, <2>4, <2>5 DEF Next

\* In any period shorter than the window, no more notifications go out than
\* the budget allows, although the budget slides with every one of them.
THEOREM BudgetIsKept == Spec => []BudgetHolds
<1>1. BudgetInv => BudgetHolds
  BY DEF BudgetInv
<1> QED
  BY <1>1, BudgetInit, BudgetNext, PTL DEF Spec
----------------------------------------------------------------------------
(* The way to the end, and back from a death.                               *)

AfterStop == main \in {"clearing", "joining", "lettingGo", "shutting", "draining", "closing",
                       "stopped"}

\* What stop_monitoring, the supervisor, a worker and the thread of a pool
\* still have to do once the plugin is inactive.
StopLeft ==
    CASE main = "clearing" -> 6 [] main = "joining" -> 5 [] main = "lettingGo" -> 4
      [] main = "shutting" -> 3 [] main = "draining" -> 2 [] main = "closing" -> 1 [] OTHER -> 0

SupervisorLeft ==
    CASE supervisor = "watching" -> 2 [] supervisor \in {"waiting", "test"} -> 1 [] OTHER -> 0

CycleLeft(w) ==
    CASE worker[w] = "measuring" -> 5 [] worker[w] = "holding" -> 4
      [] worker[w] = "submitting" -> 3 [] worker[w] = "alerting" -> 2
      [] worker[w] = "test" -> 1 [] OTHER -> 0

TasksLeft(p) ==
    3 * waiting[p]
      + CASE busy[p] = "opening" -> 2 [] busy[p] = "writing" -> 1 [] OTHER -> 0

\* Once the plugin is inactive, each step of a thread brings that thread
\* nearer its end and none is brought back, but for one new worker by a
\* supervisor that looked before; no pool that was told to stop gets a task.
WindingDown ==
    AfterStop =>
      /\ AfterStop'
      /\ StopLeft' <= StopLeft /\ (MainStep => StopLeft' < StopLeft)
      /\ SupervisorLeft' <= SupervisorLeft
      /\ SupervisorStep => SupervisorLeft' < SupervisorLeft
      /\ \A w \in Workers :
           \/ /\ CycleLeft(w)' <= CycleLeft(w)
              /\ WorkerStep(w) \/ Die(w) => CycleLeft(w)' < CycleLeft(w)
           \/ /\ worker[w] = "none" /\ worker'[w] = "test"
              /\ supervisor = "watching" /\ supervisor' = "waiting"
      /\ \A p \in Pools :
           /\ PoolStep(p) => TasksLeft(p)' < TasksLeft(p)
           /\ p \in down => TasksLeft(p)' <= TasksLeft(p)

\* Nobody has anything left to do.
WoundDown ==
    /\ AfterStop /\ StopLeft = 0 /\ SupervisorLeft = 0
    /\ \A w \in Workers : CycleLeft(w) = 0
    /\ \A p \in Pools : TasksLeft(p) = 0

EndsWhole ==
    WoundDown => /\ main = "stopped" /\ supervisor = "ended"
                 /\ \A w \in Workers : ~Alive(w)
                 /\ free = Slots

\* A worker died while the plugin runs.
WorkerLost == main = "up" /\ monitor # 0 /\ ~Alive(monitor)

ReplaceLeft ==
    CASE supervisor = "waiting" -> 3 [] supervisor = "test" -> 2 [] OTHER -> 1

Replacing ==
    WorkerLost /\ WorkerLost' =>
      /\ ReplaceLeft' <= ReplaceLeft
      /\ SupervisorStep => ReplaceLeft' < ReplaceLeft

SupervisorInv ==
    /\ supervisor \in {"none", "test", "watching", "waiting", "ended"}
    /\ main \in {"registering", "connecting", "spawning", "failed"} <=> supervisor = "none"
    /\ main = "up" => active /\ ~stopEvent /\ supervisor # "ended"
    /\ main = "stopping" => active /\ stopEvent /\ supervisor # "none"
    /\ AfterStop => ~active /\ stopEvent
    /\ main \in {"connecting", "spawning"} => ~stopEvent /\ active
    /\ \/ main \in {"registering", "connecting", "spawning", "up", "stopping", "failed"}
       \/ AfterStop

LEMMA SupervisorInit == Init => SupervisorInv
BY DEF Init, SupervisorInv, AfterStop

LEMMA SupervisorNext == SupervisorInv /\ [Next]_vars => SupervisorInv'
<1> SUFFICES ASSUME SupervisorInv, [Next]_vars PROVE SupervisorInv'
  OBVIOUS
<1>1. CASE MainStep \/ StopMonitoring
  BY <1>1 DEF MainStep, StartMonitoring, ConnectStore, ConnectFails, StartThreads, StopMonitoring, Deactivate,
     ClearThreads, Join, LetPoolGo, ShutPoolDown, Drain, CloseStore, Main, SupervisorInv, AfterStop
<1>2. CASE \E w \in Workers : WorkerStep(w) \/ Discover(w) \/ Alert(w) \/ Die(w)
  <2>1. UNCHANGED <<main, active, stopEvent, supervisor>>
    BY <1>2 DEF WorkerStep, TestActive, BeginWrite, ChoosePool, SubmitWrite, EndCycle, Discover,
       Alert, Die, MainKeeps
  <2> QED
    BY <2>1 DEF SupervisorInv, AfterStop
<1>3. CASE SupervisorStep
  <2>1. /\ UNCHANGED <<main, active, stopEvent>>
        /\ \/ supervisor = "test" /\ supervisor' = IF active THEN "watching" ELSE "ended"
           \/ supervisor = "watching" /\ supervisor' = "waiting"
           \/ supervisor = "waiting" /\ supervisor' = IF stopEvent THEN "ended" ELSE "test"
    BY <1>3 DEF SupervisorStep, SuperviseActive, Watch, WaitForStop, Supervise
  <2> QED
    BY <2>1 DEF SupervisorInv, AfterStop
<1>4. CASE Tick \/ (\E p \in Pools : PoolStep(p)) \/ UNCHANGED vars
  <2>1. UNCHANGED <<main, active, stopEvent, supervisor>>
    BY <1>4 DEF Tick, PoolStep, vars, threadVars
  <2> QED
    BY <2>1 DEF SupervisorInv, AfterStop
<1> QED
  BY <1>1, <1>2, <1>3, <1>4 DEF Next

LEMMA MainWinds ==
  ASSUME AfterStop, MainStep \/ StopMonitoring
  PROVE  /\ AfterStop' /\ StopLeft' < StopLeft
         /\ UNCHANGED <<supervisor, worker, waiting, busy>>
<1>1. UNCHANGED <<supervisor, worker, waiting, busy>>
  BY DEF AfterStop, MainStep, StartMonitoring, ConnectStore, ConnectFails, StartThreads,
     StopMonitoring, Deactivate, ClearThreads, Join, LetPoolGo, ShutPoolDown, Drain, CloseStore, Main,
     LetGo, ShutDown, Close, writerVars
<1>2. \/ main = "clearing" /\ main' = "joining"
      \/ main = "joining" /\ main' = "lettingGo"
      \/ main = "lettingGo" /\ main' \in {"shutting", "closing"}
      \/ main = "shutting" /\ main' = "draining"
      \/ main = "draining" /\ main' = "closing"
      \/ main = "closing" /\ main' = "stopped"
  BY DEF AfterStop, MainStep, StartMonitoring, ConnectStore, ConnectFails, StartThreads,
     StopMonitoring, Deactivate, ClearThreads, Join, LetPoolGo, ShutPoolDown, Drain, CloseStore, Main
<1> QED
  BY <1>1, <1>2 DEF AfterStop, StopLeft

LEMMA SupervisorWinds ==
  ASSUME AfterStop, SupervisorInv, WorkersInv, SupervisorStep
  PROVE  /\ SupervisorLeft' < SupervisorLeft
         /\ UNCHANGED <<main, waiting, busy>>
         /\ \A w \in Workers :
              \/ worker'[w] = worker[w]
              \/ /\ worker[w] = "none" /\ worker'[w] = "test"
                 /\ supervisor = "watching" /\ supervisor' = "waiting"
<1>1. /\ UNCHANGED <<main, waiting, busy>>
      /\ \/ supervisor = "test" /\ supervisor' = "ended" /\ UNCHANGED worker
         \/ /\ supervisor = "watching" /\ supervisor' = "waiting"
            /\ UNCHANGED worker \/ \E w \in Workers : Spawn(w)
         \/ supervisor = "waiting" /\ supervisor' = "ended" /\ UNCHANGED worker
  BY DEF SupervisorStep, SuperviseActive, Watch, WaitForStop, Supervise, SupervisorInv, writerVars
<1>2. SupervisorLeft' < SupervisorLeft
  BY <1>1 DEF SupervisorLeft
<1>3. ASSUME NEW v \in Workers, Spawn(v), NEW w \in Workers
      PROVE  worker'[w] = worker[w] \/ (worker[w] = "none" /\ worker'[w] = "test")
  BY <1>3 DEF Spawn, WorkerAt, WorkersInv
<1> QED
  BY <1>1, <1>2, <1>3

LEMMA WorkerWinds ==
  ASSUME AfterStop, SupervisorInv, SlotsInv, NEW w \in Workers,
         WorkerStep(w) \/ Discover(w) \/ Alert(w) \/ Die(w)
  PROVE  /\ UNCHANGED <<main, supervisor, busy>>
         /\ CycleLeft(w)' <= CycleLeft(w)
         /\ WorkerStep(w) \/ Die(w) => CycleLeft(w)' < CycleLeft(w)
         /\ \A v \in Workers \ {w} : worker'[v] = worker[v]
         /\ \A p \in down : p \in Pools => waiting'[p] = waiting[p]
<1>1. UNCHANGED <<main, supervisor, busy>>
  BY DEF WorkerStep, TestActive, BeginWrite, ChoosePool, SubmitWrite, EndCycle, Discover,
     Alert, Die, MainKeeps, Acquire, NoSlot, GetPool, Submit, writerVars
<1>2. \A p \in down : p \in Pools => waiting'[p] = waiting[p]
  BY DEF WorkerStep, TestActive, BeginWrite, ChoosePool, SubmitWrite, EndCycle, Discover,
     Alert, Die, MainKeeps, Acquire, NoSlot, GetPool, Submit, writerVars, SlotsInv
<1>3. CASE WorkerStep(w) \/ Die(w)
  <2>1. \E at : /\ worker' = [worker EXCEPT ![w] = at]
                /\ \/ worker[w] = "test" /\ at = "ended"
                   \/ worker[w] = "measuring" /\ at \in {"holding", "alerting", "test", "ended"}
                   \/ worker[w] = "holding" /\ at = "submitting"
                   \/ worker[w] = "submitting" /\ at = "alerting"
                   \/ worker[w] = "alerting" /\ at \in {"test", "ended"}
    BY <1>3 DEF WorkerStep, TestActive, BeginWrite, ChoosePool, SubmitWrite, EndCycle, Die,
       WorkerAt, SupervisorInv
  <2>2. /\ \A v \in Workers \ {w} : worker'[v] = worker[v]
        /\ \/ worker[w] = "test" /\ worker'[w] = "ended"
           \/ worker[w] = "measuring" /\ worker'[w] \in {"holding", "alerting", "test", "ended"}
           \/ worker[w] = "holding" /\ worker'[w] = "submitting"
           \/ worker[w] = "submitting" /\ worker'[w] = "alerting"
           \/ worker[w] = "alerting" /\ worker'[w] \in {"test", "ended"}
    BY <2>1 DEF SlotsInv, WorkersInv
  <2>3. CycleLeft(w)' < CycleLeft(w) /\ CycleLeft(w)' <= CycleLeft(w)
    BY <2>2 DEF CycleLeft
  <2> QED
    BY <1>1, <1>2, <2>2, <2>3
<1>4. CASE (Discover(w) \/ Alert(w)) /\ ~(WorkerStep(w) \/ Die(w))
  <2>1. UNCHANGED worker
    BY <1>4 DEF Discover, Alert
  <2>2. CycleLeft(w)' = CycleLeft(w) /\ CycleLeft(w) \in Nat
    BY <2>1 DEF CycleLeft
  <2> QED
    BY <1>1, <1>2, <1>4, <2>1, <2>2
<1> QED
  BY <1>3, <1>4

LEMMA TasksWind ==
  ASSUME SlotsInv, NEW p \in Pools, PoolStep(p)
  PROVE  /\ UNCHANGED <<main, supervisor, worker>>
         /\ TasksLeft(p)' < TasksLeft(p)
         /\ \A q \in Pools \ {p} : waiting'[q] = waiting[q] /\ busy'[q] = busy[q]
<1>1. UNCHANGED <<main, supervisor, worker>>
  BY DEF PoolStep, threadVars
<1>2. waiting[p] \in Nat
  BY WriterConstants DEF SlotsInv
<1>3. /\ \/ /\ busy[p] = "idle" /\ busy'[p] = "opening" /\ waiting[p] > 0
            /\ waiting'[p] = waiting[p] - 1
         \/ busy[p] = "opening" /\ busy'[p] = "writing" /\ waiting'[p] = waiting[p]
         \/ busy[p] \in {"opening", "writing"} /\ busy'[p] = "idle" /\ waiting'[p] = waiting[p]
      /\ \A q \in Pools \ {p} : waiting'[q] = waiting[q] /\ busy'[q] = busy[q]
  BY DEF PoolStep, TaskStep, TakeTask, OpenClient, EndTask, SlotsInv
<1>4. TasksLeft(p)' < TasksLeft(p)
  BY <1>2, <1>3 DEF TasksLeft
<1> QED
  BY <1>1, <1>3, <1>4

LEMMA LeftTypes ==
  ASSUME SlotsInv
  PROVE  /\ StopLeft \in Nat /\ SupervisorLeft \in Nat
         /\ \A w : CycleLeft(w) \in Nat
         /\ \A p \in Pools : TasksLeft(p) \in Nat
<1>1. StopLeft \in Nat
  BY DEF StopLeft
<1>2. SupervisorLeft \in Nat
  BY DEF SupervisorLeft
<1>3. \A w : CycleLeft(w) \in Nat
  BY DEF CycleLeft
<1>4. \A p \in Pools : waiting[p] \in Nat
  BY WriterConstants DEF SlotsInv
<1>5. \A p \in Pools : TasksLeft(p) \in Nat
  BY <1>4 DEF TasksLeft
<1> QED
  BY <1>1, <1>2, <1>3, <1>5

LEMMA TasksLeftNext ==
  ASSUME SlotsInv, NEW p \in Pools, PoolStep(p)
  PROVE  TasksLeft(p)' \in Nat
<1>1. waiting[p] \in Nat
  BY WriterConstants DEF SlotsInv
<1>2. waiting'[p] \in Nat
  BY <1>1 DEF PoolStep, TaskStep, TakeTask, OpenClient, EndTask, SlotsInv
<1> QED
  BY <1>2 DEF TasksLeft

\* What a step of another thread leaves to do is what was left.
LEMMA StopWinds == SlotsInv /\ SupervisorInv /\ [Next]_vars => [WindingDown]_vars
<1> SUFFICES ASSUME SlotsInv, SupervisorInv, Next, AfterStop
             PROVE  WindingDown
  BY DEF WindingDown
<1>t. /\ StopLeft \in Nat /\ SupervisorLeft \in Nat
      /\ \A w : CycleLeft(w) \in Nat
      /\ \A p \in Pools : TasksLeft(p) \in Nat
  BY LeftTypes
<1>w. WorkersInv
  BY DEF SlotsInv
<1>k. /\ main' = main => AfterStop' /\ StopLeft' = StopLeft
      /\ supervisor' = supervisor => SupervisorLeft' = SupervisorLeft
      /\ \A w \in Workers : worker'[w] = worker[w] => CycleLeft(w)' = CycleLeft(w)
      /\ \A p \in Pools : waiting'[p] = waiting[p] /\ busy'[p] = busy[p]
                            => TasksLeft(p)' = TasksLeft(p)
  BY DEF AfterStop, StopLeft, SupervisorLeft, CycleLeft, TasksLeft
<1>1. ASSUME MainStep \/ StopMonitoring
      PROVE  /\ AfterStop' /\ StopLeft' < StopLeft
             /\ UNCHANGED <<supervisor, worker, waiting, busy>>
  BY <1>1, MainWinds
<1>2. ASSUME SupervisorStep
      PROVE  /\ SupervisorLeft' < SupervisorLeft
             /\ UNCHANGED <<main, waiting, busy>>
             /\ \A w \in Workers :
                  \/ worker'[w] = worker[w]
                  \/ /\ worker[w] = "none" /\ worker'[w] = "test"
                     /\ supervisor = "watching" /\ supervisor' = "waiting"
  BY <1>2, <1>w, SupervisorWinds
<1>3. ASSUME NEW w \in Workers, WorkerStep(w) \/ Discover(w) \/ Alert(w) \/ Die(w)
      PROVE  /\ UNCHANGED <<main, supervisor, busy>>
             /\ CycleLeft(w)' <= CycleLeft(w)
             /\ WorkerStep(w) \/ Die(w) => CycleLeft(w)' < CycleLeft(w)
             /\ \A v \in Workers \ {w} : worker'[v] = worker[v]
             /\ \A p \in down : p \in Pools => waiting'[p] = waiting[p]
  BY <1>3, WorkerWinds
<1>4. ASSUME NEW p \in Pools, PoolStep(p)
      PROVE  /\ UNCHANGED <<main, supervisor, worker>>
             /\ TasksLeft(p)' < TasksLeft(p)
             /\ \A q \in Pools \ {p} : waiting'[q] = waiting[q] /\ busy'[q] = busy[q]
  BY <1>4, TasksWind
<1>5. Tick => UNCHANGED <<main, supervisor, worker, waiting, busy>>
  BY DEF Tick, threadVars, writerVars
<1>6. AfterStop' /\ StopLeft' <= StopLeft /\ (MainStep => StopLeft' < StopLeft)
  <2>1. MainStep \/ StopMonitoring \/ main' = main
    BY <1>2, <1>3, <1>4, <1>5 DEF Next
  <2>2. main' = main => ~MainStep
    <3>1. main' = main => StopLeft' = StopLeft
      BY <1>k
    <3> QED
      BY <3>1, <1>1, <1>t
  <2>3. (MainStep \/ StopMonitoring) => AfterStop' /\ StopLeft' < StopLeft
    BY <1>1
  <2>4. main' = main => AfterStop' /\ StopLeft' = StopLeft
    BY <1>k
  <2>5. StopLeft' \in Nat
    BY DEF StopLeft
  <2> QED
    BY <2>1, <2>2, <2>3, <2>4, <2>5, <1>t
<1>7. SupervisorLeft' <= SupervisorLeft /\ (SupervisorStep => SupervisorLeft' < SupervisorLeft)
  <2>1. SupervisorStep \/ supervisor' = supervisor
    BY <1>1, <1>3, <1>4, <1>5 DEF Next
  <2>2. SupervisorLeft' \in Nat
    BY DEF SupervisorLeft
  <2>3. SupervisorStep => SupervisorLeft' < SupervisorLeft
    BY <1>2
  <2>4. supervisor' = supervisor => SupervisorLeft' = SupervisorLeft
    BY <1>k
  <2> QED
    BY <2>1, <2>2, <2>3, <2>4, <1>t
<1>8. ASSUME NEW w \in Workers
      PROVE  \/ /\ CycleLeft(w)' <= CycleLeft(w)
                /\ WorkerStep(w) \/ Die(w) => CycleLeft(w)' < CycleLeft(w)
             \/ /\ worker[w] = "none" /\ worker'[w] = "test"
                /\ supervisor = "watching" /\ supervisor' = "waiting"
  <2>1. worker[w] = "none" => ~(WorkerStep(w) \/ Die(w))
    BY DEF WorkerStep, TestActive, BeginWrite, ChoosePool, SubmitWrite, EndCycle, Die
  <2>2. CASE WorkerStep(w) \/ Die(w)
    <3>1. CycleLeft(w)' <= CycleLeft(w) /\ CycleLeft(w)' < CycleLeft(w)
      BY <2>2, <1>3
    <3> QED
      BY <3>1
  <2>3. CASE ~(WorkerStep(w) \/ Die(w)) /\ worker'[w] = worker[w]
    <3>1. CycleLeft(w)' = CycleLeft(w) /\ CycleLeft(w) \in Nat
      BY <2>3, <1>k, <1>t
    <3>2. CycleLeft(w)' <= CycleLeft(w)
      BY <3>1
    <3> QED
      BY <3>2, <2>3
  <2>4. CASE ~(WorkerStep(w) \/ Die(w)) /\ worker'[w] # worker[w]
    <3>1. ~Discover(w) /\ ~Alert(w)
      BY <2>4 DEF Discover, Alert
    <3>2. \A v \in Workers \ {w} : ~(WorkerStep(v) \/ Discover(v) \/ Alert(v) \/ Die(v))
      BY <2>4, <1>3
    <3>3. SupervisorStep
      BY <2>4, <3>1, <3>2, <1>1, <1>4, <1>5 DEF Next
    <3> QED
      BY <3>3, <2>4, <1>2
  <2> QED
    BY <2>2, <2>3, <2>4
<1>9. ASSUME NEW p \in Pools
      PROVE  /\ PoolStep(p) => TasksLeft(p)' < TasksLeft(p)
             /\ p \in down => TasksLeft(p)' <= TasksLeft(p)
  <2>1. PoolStep(p) => TasksLeft(p)' < TasksLeft(p)
    BY <1>4
  <2>2. ASSUME p \in down, ~PoolStep(p)
        PROVE  TasksLeft(p)' = TasksLeft(p)
    <3>1. waiting'[p] = waiting[p] /\ busy'[p] = busy[p]
      BY <2>2, <1>1, <1>2, <1>3, <1>4, <1>5 DEF Next
    <3> QED
      BY <3>1, <1>k
  <2>3. p \in down => TasksLeft(p)' <= TasksLeft(p)
    <3>1. CASE PoolStep(p)
      <4>1. TasksLeft(p)' \in Nat
        BY <3>1, TasksLeftNext
      <4> QED
        BY <4>1, <3>1, <2>1, <1>t
    <3>2. CASE ~PoolStep(p)
      BY <3>2, <2>2, <1>t
    <3> QED
      BY <3>1, <3>2
  <2> QED
    BY <2>1, <2>3
<1> QED
  BY <1>6, <1>7, <1>8, <1>9 DEF WindingDown

\* Nothing is left only when all is over, and then every slot is free.
LEMMA NothingLeft == SlotsInv /\ SupervisorInv => EndsWhole
<1> SUFFICES ASSUME SlotsInv, SupervisorInv, WoundDown
             PROVE  /\ main = "stopped" /\ supervisor = "ended"
                    /\ \A w \in Workers : ~Alive(w)
                    /\ free = Slots
  BY DEF EndsWhole
<1>1. main = "stopped"
  BY DEF WoundDown, StopLeft, AfterStop
<1>2. supervisor = "ended"
  BY <1>1 DEF WoundDown, SupervisorLeft, SupervisorInv
<1>3. \A w \in Workers : worker[w] \in {"none", "ended"}
  <2>1. \A w \in Workers : worker[w] \in {"none", "test", "measuring", "holding", "submitting",
                                            "alerting", "ended"}
    BY DEF SlotsInv, WorkersInv
  <2> QED
    BY <2>1 DEF WoundDown, CycleLeft
<1>4. \A p \in Pools : waiting[p] = 0 /\ busy[p] = "idle"
  <2>1. \A p \in Pools : waiting[p] \in Nat /\ busy[p] \in {"idle", "opening", "writing"}
    BY WriterConstants DEF SlotsInv
  <2>2. \A p \in Pools : TasksLeft(p) = 0
    BY DEF WoundDown
  <2> QED
    BY <2>1, <2>2 DEF TasksLeft
<1>5. Holding = {} /\ Running = {} /\ Queued = {}
  BY <1>3, <1>4 DEF Holding, Running, Queued
<1>6. free = Slots
  BY <1>5, FS_EmptySet, WriterConstants DEF SlotsInv, SlotsAccounted
<1> QED
  BY <1>1, <1>2, <1>3, <1>6 DEF Alive

(* Safety part of ThreadsSupervised, stop_monitoring.  From the moment the  *)
(* plugin is inactive, every step a thread takes brings that thread nearer  *)
(* its end: six steps of the main thread, two of the supervisor, five of a  *)
(* worker, three for a task.  Nothing brings one back except the one worker *)
(* that a supervisor starts which looked before the stop, no pool that was  *)
(* told to stop is given a task, and when no step is left the plugin is     *)
(* stopped, no thread is alive and every slot is free.                      *)
THEOREM StopsRunOut == Spec => []EndsWhole /\ [][WindingDown]_vars
<1>1. Init => SlotsInv /\ SupervisorInv
  BY SlotsInit, SupervisorInit
<1>2. SlotsInv /\ SupervisorInv /\ [Next]_vars => (SlotsInv /\ SupervisorInv)'
  BY SlotsNext, SupervisorNext
<1>3. SlotsInv /\ SupervisorInv => EndsWhole
  BY NothingLeft
<1>4. SlotsInv /\ SupervisorInv /\ [Next]_vars => [WindingDown]_vars
  BY StopWinds
<1> QED
  BY <1>1, <1>2, <1>3, <1>4, PTL DEF Spec

\* While the plugin is up, its supervisor is there to look.
Supervised ==
    main = "up" =>
      /\ supervisor \in {"test", "watching", "waiting"}
      /\ active /\ ~stopEvent
      /\ monitor # 0

MonitorInv == main = "up" => monitor # 0

LEMMA MonitorNext == MonitorInv /\ SupervisorInv /\ [Next]_vars => MonitorInv'
<1> SUFFICES ASSUME MonitorInv, SupervisorInv, [Next]_vars PROVE MonitorInv'
  OBVIOUS
<1>1. \A w \in Workers : w # 0
  BY MonitorConstants DEF Workers
<1>2. CASE MainStep \/ StopMonitoring
  <2>1. main' # "up" \/ StartThreads
    BY <1>2 DEF MainStep, StartMonitoring, ConnectStore, ConnectFails, StartThreads,
       StopMonitoring, Deactivate, ClearThreads, Join, LetPoolGo, ShutPoolDown, Drain, CloseStore, Main
  <2>2. StartThreads => monitor' = 1
    BY DEF StartThreads, Spawn
  <2> QED
    BY <2>1, <2>2 DEF MonitorInv
<1>3. CASE SupervisorStep
  <2>1. main' = main /\ (monitor' = monitor \/ \E w \in Workers : Spawn(w))
    BY <1>3 DEF SupervisorStep, SuperviseActive, Watch, WaitForStop, Supervise
  <2>2. \A w \in Workers : Spawn(w) => monitor' # 0
    BY <1>1 DEF Spawn
  <2> QED
    BY <2>1, <2>2 DEF MonitorInv
<1>4. CASE \E w \in Workers : WorkerStep(w) \/ Discover(w) \/ Alert(w) \/ Die(w)
  <2>1. UNCHANGED <<main, monitor>>
    BY <1>4 DEF WorkerStep, TestActive, BeginWrite, ChoosePool, SubmitWrite, EndCycle, Discover,
       Alert, Die, MainKeeps
  <2> QED
    BY <2>1 DEF MonitorInv
<1>5. CASE Tick \/ (\E p \in Pools : PoolStep(p)) \/ UNCHANGED vars
  <2>1. UNCHANGED <<main, monitor>>
    BY <1>5 DEF Tick, PoolStep, vars, threadVars
  <2> QED
    BY <2>1 DEF MonitorInv
<1> QED
  BY <1>2, <1>3, <1>4, <1>5 DEF Next

\* Only the supervisor itself moves on while a worker is missed, and the
\* step in which it sees that puts another in its place.
LEMMA LossRunsOut ==
  WorkersInv /\ SupervisorInv /\ [Next]_vars => [Replacing]_vars
<1> SUFFICES ASSUME WorkersInv, SupervisorInv, Next, WorkerLost, WorkerLost'
             PROVE  /\ ReplaceLeft' <= ReplaceLeft
                    /\ SupervisorStep => ReplaceLeft' < ReplaceLeft
  BY DEF Replacing
<1>t. ReplaceLeft \in 1..3
  BY DEF ReplaceLeft
<1>1. ASSUME Watch PROVE FALSE
  <2>1. PICK w \in Workers : Spawn(w)
    BY <1>1 DEF Watch, WorkerLost
  <2>2. monitor' = w /\ worker'[w] = "test"
    BY <2>1 DEF Spawn, WorkerAt, WorkersInv
  <2>3. Alive(monitor)'
    BY <2>2 DEF Alive
  <2> QED
    BY <2>3 DEF WorkerLost
<1>2. ASSUME SupervisorStep PROVE ReplaceLeft' < ReplaceLeft
  <2>1. \/ supervisor = "test" /\ supervisor' = "watching"
        \/ supervisor = "waiting" /\ supervisor' = "test"
    BY <1>1, <1>2 DEF SupervisorStep, SuperviseActive, WaitForStop, Supervise, SupervisorInv,
       WorkerLost
  <2> QED
    BY <2>1 DEF ReplaceLeft
<1>3. ASSUME ~SupervisorStep PROVE supervisor' = supervisor
  <2>1. MainStep \/ StopMonitoring => main # "up" \/ main' # "up"
    BY DEF MainStep, StartMonitoring, ConnectStore, ConnectFails, StartThreads,
       StopMonitoring, Deactivate, ClearThreads, Join, LetPoolGo, ShutPoolDown, Drain, CloseStore, Main
  <2>2. ~(MainStep \/ StopMonitoring)
    BY <2>1 DEF WorkerLost
  <2>3. CASE \E w \in Workers : WorkerStep(w) \/ Discover(w) \/ Alert(w) \/ Die(w)
    BY <2>3 DEF WorkerStep, TestActive, BeginWrite, ChoosePool, SubmitWrite, EndCycle, Discover,
       Alert, Die, MainKeeps
  <2>4. CASE Tick \/ \E p \in Pools : PoolStep(p)
    BY <2>4 DEF Tick, PoolStep, threadVars
  <2> QED
    BY <1>3, <2>2, <2>3, <2>4 DEF Next
<1>4. supervisor' = supervisor => ReplaceLeft' = ReplaceLeft
  BY DEF ReplaceLeft
<1>5. ReplaceLeft' \in 1..3
  BY DEF ReplaceLeft
<1> QED
  BY <1>t, <1>2, <1>3, <1>4, <1>5

(* Safety part of ThreadsSupervised, _supervise_monitoring.  While the      *)
(* plugin is up its supervisor has not ended and finds the plugin active,   *)
(* and from the death of a worker it takes at most three of the             *)
(* supervisor's own steps until another thread is in its place, whatever    *)
(* the others do meanwhile, unless the plugin is stopped.                   *)
THEOREM DeadWorkersAreReplaced == Spec => []Supervised /\ [][Replacing]_vars
<1>1. Init => WorkersInv /\ SupervisorInv /\ MonitorInv
  BY WorkersInit, SupervisorInit DEF Init, MonitorInv
<1>2. WorkersInv /\ SupervisorInv /\ MonitorInv /\ [Next]_vars
        => (WorkersInv /\ SupervisorInv /\ MonitorInv)'
  BY WorkersNext, SupervisorNext, MonitorNext
<1>3. SupervisorInv /\ MonitorInv => Supervised
  BY DEF SupervisorInv, MonitorInv, Supervised
<1>4. WorkersInv /\ SupervisorInv /\ [Next]_vars => [Replacing]_vars
  BY LossRunsOut
<1> QED
  BY <1>1, <1>2, <1>3, <1>4, PTL DEF Spec
=============================================================================
