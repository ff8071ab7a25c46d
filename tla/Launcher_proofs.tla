--------------------------- MODULE Launcher_proofs ---------------------------
(***************************************************************************)
(* Theorems about the launcher, for every number of restarts and every     *)
(* scale of sleeps: whatever signals arrive in whatever order, a launcher  *)
(* that ends has cleaned up and had a reason to end; and Telegram is not   *)
(* polled before a refusal is waited out.  Whoever asks for an end is at   *)
(* most 26 steps away from it, and a dead thread is noticed within five.   *)
(***************************************************************************)
EXTENDS Launcher, TLAPS

Stages == {"idle", "health", "flag", "bot", "sessions", "done"}

Self == [bot : {"none", "bare", "ready"}, health : {"none", "created", "running"},
         sessions : {"open", "down"}, requested : BOOLEAN, opsStopped : BOOLEAN,
         completed : BOOLEAN, interrupted : BOOLEAN, restarts : Nat]

CleaningUp == main \in {"graceful", "atexit", "exited"}

PastHealth == {"flag", "bot", "sessions", "done"}

\* The main thread is about to bring the sessions down, or has.
SessionsInHand == self.sessions = "down" \/ cleanup["main"] \in {"bot", "sessions"}

LauncherType ==
    /\ self \in Self
    /\ cleanup \in [Frames -> Stages]
    /\ handler \in {"none", "first", "forced", "stuck", "killed"}

\* Every end has a reason.
ReasonInv ==
    /\ self.requested => reason
    /\ handler # "none" => reason
    /\ main \in {"leave", "shutdown"} \/ CleaningUp => reason

\* The clean-up of the main thread.
MainInv ==
    /\ main = "shutdown" \/ CleaningUp => self.bot = "none"
    /\ ~CleaningUp => cleanup["main"] = "idle"
    /\ cleanup["main"] \in PastHealth => self.health = "none"
    /\ main = "graceful" /\ cleanup["main"] = "done" => self.sessions = "down"
    /\ main \in {"atexit", "exited"} =>
         self.health = "none" /\ self.sessions = "down" /\ self.completed

\* The clean-up of the second SIGINT, above a main thread that stands still.
HandlerInv ==
    /\ handler \in {"none", "first"} => cleanup["handler"] = "idle"
    /\ handler = "killed" => cleanup["handler"] = "done"
    /\ handler \in {"forced", "killed"} /\ cleanup["handler"] \in PastHealth =>
         self.health = "none"
    /\ handler \in {"forced", "killed"} /\ cleanup["handler"] = "done" =>
         SessionsInHand \/ self.bot = "ready"

\* Who finds the flag set leaves the bot to the frame that set it.
FlagInv ==
    self.opsStopped /\ cleanup["handler"] \in {"idle", "health", "flag"} => SessionsInHand

EndInv == LauncherType /\ ReasonInv /\ MainInv /\ HandlerInv /\ FlagInv

LEMMA EndInit == Init => EndInv
BY LauncherConstants
   DEF Init, EndInv, LauncherType, ReasonInv, MainInv, HandlerInv, FlagInv, Self, Stages,
       Frames, CleaningUp, SessionsInHand, PastHealth

----------------------------------------------------------------------------
(* A clean-up, in either frame.                                            *)

LEMMA CleanUpKeeps ==
  ASSUME EndInv, NEW f \in Frames, CleanUp(f)
  PROVE  EndInv'
<1>1. /\ UNCHANGED <<main, handler, reason>>
      /\ cleanup[f] \in {"health", "flag", "bot", "sessions"}
      /\ \E s \in Stages : cleanup' = [cleanup EXCEPT ![f] = s]
  BY DEF CleanUp, StopHealth, ClaimStop, StopBot, StopBotFails, DownSessions, Then, Runs, Stages
<1>2. /\ handler = (IF f = "main" THEN "none" ELSE "forced")
      /\ f = "main" => CleaningUp
      /\ f = "main" => cleanup["handler"] = "idle"
  BY <1>1 DEF CleanUp, StopHealth, ClaimStop, StopBot, StopBotFails, DownSessions, Runs,
     EndInv, MainInv, HandlerInv
<1>3. /\ cleanup' \in [Frames -> Stages] /\ cleanup \in [Frames -> Stages]
      /\ \A g \in Frames \ {f} : cleanup'[g] = cleanup[g]
      /\ Frames = {"main", "handler"}
      /\ self \in Self
  BY <1>1 DEF EndInv, LauncherType, Frames
<1>4. CASE StopHealth(f)
  <2>1. /\ self' = [self EXCEPT !.health = "none"] /\ cleanup'[f] = "flag" /\ cleanup[f] = "health"
    BY <1>3, <1>4 DEF StopHealth, Then, Runs
  <2>2. /\ self' \in Self /\ self'.health = "none" /\ self'.bot = self.bot
        /\ self'.sessions = self.sessions /\ self'.requested = self.requested
        /\ self'.opsStopped = self.opsStopped /\ self'.completed = self.completed
    BY <1>3, <2>1 DEF Self
  <2> QED
    BY <1>1, <1>2, <1>3, <2>1, <2>2 DEF EndInv, LauncherType, ReasonInv, MainInv, HandlerInv,
       FlagInv, CleaningUp, SessionsInHand, PastHealth
<1>5. CASE ClaimStop(f)
  <2>1. /\ self' = [self EXCEPT !.opsStopped = TRUE]
        /\ cleanup'[f] = IF self.opsStopped THEN "done" ELSE "bot"
        /\ cleanup[f] = "flag"
    BY <1>3, <1>5 DEF ClaimStop, Then, Runs
  <2>2. /\ self' \in Self /\ self'.health = self.health /\ self'.bot = self.bot
        /\ self'.sessions = self.sessions /\ self'.requested = self.requested
        /\ self'.opsStopped = TRUE /\ self'.completed = self.completed
    BY <1>3, <2>1 DEF Self
  <2> QED
    BY <1>1, <1>2, <1>3, <2>1, <2>2 DEF EndInv, LauncherType, ReasonInv, MainInv, HandlerInv,
       FlagInv, CleaningUp, SessionsInHand, PastHealth
<1>6. CASE StopBot(f) \/ StopBotFails(f)
  <2>1. /\ self' = self /\ cleanup[f] = "bot"
        /\ \/ cleanup'[f] = "sessions"
           \/ cleanup'[f] = "done" /\ self.bot = "ready"
    BY <1>3, <1>6 DEF StopBot, StopBotFails, Then, Runs
  <2> QED
    BY <1>1, <1>2, <1>3, <2>1 DEF EndInv, LauncherType, ReasonInv, MainInv, HandlerInv,
       FlagInv, CleaningUp, SessionsInHand, PastHealth
<1>7. CASE DownSessions(f)
  <2>1. /\ self' = [self EXCEPT !.sessions = "down"] /\ cleanup'[f] = "done"
        /\ cleanup[f] = "sessions"
    BY <1>3, <1>7 DEF DownSessions, Then, Runs
  <2>2. /\ self' \in Self /\ self'.health = self.health /\ self'.bot = self.bot
        /\ self'.sessions = "down" /\ self'.requested = self.requested
        /\ self'.opsStopped = self.opsStopped /\ self'.completed = self.completed
    BY <1>3, <2>1 DEF Self
  <2> QED
    BY <1>1, <1>2, <1>3, <2>1, <2>2 DEF EndInv, LauncherType, ReasonInv, MainInv, HandlerInv,
       FlagInv, CleaningUp, SessionsInHand, PastHealth
<1> QED
  BY <1>4, <1>5, <1>6, <1>7 DEF CleanUp

----------------------------------------------------------------------------
(* The other steps of the main thread, with no handler on top of it.       *)

\* A step before the clean-up that leaves the sessions and the flag alone.
LEMMA EarlyKeeps ==
  ASSUME EndInv, handler = "none", ~CleaningUp, ~CleaningUp',
         UNCHANGED <<handler, cleanup>>, self' \in Self,
         self'.sessions = self.sessions, self'.opsStopped = self.opsStopped,
         reason => reason', self'.requested => reason',
         main' \in {"leave", "shutdown"} => reason',
         main' = "shutdown" => self'.bot = "none"
  PROVE  EndInv'
BY DEF EndInv, LauncherType, ReasonInv, MainInv, HandlerInv, FlagInv, SessionsInHand, PastHealth,
       CleaningUp

LEMMA MainKeeps == 
  ASSUME EndInv, MainStep
  PROVE  EndInv'
<1>1. self \in Self
  BY DEF EndInv, LauncherType
<1>2. CASE CleanUp("main")
  BY <1>2, CleanUpKeeps DEF Frames
<1>3. CASE CreateBot \/ InitializeCore \/ SetupHealth \/ StartHealth \/ Restart
  <2>1. /\ handler = "none" /\ ~CleaningUp /\ ~CleaningUp'
        /\ UNCHANGED <<handler, cleanup, reason>>
        /\ main' \notin {"leave", "shutdown"}
    BY <1>3 DEF CreateBot, InitializeCore, SetupHealth, StartHealth, Restart, MainGoes,
       MainOnly, At, CleaningUp
  <2>2. /\ self' \in Self /\ self'.sessions = self.sessions /\ self'.opsStopped = self.opsStopped
        /\ self'.requested = self.requested
    BY <1>1, <1>3 DEF CreateBot, InitializeCore, SetupHealth, StartHealth, Restart, Self
  <2> QED
    BY <2>1, <2>2, EarlyKeeps DEF EndInv, ReasonInv
<1>4. CASE Launch \/ Relaunch \/ Watch \/ Wait
  <2>1. /\ handler = "none" /\ ~CleaningUp /\ ~CleaningUp'
        /\ UNCHANGED <<handler, cleanup, reason, self>>
        /\ main' # "shutdown"
        /\ main' = "leave" => self.requested
    BY <1>4 DEF Launch, Relaunch, Watch, Wait, MainGoes, MainOnly, At, CleaningUp
  <2> QED
    BY <1>1, <2>1, EarlyKeeps DEF EndInv, ReasonInv
<1>5. CASE Fails \/ GiveUp
  <2>1. /\ handler = "none" /\ ~CleaningUp /\ ~CleaningUp'
        /\ UNCHANGED <<handler, cleanup>> /\ reason' = TRUE
    BY <1>5 DEF Fails, GiveUp, MainGoes, At, CleaningUp
  <2>2. /\ self' \in Self /\ self'.sessions = self.sessions /\ self'.opsStopped = self.opsStopped
        /\ main' = "shutdown" => self'.bot = "none"
    BY <1>1, <1>5 DEF Fails, GiveUp, MainGoes, Self
  <2> QED
    BY <2>1, <2>2, EarlyKeeps
<1>6. CASE Leave
  <2>1. /\ handler = "none" /\ ~CleaningUp /\ ~CleaningUp' /\ main = "leave"
        /\ UNCHANGED <<handler, cleanup, reason>>
    BY <1>6 DEF Leave, MainGoes, MainOnly, At, CleaningUp
  <2>2. /\ self' \in Self /\ self'.sessions = self.sessions /\ self'.opsStopped = self.opsStopped
        /\ self'.requested = self.requested /\ self'.bot = "none"
    BY <1>1, <1>6 DEF Leave, Self
  <2> QED
    BY <2>1, <2>2, EarlyKeeps DEF EndInv, ReasonInv
<1>7. CASE Shutdown \/ Complete \/ Exit
  <2>1. /\ handler = "none" /\ UNCHANGED <<handler, reason>>
        /\ \/ main = "shutdown" /\ main' = "graceful" /\ cleanup'["main"] = "health"
           \/ main = "graceful" /\ main' = "atexit" /\ cleanup["main"] = "done"
                /\ cleanup'["main"] = "health" /\ self'.completed
           \/ main = "atexit" /\ main' = "exited" /\ cleanup["main"] = "done"
                /\ cleanup'["main"] = "done" /\ self'.completed = self.completed
        /\ cleanup' \in [Frames -> Stages]
        /\ cleanup'["handler"] = cleanup["handler"]
    BY <1>1, <1>7 DEF Shutdown, Complete, Exit, MainGoes, MainOnly, At, Self, EndInv,
       LauncherType, Frames, Stages
  <2>2. /\ self' \in Self /\ self'.sessions = self.sessions /\ self'.opsStopped = self.opsStopped
        /\ self'.health = self.health /\ self'.bot = self.bot
        /\ self'.requested => self.requested \/ main = "shutdown"
    BY <1>1, <1>7 DEF Shutdown, Complete, Exit, Self, At
  <2> QED
    BY <2>1, <2>2 DEF EndInv, LauncherType, ReasonInv, MainInv, HandlerInv, FlagInv,
       CleaningUp, SessionsInHand, PastHealth
<1> QED
  BY <1>2, <1>3, <1>4, <1>5, <1>6, <1>7 DEF MainStep

----------------------------------------------------------------------------
(* Signals and the polling thread.                                         *)

\* Steps that leave the clean-ups and all of the launcher that they touch.
LEMMA OthersKeep ==
  ASSUME EndInv, UNCHANGED <<main, cleanup>>, self' \in Self,
         self'.sessions = self.sessions, self'.opsStopped = self.opsStopped,
         self'.health = self.health, self'.bot = self.bot, self'.completed = self.completed,
         reason => reason', self'.requested => reason',
         \/ UNCHANGED handler
         \/ /\ reason'
            /\ \/ handler' = "stuck"
               \/ handler = "none" /\ handler' = "first"
               \/ handler = "first" /\ handler' = "none"
               \/ handler = "forced" /\ handler' = "killed" /\ cleanup["handler"] = "done"
  PROVE  EndInv'
BY DEF EndInv, LauncherType, ReasonInv, MainInv, HandlerInv, FlagInv, SessionsInHand, PastHealth,
       CleaningUp

LEMMA SignalKeeps ==
  ASSUME EndInv, Terminate \/ Interrupt \/ InterruptHandler \/ FirstInterrupt \/ Kill
  PROVE  EndInv'
<1>1. self \in Self
  BY DEF EndInv, LauncherType
<1>2. CASE Terminate \/ InterruptHandler \/ FirstInterrupt \/ Kill
  <2>1. /\ UNCHANGED <<main, cleanup>> /\ self' \in Self
        /\ self'.sessions = self.sessions /\ self'.opsStopped = self.opsStopped
        /\ self'.health = self.health /\ self'.bot = self.bot /\ self'.completed = self.completed
    BY <1>1, <1>2 DEF Terminate, InterruptHandler, FirstInterrupt, Kill, Self
  <2>2. /\ reason => reason'
        /\ self'.requested => reason'
        /\ \/ UNCHANGED handler
           \/ /\ reason'
              /\ \/ handler' = "stuck"
                 \/ handler = "first" /\ handler' = "none"
                 \/ handler = "forced" /\ handler' = "killed" /\ cleanup["handler"] = "done"
    BY <1>1, <1>2 DEF Terminate, InterruptHandler, FirstInterrupt, Kill, Signalled, EndInv,
       ReasonInv
  <2> QED
    BY <2>1, <2>2, OthersKeep
<1>3. CASE Interrupt
  <2>1. /\ UNCHANGED main /\ handler = "none" /\ reason' = TRUE /\ self' \in Self
        /\ self'.sessions = self.sessions /\ self'.opsStopped = self.opsStopped
        /\ self'.health = self.health /\ self'.bot = self.bot /\ self'.completed = self.completed
    BY <1>1, <1>3 DEF Interrupt, Signalled, At, Self
  <2>2. CASE ~self.interrupted
    <3>1. handler' = "first" /\ UNCHANGED cleanup
      BY <1>3, <2>2 DEF Interrupt
    <3> QED
      BY <2>1, <3>1, OthersKeep
  <2>3. CASE self.interrupted
    <3>1. /\ handler' = "forced" /\ cleanup' \in [Frames -> Stages]
          /\ cleanup'["handler"] = "health" /\ cleanup'["main"] = cleanup["main"]
      BY <1>3, <2>3 DEF Interrupt, EndInv, LauncherType, Frames, Stages
    <3> QED
      BY <2>1, <3>1 DEF EndInv, LauncherType, ReasonInv, MainInv, HandlerInv, FlagInv,
         CleaningUp, SessionsInHand, PastHealth
  <2> QED
    BY <2>2, <2>3
<1> QED
  BY <1>2, <1>3

LEMMA PollerKeeps ==
  ASSUME EndInv, PollerStep \/ PollerAccident
  PROVE  EndInv'
<1>1. self \in Self
  BY DEF EndInv, LauncherType
<1>2. CASE PollingFails
  <2>1. /\ UNCHANGED <<main, handler, cleanup>> /\ reason' = TRUE /\ self' \in Self
        /\ self'.sessions = self.sessions /\ self'.opsStopped = self.opsStopped
        /\ self'.health = self.health /\ self'.bot = self.bot /\ self'.completed = self.completed
    BY <1>1, <1>2 DEF PollingFails, Self
  <2> QED
    BY <2>1, OthersKeep
<1>3. CASE Outside
  BY <1>1, <1>3, OthersKeep DEF Outside, EndInv, ReasonInv
<1> QED
  BY <1>2, <1>3 DEF PollerStep, PollerAccident

LEMMA EndNext == EndInv /\ [Next]_vars => EndInv'
<1> SUFFICES ASSUME EndInv, [Next]_vars PROVE EndInv'
  OBVIOUS
<1>1. CASE HandlerStep
  BY <1>1, SignalKeeps, CleanUpKeeps DEF HandlerStep, Frames
<1>2. CASE UNCHANGED vars
  <2>1. UNCHANGED <<main, handler, cleanup, self, reason>> /\ self \in Self
    BY <1>2 DEF vars, EndInv, LauncherType
  <2> QED
    BY <2>1, OthersKeep DEF EndInv, ReasonInv
<1> QED
  BY <1>1, <1>2, MainKeeps, SignalKeeps, PollerKeeps DEF Next

\* A launcher that returns has stopped the health monitor and the session
\* manager and had a reason; a forced end has stopped the health monitor,
\* and the sessions unless it cut a clean-up short or the bot could not be
\* reached.
THEOREM LauncherEndsProperly == Spec => []EndsProperly
<1>1. EndInv => EndsProperly
  BY DEF EndInv, ReasonInv, MainInv, HandlerInv, CleaningUp, SessionsInHand, EndsProperly,
     PastHealth
<1> QED
  BY <1>1, EndInit, EndNext, PTL DEF Spec

----------------------------------------------------------------------------
(* The delays that Telegram asks for.                                      *)

\* A delay is left only while the handler of its refusal sleeps, and no
\* longer than that sleep; a new thread finds none.
DelayInv ==
    /\ pause \in Nat /\ openLeft \in Nat /\ asked \in Nat
    /\ limited \in Nat /\ sleepTime \in Nat
    /\ asked <= pause
    /\ poller # "throttled" => asked = 0
    /\ main \in {"create", "core", "health", "monitor", "launch"} => poller = "none"
    /\ main = "restart" => poller = "dead"

\* The k-th refusal in a row does not shorten the delay.
LEMMA OpenForLonger ==
  ASSUME NEW d \in Nat, d <= MaxSleep, limited \in Nat
  PROVE  OpenFor(d) \in Nat /\ d <= Smaller(OpenFor(d), MaxSleep)
<1>1. d * (limited + 1) \in Nat /\ d <= d * (limited + 1)
  <2>1. d * (limited + 1) = d * limited + d /\ d * limited \in Nat
    OBVIOUS
  <2> QED
    BY <2>1
<1> DEFINE long == d * (limited + 1)
<1> HIDE DEF long
<1>2. long \in Nat /\ d <= long
  BY <1>1 DEF long
<1>3. OpenFor(d) = IF long < MaxOpen THEN long ELSE MaxOpen
  BY DEF OpenFor, Smaller, long
<1> QED
  BY <1>2, <1>3, PollingConstants DEF Smaller

LEMMA SmallerType ==
  ASSUME NEW a \in Nat, NEW b \in Nat
  PROVE  Smaller(a, b) \in Nat /\ Smaller(a, b) <= a /\ Smaller(a, b) <= b
BY DEF Smaller

\* The sleep of a refusal lasts as long as its delay.
LEMMA ThrottleWaits ==
  ASSUME DelayInv, poller = "sleeping", NEW delay \in Delays,
         Throttle(Smaller(delay, MaxSleep))
  PROVE  /\ pause' \in Nat /\ openLeft' \in Nat /\ asked' \in Nat /\ limited' \in Nat
         /\ asked' <= pause'
<1> DEFINE d == Smaller(delay, MaxSleep)
<1>1. d \in Nat /\ d <= MaxSleep /\ MaxSleep \in Nat
  BY PollingConstants, SmallerType
<1>2. openLeft \in Nat /\ limited \in Nat /\ asked = 0
  BY DEF DelayInv
<1> HIDE DEF d
<1>3. CASE openLeft > 0 /\ pause' = Smaller(openLeft, MaxSleep) /\ UNCHANGED circuitVars
  BY <1>1, <1>2, <1>3, SmallerType DEF circuitVars
<1>4. CASE CountRefusal(d) /\ openLeft' = OpenFor(d) /\ pause' = Smaller(OpenFor(d), MaxSleep)
  <2>1. OpenFor(d) \in Nat /\ d <= Smaller(OpenFor(d), MaxSleep)
    BY <1>1, <1>2, OpenForLonger
  <2>2. Smaller(OpenFor(d), MaxSleep) \in Nat
    BY <1>1, <2>1, SmallerType
  <2> QED
    BY <1>1, <1>2, <1>4, <2>1, <2>2 DEF CountRefusal
<1>5. CASE CountRefusal(d) /\ pause' = d /\ UNCHANGED openLeft
  BY <1>1, <1>2, <1>5 DEF CountRefusal
<1> QED
  BY <1>3, <1>4, <1>5 DEF Throttle, d

LEMMA DelayInit == Init => DelayInv
BY PollingConstants DEF Init, PollingInit, DelayInv

\* The steps of the polling thread.
LEMMA LoopKeeps ==
  ASSUME DelayInv, LoopStep, UNCHANGED main
  PROVE  DelayInv'
<1>1. poller \notin {"none", "dead"}
  BY DEF LoopStep, PollReturns, Handle, BackOff, Retry, Awake
<1>2. CASE PollReturns
  BY <1>1, <1>2, PollingConstants DEF PollReturns, ResetCircuit, DelayInv
<1>3. CASE BackOff
  BY <1>1, <1>3 DEF BackOff, Awake, Goto, circuitVars, DelayInv
<1>4. CASE Retry
  <2>1. sleepTime * 2 \in Nat /\ MaxSleep \in Nat
    BY PollingConstants DEF DelayInv
  <2>2. sleepTime' \in Nat
    BY <1>4, <2>1, SmallerType DEF Retry
  <2> QED
    BY <1>1, <1>4, <2>2 DEF Retry, Awake, Goto, circuitVars, DelayInv
<1>5. CASE Handle
  <2>1. poller = "sleeping" /\ asked = 0
    BY <1>5 DEF Handle, Awake, DelayInv
  <2>2. CASE LeaveLoop("failing")
    <3>1. CASE EnterLoop(FALSE)
      BY <1>1, <2>1, <3>1, PollingConstants DEF EnterLoop, Goto, circuitVars, DelayInv
    <3>2. CASE Goto("failing") /\ UNCHANGED <<loopVars, circuitVars>>
      BY <1>1, <2>1, <3>2 DEF Goto, loopVars, circuitVars, DelayInv
    <3> QED
      BY <2>2, <3>1, <3>2 DEF LeaveLoop
  <2>3. CASE /\ Goto("retrying") /\ pause' = sleepTime
             /\ UNCHANGED <<sleepTime, circuitVars>>
    BY <1>1, <2>1, <2>3 DEF Goto, circuitVars, DelayInv
  <2>4. CASE /\ Goto("throttled") /\ pause' = BaseSleep * 2
             /\ UNCHANGED <<sleepTime, circuitVars>>
    BY <1>1, <2>1, <2>4, PollingConstants DEF Goto, circuitVars, DelayInv
  <2>5. CASE /\ Goto("throttled") /\ UNCHANGED sleepTime
             /\ \E delay \in Delays : Throttle(Smaller(delay, MaxSleep))
    BY <1>1, <2>1, <2>5, ThrottleWaits DEF Goto, DelayInv
  <2> QED
    BY <1>5, <2>2, <2>3, <2>4, <2>5 DEF Handle
<1> QED
  BY <1>2, <1>3, <1>4, <1>5 DEF LoopStep

LEMMA DelayNext == DelayInv /\ [Next]_vars => DelayInv'
<1> SUFFICES ASSUME DelayInv, [Next]_vars PROVE DelayInv'
  OBVIOUS
<1>1. CASE UNCHANGED pollingVars /\ (main' \in {"create", "core", "health", "monitor", "launch"}
             => main \in {"create", "core", "health", "monitor", "launch"})
           /\ (main' = "restart" => main = "restart" \/ poller = "dead")
  BY <1>1 DEF pollingVars, loopVars, circuitVars, DelayInv
<1>2. CASE UNCHANGED vars \/ HandlerStep \/ Terminate \/ Interrupt \/ InterruptHandler
  <2>1. UNCHANGED <<pollingVars, main>>
    BY <1>2 DEF vars, HandlerStep, FirstInterrupt, CleanUp, StopHealth, ClaimStop, StopBot,
       StopBotFails, DownSessions, Then, Kill, Terminate, Interrupt, InterruptHandler
  <2> QED
    BY <1>1, <2>1
<1>3. CASE MainStep
  <2>1. CASE CleanUp("main")
    <3>1. UNCHANGED <<pollingVars, main>>
      BY <2>1 DEF CleanUp, StopHealth, ClaimStop, StopBot, StopBotFails, DownSessions, Then
    <3> QED
      BY <1>1, <3>1
  <2>2. CASE \/ CreateBot \/ InitializeCore \/ SetupHealth \/ StartHealth \/ Fails \/ Watch
             \/ Wait \/ GiveUp \/ Restart \/ Leave \/ Shutdown \/ Complete \/ Exit
    BY <1>1, <2>2 DEF CreateBot, InitializeCore, SetupHealth, StartHealth, Fails, Watch,
       Wait, GiveUp, Restart, Leave, Shutdown, Complete, Exit, MainGoes, MainOnly, At
  <2>3. CASE Launch \/ Relaunch
    <3>1. /\ poller \in {"none", "dead"} /\ StartThread /\ main' = "watch"
      BY <2>3 DEF Launch, Relaunch, MainGoes, At, DelayInv
    <3> QED
      BY <3>1 DEF StartThread, loopVars, circuitVars, DelayInv
  <2> QED
    BY <1>3, <2>1, <2>2, <2>3 DEF MainStep
<1>4. CASE PollerStep \/ PollerAccident
  <2>1. UNCHANGED main
    BY <1>4 DEF PollerStep, PollerAccident, PollingFails, Outside
  <2>2. CASE LoopStep
    BY <2>1, <2>2, LoopKeeps
  <2>3. CASE Tick
    <3>1. /\ pause' = Less(pause) /\ openLeft' = Less(openLeft) /\ asked' = Less(asked)
          /\ UNCHANGED <<poller, sleepTime, limited>>
      BY <2>3 DEF Tick
    <3> QED
      BY <2>1, <3>1 DEF Less, DelayInv
  <2>4. CASE /\ poller \in {"starting", "serving", "polling", "failing"}
             /\ poller' \in {"serving", "polling", "sleeping", "failing", "dead"}
             /\ pause' \in {pause, sleepTime} /\ sleepTime' \in {sleepTime, BaseSleep}
             /\ UNCHANGED circuitVars
    BY <2>1, <2>4, PollingConstants DEF circuitVars, DelayInv
  <2>5. \/ Start(self.bot # "none", webhook) \/ StartFails \/ LoopStep \/ PollingFails
        \/ ServerReturns(self.requested) \/ ServerRaises \/ PollExits \/ Tick
        \/ \E e \in Errors : PollRaises(e)
    BY <1>4 DEF PollerStep, PollerAccident
  <2>6. CASE Start(self.bot # "none", webhook) \/ StartFails
    BY <2>4, <2>6 DEF Start, StartFails, EnterLoop, Goto, loopVars
  <2>7. CASE ServerReturns(self.requested) \/ ServerRaises \/ PollExits
    BY <2>4, <2>7 DEF ServerReturns, ServerRaises, PollExits, LeaveLoop, EnterLoop, Goto, loopVars
  <2>8. CASE PollingFails \/ \E e \in Errors : PollRaises(e)
    BY <2>4, <2>8 DEF PollingFails, PollRaises, Goto, loopVars
  <2> QED
    BY <2>2, <2>3, <2>5, <2>6, <2>7, <2>8
<1> QED
  BY <1>2, <1>3, <1>4 DEF Next

\* Telegram is not polled again before the delay of the last refusal that
\* was counted is over.
THEOREM RefusalsAreWaitedOut == Spec => RefusalRespected
<1>1. DelayInv /\ [Next]_vars
        => [poller = "retrying" /\ poller' = "polling" => asked = 0]_pollingVars
  BY DEF DelayInv
<1> QED
  BY <1>1, DelayInit, DelayNext, PTL DEF Spec, RefusalRespected

----------------------------------------------------------------------------
(* The way out: what the main thread still has to do once an end is asked   *)
(* for, whatever signals come on top of it.                                 *)

Statements == {"create", "core", "health", "monitor", "launch", "watch", "check", "restart",
               "leave", "shutdown", "graceful", "atexit"}

\* How many stages of a clean-up are left.
StagesLeft(s) ==
    CASE s = "health" -> 4 [] s = "flag" -> 3 [] s = "bot" -> 2 [] s = "sessions" -> 1
      [] OTHER -> 0

\* The statements of run() from m to its end, on the longest way.
MainLeft(m) ==
    CASE m = "create" -> 18 [] m = "core" -> 17 [] m = "health" -> 16
      [] m \in {"monitor", "check"} -> 15 [] m \in {"launch", "restart"} -> 14
      [] m = "watch" -> 13 [] m = "leave" -> 12 [] m = "shutdown" -> 11
      [] m = "graceful" -> 6 [] m = "atexit" -> 1 [] OTHER -> 0

\* What signals can put on top: two SIGINTs are served, and the second one kills.
HandlerLeft(h, interrupted, stage) ==
    CASE h = "none" -> IF interrupted THEN 6 ELSE 8
      [] h = "first" -> 7 [] h = "forced" -> 1 + StagesLeft(stage) [] OTHER -> 0

MainWay == MainLeft(main) + StagesLeft(cleanup["main"])
HandlerWay == HandlerLeft(handler, self.interrupted, cleanup["handler"])

\* At most 26.
WorkLeft == MainWay + HandlerWay

Ended == ~Alive \/ handler = "stuck"

\* Some frame can go on: a handler, or the main thread under no handler.
MainGoesOn ==
    \/ handler = "first"
    \/ handler = "forced" /\ cleanup["handler"] # "idle"
    \/ /\ handler = "none" /\ main \in Statements
       /\ main \in {"graceful", "atexit"} => cleanup["main"] # "idle"

\* While an end is asked for, every step of the main thread and of a handler,
\* and every SIGINT, leaves less to do, and nothing leaves more.
WayOut ==
    self.requested =>
      /\ self'.requested
      /\ WorkLeft' <= WorkLeft
      /\ MainStep \/ HandlerStep \/ Interrupt \/ InterruptHandler => WorkLeft' < WorkLeft

WayInv ==
    /\ main \in Statements \cup {"exited"}
    /\ main \in {"graceful", "atexit"} => cleanup["main"] # "idle"
    /\ handler = "forced" => cleanup["handler"] # "idle"
    /\ handler # "none" => self.interrupted
    /\ self.interrupted => self.requested \/ handler \in {"first", "stuck"}
    /\ main \in {"leave", "graceful", "atexit", "exited"} => self.requested

LEMMA StagesAreCounted == \A s : StagesLeft(s) \in 0..4
  BY DEF StagesLeft

LEMMA MainIsCounted == \A m : MainLeft(m) \in 0..18
  BY DEF MainLeft

LEMMA HandlerIsCounted == \A h, i, s : HandlerLeft(h, i, s) \in 0..8
<1> SUFFICES ASSUME NEW h, NEW i, NEW s PROVE HandlerLeft(h, i, s) \in 0..8
  OBVIOUS
<1>1. StagesLeft(s) \in 0..4
  BY StagesAreCounted
<1> QED
  BY <1>1 DEF HandlerLeft

\* A clean-up comes one stage or more nearer its end.
LEMMA CleanUpCounts ==
  ASSUME EndInv, NEW f \in Frames, CleanUp(f)
  PROVE  /\ UNCHANGED <<main, handler>> /\ handler = (IF f = "main" THEN "none" ELSE "forced")
         /\ self'.interrupted = self.interrupted /\ self'.requested = self.requested
         /\ cleanup[f] # "idle" /\ cleanup'[f] # "idle"
         /\ \A g \in Frames \ {f} : cleanup'[g] = cleanup[g]
         /\ StagesLeft(cleanup'[f]) < StagesLeft(cleanup[f])
<1>1. /\ UNCHANGED <<main, handler>> /\ handler = (IF f = "main" THEN "none" ELSE "forced")
      /\ self'.interrupted = self.interrupted /\ self'.requested = self.requested
  BY DEF CleanUp, StopHealth, ClaimStop, StopBot, StopBotFails, DownSessions, Then, Runs,
     EndInv, LauncherType, Self
<1>2. \E s \in Stages :
        /\ cleanup' = [cleanup EXCEPT ![f] = s]
        /\ \/ cleanup[f] = "health" /\ s = "flag"
           \/ cleanup[f] = "flag" /\ s \in {"bot", "done"}
           \/ cleanup[f] = "bot" /\ s \in {"sessions", "done"}
           \/ cleanup[f] = "sessions" /\ s = "done"
  BY DEF CleanUp, StopHealth, ClaimStop, StopBot, StopBotFails, DownSessions, Then, Runs, Stages
<1>3. PICK s \in Stages :
        /\ cleanup' = [cleanup EXCEPT ![f] = s]
        /\ \/ cleanup[f] = "health" /\ s = "flag"
           \/ cleanup[f] = "flag" /\ s \in {"bot", "done"}
           \/ cleanup[f] = "bot" /\ s \in {"sessions", "done"}
           \/ cleanup[f] = "sessions" /\ s = "done"
  BY <1>2
<1>4. cleanup'[f] = s /\ \A g \in Frames \ {f} : cleanup'[g] = cleanup[g]
  BY <1>3 DEF EndInv, LauncherType
<1>5. /\ StagesLeft("health") = 4 /\ StagesLeft("flag") = 3 /\ StagesLeft("bot") = 2
      /\ StagesLeft("sessions") = 1 /\ StagesLeft("done") = 0
  BY DEF StagesLeft
<1> QED
  BY <1>1, <1>3, <1>4, <1>5

\* A step of the main thread.
LEMMA MainCounts ==
  ASSUME EndInv, WayInv, MainStep
  PROVE  /\ handler = "none" /\ handler' = "none" /\ cleanup'["handler"] = cleanup["handler"]
         /\ self'.interrupted = self.interrupted /\ (self.requested => self'.requested)
         /\ (self.requested => MainWay' < MainWay) /\ WayInv'
<1>1. CASE CleanUp("main")
  <2>1. /\ UNCHANGED main /\ cleanup'["handler"] = cleanup["handler"] /\ cleanup'["main"] # "idle"
        /\ handler = "none" /\ handler' = "none"
        /\ self'.interrupted = self.interrupted /\ self'.requested = self.requested
        /\ StagesLeft(cleanup'["main"]) < StagesLeft(cleanup["main"])
    BY <1>1, CleanUpCounts DEF Frames
  <2>2. MainWay' < MainWay
    BY <2>1, StagesAreCounted, MainIsCounted DEF MainWay
  <2> QED
    BY <2>1, <2>2 DEF WayInv
<1>2. CASE ~CleanUp("main")
  <2>1. /\ handler = "none" /\ handler' = "none" /\ main # "exited"
        /\ self'.interrupted = self.interrupted /\ (self.requested => self'.requested)
        /\ main' \in {"leave", "graceful"} => self'.requested
    BY <1>2 DEF MainStep, CreateBot, InitializeCore, SetupHealth, StartHealth, Launch, Fails,
       Watch, Wait, GiveUp, Restart, Relaunch, Leave, Shutdown, Complete, Exit, At, Alive,
       MainGoes, EndInv, LauncherType, Self
  <2>2. \/ /\ UNCHANGED cleanup
           /\ \/ main = "create" /\ main' \in {"core", "shutdown"}
              \/ main = "core" /\ main' \in {"health", "shutdown"}
              \/ main = "health" /\ main' = "monitor"
              \/ main = "monitor" /\ main' = "launch"
              \/ main = "launch" /\ main' \in {"watch", "shutdown"}
              \/ main = "watch" /\ main' = "leave" 
              \/ main = "watch" /\ main' = "check" /\ ~self.requested
              \/ main = "check" /\ main' \in {"watch", "leave", "restart", "shutdown"}
              \/ main = "restart" /\ main' \in {"watch", "shutdown"}
              \/ main = "leave" /\ main' = "shutdown"
              \/ main = "atexit" /\ main' = "exited"
        \/ /\ cleanup' = [cleanup EXCEPT !["main"] = "health"]
           /\ \/ main = "shutdown" /\ main' = "graceful" /\ cleanup["main"] = "idle"
              \/ main = "graceful" /\ main' = "atexit" /\ cleanup["main"] = "done"
    BY <1>2 DEF MainStep, CreateBot, InitializeCore, SetupHealth, StartHealth, Launch, Fails,
       Watch, Wait, GiveUp, Restart, Relaunch, Leave, Shutdown, Complete, Exit, At, Alive,
       MainGoes, EndInv, MainInv, CleaningUp
  <2>3. /\ cleanup'["handler"] = cleanup["handler"]
        /\ cleanup'["main"] \in {cleanup["main"], "health"}
        /\ cleanup["main"] # cleanup'["main"] => main' \in {"graceful", "atexit"}
    BY <2>2 DEF EndInv, LauncherType, Frames
  <2>4. WayInv'
    BY <2>1, <2>2 DEF WayInv, Statements, EndInv, LauncherType, Frames
  <2>5. ASSUME self.requested PROVE MainWay' < MainWay
    <3>1. CASE UNCHANGED cleanup
      <4>1. MainLeft(main') < MainLeft(main)
        BY <2>2, <2>5, <3>1 DEF MainLeft, EndInv, LauncherType
      <4> QED
        BY <3>1, <4>1, StagesAreCounted, MainIsCounted DEF MainWay
    <3>2. CASE cleanup' = [cleanup EXCEPT !["main"] = "health"]
      <4>1. cleanup'["main"] = "health"
        BY <3>2 DEF EndInv, LauncherType, Frames
      <4>2. StagesLeft("health") = 4 /\ StagesLeft("idle") = 0 /\ StagesLeft("done") = 0
        BY DEF StagesLeft
      <4>3. \/ MainLeft(main) = 11 /\ MainLeft(main') = 6 /\ cleanup["main"] = "idle"
            \/ MainLeft(main) = 6 /\ MainLeft(main') = 1 /\ cleanup["main"] = "done"
            \/ cleanup' = cleanup
        BY <2>2, <3>2 DEF MainLeft
      <4> QED
        BY <3>1, <4>1, <4>2, <4>3 DEF MainWay
    <3> QED
      BY <2>2, <3>1, <3>2
  <2> QED
    BY <2>1, <2>3, <2>4, <2>5
<1> QED
  BY <1>1, <1>2

\* A step of a handler, a SIGINT under none, and one under a handler.
LEMMA SignalsCount ==
  ASSUME EndInv, WayInv, HandlerStep \/ Interrupt \/ InterruptHandler
  PROVE  /\ main' = main /\ cleanup'["main"] = cleanup["main"]
         /\ self.requested => self'.requested
         /\ HandlerWay' < HandlerWay /\ WayInv'
<1>1. CASE CleanUp("handler")
  <2>1. /\ UNCHANGED main /\ cleanup'["main"] = cleanup["main"]
        /\ handler = "forced" /\ handler' = "forced"
        /\ self'.interrupted = self.interrupted /\ self'.requested = self.requested
        /\ cleanup'["handler"] # "idle"
        /\ StagesLeft(cleanup'["handler"]) < StagesLeft(cleanup["handler"])
    BY <1>1, CleanUpCounts DEF Frames
  <2>2. /\ HandlerWay = 1 + StagesLeft(cleanup["handler"])
        /\ HandlerWay' = 1 + StagesLeft(cleanup'["handler"])
    BY <2>1 DEF HandlerWay, HandlerLeft
  <2>3. HandlerWay' < HandlerWay
    BY <2>1, <2>2, StagesAreCounted
  <2> QED
    BY <2>1, <2>3 DEF WayInv
<1>2. CASE FirstInterrupt \/ Kill \/ Interrupt \/ InterruptHandler
  <2>1. /\ main' = main /\ (self.requested => self'.requested)
        /\ \/ /\ handler = "first" /\ handler' = "none" /\ UNCHANGED cleanup
              /\ self'.interrupted = self.interrupted /\ self'.requested
           \/ handler = "forced" /\ handler' \in {"killed", "stuck"} /\ UNCHANGED cleanup
           \/ handler = "first" /\ handler' = "stuck" /\ UNCHANGED cleanup
           \/ /\ handler = "none" /\ ~self.interrupted /\ handler' = "first" /\ UNCHANGED cleanup
              /\ self'.interrupted
           \/ /\ handler = "none" /\ self.interrupted /\ handler' = "forced"
              /\ cleanup' = [cleanup EXCEPT !["handler"] = "health"]
    BY <1>2 DEF FirstInterrupt, Kill, Interrupt, InterruptHandler, At, EndInv, LauncherType, Self
  <2>2. self'.interrupted => handler' # "none" \/ self'.requested
    BY <1>2, <2>1 DEF WayInv
  <2>3. self.interrupted => self'.interrupted
    BY <1>2 DEF FirstInterrupt, Kill, Interrupt, InterruptHandler, EndInv, LauncherType, Self
  <2>4. cleanup'["main"] = cleanup["main"]
    BY <2>1 DEF EndInv, LauncherType, Frames
  <2>5. handler' = "forced" => cleanup'["handler"] = "health"
    BY <2>1 DEF EndInv, LauncherType, Frames
  <2>6. StagesLeft("health") = 4 /\ StagesLeft(cleanup["handler"]) \in 0..4
    BY StagesAreCounted DEF StagesLeft
  <2>7. \/ HandlerWay = 7 /\ HandlerWay' = 6
        \/ HandlerWay = 1 + StagesLeft(cleanup["handler"]) /\ HandlerWay' = 0
        \/ HandlerWay = 7 /\ HandlerWay' = 0
        \/ HandlerWay = 8 /\ HandlerWay' = 7
        \/ /\ handler' = "forced"
           /\ HandlerWay = 6 /\ HandlerWay' = 1 + StagesLeft(cleanup'["handler"])
    BY <2>1 DEF HandlerWay, HandlerLeft, WayInv
  <2>8. HandlerWay' < HandlerWay
    BY <2>5, <2>6, <2>7
  <2> QED
    BY <2>2, <2>1, <2>4, <2>5, <2>8, <2>3 DEF WayInv
<1> QED
  BY <1>1, <1>2 DEF HandlerStep

\* The other steps leave the way as it is.
LEMMA OthersCount ==
  ASSUME EndInv, WayInv, Terminate \/ PollerStep \/ PollerAccident \/ UNCHANGED vars
  PROVE  UNCHANGED <<main, handler, cleanup>> /\ self'.interrupted = self.interrupted
         /\ (self.requested => self'.requested)
BY DEF Terminate, PollerStep, PollerAccident, PollingFails, Outside, vars, EndInv, LauncherType,
       Self

LEMMA WayInit == Init => WayInv
BY DEF Init, WayInv, Statements

LEMMA WayNext == EndInv /\ WayInv /\ [Next]_vars => WayInv'
<1> SUFFICES ASSUME EndInv, WayInv, [Next]_vars PROVE WayInv'
  OBVIOUS
<1>1. CASE Terminate \/ PollerStep \/ PollerAccident \/ UNCHANGED vars
  BY <1>1, OthersCount DEF WayInv
<1> QED
  BY <1>1, MainCounts, SignalsCount DEF Next

LEMMA WayGoesOn == EndInv /\ WayInv => (~Ended => MainGoesOn)
BY DEF EndInv, LauncherType, WayInv, Ended, Alive, MainGoesOn

\* The way is never longer than 26 steps.
LEMMA WayIsShort == EndInv => WorkLeft \in 0..26
<1> SUFFICES ASSUME EndInv PROVE WorkLeft \in 0..26
  OBVIOUS
<1> DEFINE m == MainLeft(main)
           s == StagesLeft(cleanup["main"])
           h == HandlerLeft(handler, self.interrupted, cleanup["handler"])
<1>1. m \in 0..18 /\ s \in 0..4 /\ h \in 0..8
  BY StagesAreCounted, MainIsCounted, HandlerIsCounted
<1>2. s = 0 \/ m <= 6
  <2>1. CASE CleaningUp
    BY <2>1 DEF CleaningUp, MainLeft
  <2>2. CASE ~CleaningUp
    BY <2>2 DEF EndInv, MainInv, StagesLeft
  <2> QED
    BY <2>1, <2>2
<1>3. WorkLeft = m + s + h
  BY DEF WorkLeft, MainWay, HandlerWay
<1> HIDE DEF m, s, h
<1> QED
  BY <1>1, <1>2, <1>3

LEMMA SumShrinks ==
  ASSUME NEW a \in Nat, NEW b \in Nat, NEW c \in Nat, NEW d \in Nat,
         (a < c /\ b = d) \/ (a = c /\ b < d)
  PROVE  a + b < c + d /\ a + b <= c + d
OBVIOUS

LEMMA WayShrinks == EndInv /\ WayInv /\ [Next]_vars => [WayOut]_vars
<1> SUFFICES ASSUME EndInv, WayInv, [Next]_vars, self.requested PROVE WayOut
  BY DEF WayOut
<1>0. WorkLeft = MainWay + HandlerWay /\ WorkLeft' = MainWay' + HandlerWay'
  BY DEF WorkLeft
<1>1. MainWay \in Nat /\ HandlerWay \in Nat
  BY StagesAreCounted, MainIsCounted, HandlerIsCounted DEF MainWay, HandlerWay
<1>2. MainWay' \in Nat /\ HandlerWay' \in Nat
  BY StagesAreCounted, MainIsCounted, HandlerIsCounted DEF MainWay, HandlerWay
<1>3. CASE MainStep
  <2>1. /\ handler' = handler /\ cleanup'["handler"] = cleanup["handler"]
        /\ self'.interrupted = self.interrupted /\ self'.requested /\ MainWay' < MainWay
    BY <1>3, MainCounts
  <2>2. HandlerWay' = HandlerWay
    BY <2>1 DEF HandlerWay
  <2>3. MainWay' < MainWay
    BY <2>1
  <2>4. /\ MainWay' + HandlerWay' < MainWay + HandlerWay
        /\ MainWay' + HandlerWay' <= MainWay + HandlerWay
    BY <1>1, <1>2, <2>2, <2>3, SumShrinks
  <2>5. WorkLeft' < WorkLeft /\ WorkLeft' <= WorkLeft
    BY <1>0, <2>4
  <2> QED
    BY <2>1, <2>5 DEF WayOut
<1>4. CASE HandlerStep \/ Interrupt \/ InterruptHandler
  <2>1. /\ main' = main /\ cleanup'["main"] = cleanup["main"] /\ self'.requested
        /\ HandlerWay' < HandlerWay
    BY <1>4, SignalsCount
  <2>2. MainWay' = MainWay
    BY <2>1 DEF MainWay
  <2>3. HandlerWay' < HandlerWay
    BY <2>1
  <2>4. /\ MainWay' + HandlerWay' < MainWay + HandlerWay
        /\ MainWay' + HandlerWay' <= MainWay + HandlerWay
    BY <1>1, <1>2, <2>2, <2>3, SumShrinks
  <2>5. WorkLeft' < WorkLeft /\ WorkLeft' <= WorkLeft
    BY <1>0, <2>4
  <2> QED
    BY <2>1, <2>5 DEF WayOut
<1>5. CASE Terminate \/ PollerStep \/ PollerAccident \/ UNCHANGED vars
  <2>1. /\ UNCHANGED <<main, handler, cleanup>> /\ self'.interrupted = self.interrupted
        /\ self'.requested
    BY <1>5, OthersCount
  <2>2. MainWay' = MainWay /\ HandlerWay' = HandlerWay
    BY <2>1 DEF MainWay, HandlerWay
  <2>3. ASSUME MainStep \/ HandlerStep \/ Interrupt \/ InterruptHandler PROVE FALSE
    <3>1. CASE MainStep
      BY <2>2, <3>1, <1>1, <1>2, MainCounts
    <3>2. CASE HandlerStep \/ Interrupt \/ InterruptHandler
      BY <2>2, <3>2, <1>1, <1>2, SignalsCount
    <3> QED
      BY <2>3, <3>1, <3>2
  <2>4. WorkLeft' <= WorkLeft
    BY <1>0, <1>1, <1>2, <2>2
  <2> QED
    BY <2>1, <2>3, <2>4 DEF WayOut
<1> QED
  BY <1>3, <1>4, <1>5 DEF Next

\* The safety of "every request ends": once an end is asked for, some frame can
\* go on until the process is gone or stuck, and at most 26 statements of the
\* main thread and its handlers are left, however many signals arrive and
\* whatever fails (run_main_loop, shutdown, _emergency_cleanup).
THEOREM RequestsRunOut ==
    Spec => /\ [](self.requested /\ ~Ended => MainGoesOn /\ WorkLeft \in 0..26)
            /\ [][WayOut]_vars
BY WayIsShort, EndInit, EndNext, WayInit, WayNext, WayGoesOn, WayShrinks, PTL DEF Spec

----------------------------------------------------------------------------
(* The polling thread is dead and nobody knows.                             *)

Unnoticed == poller = "dead" /\ ~self.requested /\ ~Ended

\* What the main thread does until it looks at the thread, at most 5 steps.
NoticeLeft ==
    (CASE main = "watch" -> 4 [] main = "check" -> 3 [] main = "restart" -> 2 [] OTHER -> 1)
      + (IF handler = "none" THEN 1 ELSE 0)

Noticing ==
    Unnoticed /\ Unnoticed' =>
      /\ NoticeLeft' <= NoticeLeft
      /\ MainStep \/ HandlerStep \/ Interrupt \/ InterruptHandler => NoticeLeft' < NoticeLeft

LEMMA NoticeShrinks == EndInv /\ WayInv /\ DelayInv /\ [Next]_vars => [Noticing]_vars
<1> SUFFICES ASSUME EndInv, WayInv, DelayInv, [Next]_vars, Unnoticed, Unnoticed'
             PROVE  Noticing
  BY DEF Noticing
<1>1. /\ main \in {"watch", "check", "restart", "shutdown"} /\ handler \in {"none", "first"}
      /\ handler = "none" => ~self.interrupted
      /\ poller = "dead" /\ ~self.requested
      /\ poller' = "dead" /\ ~self'.requested /\ handler' # "stuck"
  BY DEF Unnoticed, Ended, Alive, WayInv, Statements, DelayInv, EndInv, LauncherType
<1>2. self \in Self
  BY DEF EndInv, LauncherType
<1>3. ASSUME MainStep PROVE NoticeLeft' < NoticeLeft
  <2>1. handler = "none" /\ handler' = "none"
    BY <1>3, MainCounts
  <2>2. \/ main = "watch" /\ main' = "check"
        \/ main = "check" /\ main' \in {"restart", "shutdown"}
        \/ main = "restart" /\ main' = "shutdown"
    <3>1. ASSUME CleanUp("main") PROVE FALSE
      BY <1>1, <2>1, <3>1, CleanUpCounts DEF Frames, EndInv, MainInv, CleaningUp
    <3> QED
      BY <1>1, <1>2, <1>3, <3>1 DEF MainStep, CreateBot, InitializeCore, SetupHealth, StartHealth,
         Launch, Fails, Watch, Wait, GiveUp, Restart, Relaunch, Leave, Shutdown, Complete, Exit,
         At, MainGoes, StartThread, Self
  <2> QED
    BY <2>1, <2>2 DEF NoticeLeft
<1>4. ASSUME HandlerStep \/ Interrupt \/ InterruptHandler PROVE NoticeLeft' < NoticeLeft
  <2>1. main' = main
    BY <1>4, SignalsCount
  <2>2. handler = "none" /\ handler' = "first"
    <3>1. ASSUME CleanUp("handler") PROVE FALSE
      BY <1>1, <3>1, CleanUpCounts DEF Frames
    <3> QED
      BY <1>1, <1>2, <1>4, <3>1 DEF HandlerStep, FirstInterrupt, Kill, Interrupt,
         InterruptHandler, At, Self
  <2> QED
    BY <2>1, <2>2 DEF NoticeLeft
<1>5. NoticeLeft \in Nat /\ NoticeLeft' \in Nat
  BY DEF NoticeLeft
<1>6. NoticeLeft' <= NoticeLeft
  <2>1. CASE Terminate \/ PollerStep \/ PollerAccident \/ UNCHANGED vars
    <3>1. UNCHANGED <<main, handler>>
      BY <2>1, OthersCount
    <3>2. NoticeLeft' = NoticeLeft
      BY <3>1 DEF NoticeLeft
    <3> QED
      BY <1>5, <3>2
  <2> QED
    BY <1>3, <1>4, <1>5, <2>1 DEF Next
<1> QED
  BY <1>3, <1>4, <1>6 DEF Noticing

\* The safety of "polling is supervised": while the thread is dead and nobody
\* asked for an end, the main thread can go on, and at most five steps are left
\* until it starts the thread again, gives up or ends (run_main_loop).
THEOREM DeathsAreNoticed ==
    Spec => [](Unnoticed => MainGoesOn /\ NoticeLeft \in 0..5) /\ [][Noticing]_vars
<1>1. EndInv /\ WayInv => (Unnoticed => MainGoesOn /\ NoticeLeft \in 0..5)
  BY WayGoesOn DEF Unnoticed, NoticeLeft
<1> QED
  BY <1>1, EndInit, EndNext, WayInit, WayNext, DelayInit, DelayNext, NoticeShrinks, PTL DEF Spec
=============================================================================
