------------------------------ MODULE Launcher ------------------------------
(***************************************************************************)
(* BotLauncher of main.py: the main thread from run() to its end, with the *)
(* signal handlers that interrupt it, and the polling thread it supervises.*)
(* Handlers run in the main thread, on top of whatever it was doing: while *)
(* a SIGINT is handled the main thread stands still, and a further SIGINT  *)
(* runs on top of the handler.                                             *)
(***************************************************************************)
EXTENDS Polling

CONSTANTS MaxRestarts  \* POLLING_RESTART_MAX_ATTEMPTS

ASSUME LauncherConstants == MaxRestarts \in Nat

VARIABLES
    main,    \* where the main thread is
    handler, \* what the handler of SIGINT is doing
    cleanup, \* progress of a clean-up in either frame of the main thread
    self,    \* the attributes of the launcher
    webhook, \* the command line asked for webhook mode
    reason   \* history: there was a reason to end

vars == <<pollingVars, main, handler, cleanup, self, webhook, reason>>

Frames == {"main", "handler"}

(* self is a record of                                                     *)
(*   bot: none, bare, or ready;  health: none, created, or running;        *)
(*   sessions: open or down;  requested: shutdown_requested;               *)
(*   opsStopped: _bot_operations_stopped;  completed: _shutdown_completed; *)
(*   interrupted: _sigint_count > 0;  restarts: polling_restart_attempts.  *)

\* The process is there until run() and atexit are through or it is killed.
Alive == main # "exited" /\ handler # "killed"

At(l) == Alive /\ handler = "none" /\ main = l

----------------------------------------------------------------------------
(* Clean-up, as shutdown and _emergency_cleanup share it: the health       *)
(* manager, the flag, the bot and the session manager.                     *)

Runs(f, stage) ==
    /\ Alive
    /\ cleanup[f] = stage
    /\ handler = IF f = "main" THEN "none" ELSE "forced"

Then(f, stage) ==
    /\ cleanup' = [cleanup EXCEPT ![f] = stage]
    /\ UNCHANGED <<pollingVars, main, handler, webhook, reason>>

\* _stop_health_system
StopHealth(f) ==
    /\ Runs(f, "health")
    /\ self' = [self EXCEPT !.health = "none"]
    /\ Then(f, "flag")

\* The flag of _shutdown_bot_silently: one frame stops the bot, once.
ClaimStop(f) ==
    /\ Runs(f, "flag")
    /\ self' = [self EXCEPT !.opsStopped = TRUE]
    /\ Then(f, IF self.opsStopped THEN "done" ELSE "bot")

\* stop_polling and remove_webhook, if the launcher still holds a bot.
StopBot(f) ==
    /\ Runs(f, "bot")
    /\ Then(f, "sessions")
    /\ UNCHANGED self

\* They raise: the exception ends the clean-up before the session manager.
StopBotFails(f) ==
    /\ Runs(f, "bot")
    /\ self.bot = "ready"
    /\ Then(f, "done")
    /\ UNCHANGED self

DownSessions(f) ==
    /\ Runs(f, "sessions")
    /\ self' = [self EXCEPT !.sessions = "down"]
    /\ Then(f, "done")

CleanUp(f) ==
    \/ StopHealth(f) \/ ClaimStop(f) \/ StopBot(f) \/ StopBotFails(f) \/ DownSessions(f)

----------------------------------------------------------------------------
(* Signals.                                                                *)

Signalled == reason' = TRUE

\* SIGTERM or SIGHUP; it takes no lock.
Terminate ==
    /\ Alive
    /\ handler # "stuck"
    /\ self' = [self EXCEPT !.requested = TRUE]
    /\ Signalled
    /\ UNCHANGED <<pollingVars, main, handler, cleanup, webhook>>

\* SIGINT: under _sigint_lock, the first one asks for a graceful end, the
\* next one cleans up on the spot.
Interrupt ==
    /\ At(main)
    /\ Signalled
    /\ self' = [self EXCEPT !.interrupted = TRUE]
    /\ IF self.interrupted
         THEN handler' = "forced" /\ cleanup' = [cleanup EXCEPT !["handler"] = "health"]
         ELSE handler' = "first" /\ UNCHANGED cleanup
    /\ UNCHANGED <<pollingVars, main, webhook>>

\* SIGINT while one is handled: the lock is held by the frame below and is
\* not reentrant, so that the main thread never runs again.
InterruptHandler ==
    /\ handler \in {"first", "forced"}
    /\ handler' = "stuck"
    /\ Signalled
    /\ UNCHANGED <<pollingVars, main, cleanup, self, webhook>>

FirstInterrupt ==
    /\ handler = "first"
    /\ handler' = "none"
    /\ self' = [self EXCEPT !.requested = TRUE]
    /\ UNCHANGED <<pollingVars, main, cleanup, webhook, reason>>

\* The default action is restored and the signal sent again.
Kill ==
    /\ handler = "forced"
    /\ cleanup["handler"] = "done"
    /\ handler' = "killed"
    /\ UNCHANGED <<pollingVars, main, cleanup, self, webhook, reason>>

----------------------------------------------------------------------------
(* run() and run_main_loop().                                              *)

MainGoes(m) == main' = m /\ UNCHANGED <<handler, cleanup, webhook>>
MainOnly == UNCHANGED <<pollingVars, reason>>

CreateBot ==
    /\ At("create")
    /\ self' = [self EXCEPT !.bot = "bare"]
    /\ MainGoes("core") /\ MainOnly

InitializeCore ==
    /\ At("core")
    /\ self' = [self EXCEPT !.bot = "ready"]
    /\ MainGoes("health") /\ MainOnly

\* setup_health_system: a failure only leaves the bot without health checks.
SetupHealth ==
    /\ At("health")
    /\ \E h \in {"none", "created"} : self' = [self EXCEPT !.health = h]
    /\ MainGoes("monitor") /\ MainOnly

\* start_health_monitoring
StartHealth ==
    /\ At("monitor")
    /\ \/ UNCHANGED self
       \/ self.health = "created" /\ self' = [self EXCEPT !.health = "running"]
    /\ MainGoes("launch") /\ MainOnly

StartThread == poller' = "starting" /\ UNCHANGED <<error, loopVars, circuitVars>>

Launch ==
    /\ At("launch")
    /\ StartThread
    /\ MainGoes("watch")
    /\ UNCHANGED <<self, reason>>

\* Anything raised on the way to the loop: _managed_bot lets the bot go.
Fails ==
    /\ main \in {"create", "core", "launch", "check", "restart"}
    /\ At(main)
    /\ self' = [self EXCEPT !.bot = "none"]
    /\ reason' = TRUE
    /\ MainGoes("shutdown")
    /\ UNCHANGED pollingVars

\* Fault: the request is only seen once the thread has ended.
WatchLate ==
    /\ At("watch")
    /\ MainGoes(IF self.requested /\ poller = "dead" THEN "leave" ELSE "check")
    /\ MainOnly
    /\ UNCHANGED self

\* The head of the loop.
Watch ==
    /\ At("watch")
    /\ MainGoes(IF self.requested THEN "leave" ELSE "check") /\ MainOnly
    /\ UNCHANGED self

\* Fault: the state of the thread is not looked at.
WaitAnyway ==
    /\ At("check")
    /\ MainGoes("watch") /\ MainOnly
    /\ UNCHANGED self

\* The thread is alive: log the health, wait for the event or a timeout.
Wait ==
    /\ At("check")
    /\ poller # "dead"
    /\ MainGoes("watch") /\ MainOnly
    /\ UNCHANGED self

GiveUp ==
    /\ At("check")
    /\ poller = "dead"
    /\ self.restarts >= MaxRestarts
    /\ self' = [self EXCEPT !.requested = TRUE]
    /\ reason' = TRUE
    /\ MainGoes("leave")
    /\ UNCHANGED pollingVars

Restart ==
    /\ At("check")
    /\ poller = "dead"
    /\ self.restarts < MaxRestarts
    /\ self' = [self EXCEPT !.restarts = @ + 1]
    /\ MainGoes("restart") /\ MainOnly

\* After a pause the thread is started again, whatever happened meanwhile.
Relaunch ==
    /\ At("restart")
    /\ StartThread
    /\ MainGoes("watch")
    /\ UNCHANGED <<self, reason>>

\* Fault: the context manager does not let the bot go.
LeaveWithBot ==
    /\ At("leave")
    /\ UNCHANGED self
    /\ MainGoes("shutdown") /\ MainOnly

\* The end of _managed_bot.
Leave ==
    /\ At("leave")
    /\ self' = [self EXCEPT !.bot = "none"]
    /\ MainGoes("shutdown") /\ MainOnly

\* shutdown(); a clean-up already through is not repeated.
Shutdown ==
    /\ At("shutdown")
    /\ self' = [self EXCEPT !.requested = TRUE]
    /\ main' = "graceful"
    /\ cleanup' = [cleanup EXCEPT !["main"] = "health"]
    /\ UNCHANGED <<handler, webhook>> /\ MainOnly

\* shutdown() is complete and atexit calls _emergency_cleanup.
Complete ==
    /\ At("graceful")
    /\ cleanup["main"] = "done"
    /\ self' = [self EXCEPT !.completed = TRUE]
    /\ main' = "atexit"
    /\ cleanup' = [cleanup EXCEPT !["main"] = "health"]
    /\ UNCHANGED <<handler, webhook>> /\ MainOnly

Exit ==
    /\ At("atexit")
    /\ cleanup["main"] = "done"
    /\ MainGoes("exited") /\ MainOnly
    /\ UNCHANGED self

MainStep ==
    \/ CreateBot \/ InitializeCore \/ SetupHealth \/ StartHealth \/ Launch \/ Fails
    \/ Watch \/ Wait \/ GiveUp \/ Restart \/ Relaunch \/ Leave
    \/ Shutdown \/ CleanUp("main") \/ Complete \/ Exit

HandlerStep == FirstInterrupt \/ CleanUp("handler") \/ Kill

----------------------------------------------------------------------------
(* The polling thread, a daemon: it lives as long as the process.          *)

Outside == UNCHANGED <<main, handler, cleanup, self, webhook, reason>>

\* The catch-all of _start_bot_polling.
PollingFails ==
    /\ poller = "failing"
    /\ Goto("dead")
    /\ self' = [self EXCEPT !.requested = TRUE]
    /\ reason' = TRUE
    /\ UNCHANGED <<error, loopVars, circuitVars, main, handler, cleanup, webhook>>

PollerStep ==
    /\ Alive
    /\ \/ /\ \/ Start(self.bot # "none", webhook) \/ StartFails
             \/ LoopStep
          /\ Outside
       \/ PollingFails

PollerAccident ==
    /\ Alive
    /\ \/ ServerReturns(self.requested) \/ ServerRaises \/ PollExits \/ Tick
       \/ \E e \in Errors : PollRaises(e)
    /\ Outside

----------------------------------------------------------------------------
Init ==
    /\ PollingInit
    /\ main = "create"
    /\ handler = "none"
    /\ cleanup = [f \in Frames |-> "idle"]
    /\ self = [bot |-> "none", health |-> "none", sessions |-> "open",
               requested |-> FALSE, opsStopped |-> FALSE, completed |-> FALSE,
               interrupted |-> FALSE, restarts |-> 0]
    /\ webhook \in BOOLEAN
    /\ reason = FALSE

Next ==
    \/ MainStep \/ HandlerStep
    \/ Terminate \/ Interrupt \/ InterruptHandler
    \/ PollerStep \/ PollerAccident

Spec == Init /\ [][Next]_vars

\* The interpreter runs every thread, and network calls time out.  Signals
\* and failures need not happen.
FairSpec == Spec /\ WF_vars(MainStep) /\ WF_vars(HandlerStep) /\ WF_vars(PollerStep)

----------------------------------------------------------------------------
(* Whatever signals come in between, a launcher that returns has stopped    *)
(* the health monitor and the session manager, and it returns only after a  *)
(* signal, an error, a polling failure or the last restart: the death of    *)
(* the thread alone ends nothing.  A forced end has stopped the health      *)
(* monitor, and the session manager too unless it cut a clean-up short or   *)
(* could not reach the bot.                                                 *)
EndsProperly ==
    /\ main = "exited" =>
         /\ self.health = "none" /\ self.sessions = "down" /\ self.completed
         /\ reason
    /\ handler = "killed" =>
         /\ self.health = "none"
         /\ \/ self.sessions = "down"
            \/ cleanup["main"] \in {"bot", "sessions"}
            \/ self.bot = "ready"

(* Once asked, the launcher ends, unless a signal arrived while another one *)
(* was handled: then the main thread waits for a lock of its own.           *)
EveryRequestEnds == self.requested ~> (~Alive \/ handler = "stuck")

(* A polling thread that died is started again or the launcher shuts down.  *)
PollingSupervised ==
    poller = "dead" ~>
      (poller # "dead" \/ self.requested \/ ~Alive \/ handler = "stuck")
=============================================================================
