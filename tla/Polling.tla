------------------------------ MODULE Polling ------------------------------
(***************************************************************************)
(* The polling thread: BotLauncher._start_bot_polling and the loop of      *)
(* PyTMBot._start_polling_loop with its back-off and its rate limit        *)
(* circuit.  Time is what is left of a sleep, so that a thread may poll    *)
(* for ever in a finite model.                                             *)
(***************************************************************************)
EXTENDS Naturals

CONSTANTS
    BaseSleep,  \* DEFAULT_BASE_SLEEP_TIME
    MaxSleep,   \* DEFAULT_MAX_SLEEP_TIME
    Threshold,  \* RATE_LIMIT_CIRCUIT_THRESHOLD
    MaxOpen,    \* RATE_LIMIT_CIRCUIT_MAX_OPEN_SECONDS
    Delays,     \* values of retry_after in an answer 429
    ErrorCap    \* bound: errors in a row

ASSUME PollingConstants ==
    /\ BaseSleep \in Nat \ {0} /\ MaxSleep \in Nat /\ BaseSleep <= MaxSleep
    /\ Threshold \in Nat \ {0} /\ MaxOpen \in Nat \ {0} /\ ErrorCap \in Nat
    /\ MaxSleep <= MaxOpen
    /\ Delays \subseteq Nat \ {0}

Smaller(a, b) == IF a < b THEN a ELSE b

VARIABLES
    poller,     \* where the thread is
    error,      \* the error being handled, if any
    guarded,    \* the loop runs inside the try block of the web server
    pause,      \* what is left of the current sleep
    sleepTime,  \* current_sleep_time
    errors,     \* consecutive_errors
    limited,    \* _rate_limit_consecutive
    openLeft,   \* time until _rate_limit_open_until, 0 when closed
    asked       \* history: what is left of the delay Telegram asked for

loopVars == <<guarded, pause, sleepTime, errors>>
circuitVars == <<limited, openLeft, asked>>
pollingVars == <<poller, error, loopVars, circuitVars>>

\* "connection" stands for every error that is only retried, 502 and 503
\* included, "fatal" for every error that ends the loop, and "exit" for an
\* exception that is not an Exception (SystemExit).
Errors == {"connection", "conflict", "rate_limited", "fatal", "exit"}

InLoop == {"polling", "sleeping", "throttled", "retrying"}

Goto(p) == poller' = p

----------------------------------------------------------------------------
(* _start_bot_polling up to the loop.                                      *)

\* A new call of _start_polling_loop.
EnterLoop(inTry) ==
    /\ Goto("polling")
    /\ guarded' = inTry
    /\ sleepTime' = BaseSleep
    /\ errors' = 0
    /\ error' = "none"
    /\ UNCHANGED <<pause, circuitVars>>

\* remove_webhook, after the check that there is a bot.
Start(hasBot, webhook) ==
    /\ poller = "starting"
    /\ hasBot
    /\ \/ ~webhook /\ EnterLoop(FALSE)
       \/ webhook /\ Goto("serving") /\ UNCHANGED <<error, loopVars, circuitVars>>

StartFails ==
    /\ poller = "starting"
    /\ Goto("failing")
    /\ UNCHANGED <<error, loopVars, circuitVars>>

\* The web server returned; the loop takes over inside its try block unless
\* the shutdown was requested.
ServerReturns(requested) ==
    /\ poller = "serving"
    /\ \/ requested /\ Goto("dead") /\ UNCHANGED <<error, loopVars, circuitVars>>
       \/ ~requested /\ EnterLoop(TRUE)

\* The web server raised: the loop takes over in the handler.
ServerRaises ==
    /\ poller = "serving"
    /\ EnterLoop(FALSE)

\* An exception leaves the loop: the handler of the web server enters it
\* once more, otherwise the thread goes to p.
LeaveLoop(p) ==
    \/ guarded /\ EnterLoop(FALSE)
    \/ ~guarded /\ Goto(p) /\ error' = "none" /\ UNCHANGED <<loopVars, circuitVars>>

----------------------------------------------------------------------------
(* _start_polling_loop.                                                    *)

ResetCircuit == limited' = 0 /\ asked' = 0 /\ openLeft' = 0

\* infinity_polling returns: the back-off and the circuit start afresh.
PollReturns ==
    /\ poller = "polling"
    /\ sleepTime' = BaseSleep
    /\ errors' = 0
    /\ ResetCircuit
    /\ UNCHANGED <<poller, error, guarded, pause>>

\* infinity_polling raises: polling is stopped, then the thread sleeps.
PollRaises(e) ==
    /\ poller = "polling"
    /\ errors < ErrorCap
    /\ e # "exit"
    /\ error' = e
    /\ pause' = sleepTime
    /\ Goto("sleeping")
    /\ UNCHANGED <<guarded, sleepTime, errors, circuitVars>>

\* Not an Exception: nothing catches it and the thread ends.
PollExits ==
    /\ poller = "polling"
    /\ LeaveLoop("dead")

Awake(p) == poller = p /\ pause = 0

CountRefusal(delay) == limited' = limited + 1 /\ asked' = delay

OpenFor(delay) == Smaller(delay * (limited + 1), MaxOpen)

\* An answer 429, the delay no longer than the longest sleep: wait out an
\* open circuit, or the delay, which the Threshold-th refusal in a row
\* stretches into an open circuit.
Throttle(delay) ==
    \/ /\ openLeft > 0
       /\ pause' = Smaller(openLeft, MaxSleep)
       /\ UNCHANGED circuitVars
    \/ /\ openLeft = 0
       /\ limited + 1 >= Threshold
       /\ CountRefusal(delay)
       /\ openLeft' = OpenFor(delay)
       /\ pause' = Smaller(OpenFor(delay), MaxSleep)
    \/ /\ openLeft = 0
       /\ limited + 1 < Threshold
       /\ CountRefusal(delay)
       /\ pause' = delay
       /\ UNCHANGED openLeft

\* _handle_polling_error, up to its own sleep.
Handle ==
    /\ Awake("sleeping")
    /\ error' = "none"
    /\ \/ error = "fatal" /\ LeaveLoop("failing")
       \/ /\ error = "connection"
          /\ Goto("retrying")
          /\ errors' = errors + 1
          /\ pause' = sleepTime
          /\ UNCHANGED <<guarded, sleepTime, circuitVars>>
       \/ /\ error = "conflict"
          /\ Goto("throttled")
          /\ pause' = BaseSleep * 2
          /\ UNCHANGED <<guarded, sleepTime, errors, circuitVars>>
       \/ /\ error = "rate_limited"
          /\ Goto("throttled")
          /\ \E delay \in Delays : Throttle(Smaller(delay, MaxSleep))
          /\ UNCHANGED <<guarded, sleepTime, errors>>

\* Fault: the handler returns before its own wait is over.
BackOffAtOnce ==
    /\ poller = "throttled"
    /\ Goto("retrying")
    /\ errors' = errors + 1
    /\ pause' = sleepTime
    /\ UNCHANGED <<error, guarded, sleepTime, circuitVars>>

\* The extra wait of a conflict or a refusal is over: the common back-off.
BackOff ==
    /\ Awake("throttled")
    /\ Goto("retrying")
    /\ errors' = errors + 1
    /\ pause' = sleepTime
    /\ UNCHANGED <<error, guarded, sleepTime, circuitVars>>

Retry ==
    /\ Awake("retrying")
    /\ Goto("polling")
    /\ sleepTime' = Smaller(sleepTime * 2, MaxSleep)
    /\ UNCHANGED <<error, guarded, pause, errors, circuitVars>>

LoopStep == PollReturns \/ Handle \/ BackOff \/ Retry

Less(n) == IF n = 0 THEN 0 ELSE n - 1

\* A second passes; a sleep may last longer than asked.
Tick ==
    /\ pause > 0 \/ openLeft > 0
    /\ pause' = Less(pause)
    /\ openLeft' = Less(openLeft)
    /\ asked' = Less(asked)
    /\ UNCHANGED <<poller, error, guarded, sleepTime, errors, limited>>

PollingInit ==
    /\ poller = "none"
    /\ error = "none"
    /\ guarded = FALSE
    /\ pause = 0
    /\ sleepTime = BaseSleep
    /\ errors = 0
    /\ limited = 0
    /\ openLeft = 0
    /\ asked = 0

----------------------------------------------------------------------------
(* Telegram is not polled again before the delay of the last refusal that   *)
(* was counted is over, however the sleeps of the loop, the handler and the *)
(* circuit add up; of a delay beyond the longest sleep only that much       *)
(* counts.  A refusal while the circuit is open is not counted: it waits    *)
(* for what is left of the circuit, whatever delay it asks for.             *)
RefusalRespected ==
    [][poller = "retrying" /\ poller' = "polling" => asked = 0]_pollingVars
=============================================================================
