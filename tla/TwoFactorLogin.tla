--------------------------- MODULE TwoFactorLogin ---------------------------
(***************************************************************************)
(* The second factor: the handlers of handlers/auth_processing/            *)
(* twofa_processing.py and the decorator two_factor_auth_required of       *)
(* middleware/session_wrapper.py, run by the worker threads of TeleBot     *)
(* (threaded=True) over the session store of SessionManager.               *)
(*                                                                         *)
(* A handler is a sequence of calls to the store; each call holds the lock *)
(* and is one action, and other workers, the cleanup thread and the health *)
(* checks may run between two of them.  phase says which call a worker     *)
(* makes next.  Whether a code is right is decided by TotpReplay; here     *)
(* verify_totp_code answers yes, answers no or raises.                     *)
(***************************************************************************)
EXTENDS SessionManager

CONSTANTS
    Workers,        \* the threads of TeleBot's pool
    Admins,         \* access_control.allowed_admins_ids
    TotpMax,        \* var_config.totp_max_attempts
    BurstLimit,     \* _totp_rate_limit_threshold()
    BurstWindow,    \* _TOTP_RATE_LIMIT_WINDOW_SECONDS
    BurstBlock      \* the block, in minutes, of _handle_rate_limited_totp_attempt

ASSUME LoginConstants ==
    /\ IsFiniteSet(Workers)
    /\ Admins \subseteq Users
    /\ TotpMax \in Nat \ {0}
    /\ BurstLimit \in Nat \ {0}
    /\ BurstWindow \in Nat
    /\ BurstBlock \in Nat \ {0}

VARIABLES
    phase,     \* phase[w]: where worker w is in its handler
    who,       \* who[w]: the user whose message w handles
    seen,      \* seen[w]: what w has read of the session and still holds
    burst      \* _totp_attempt_times: the times of the recent attempts

loginVars == <<phase, who, seen, burst>>
vars == <<sessions, order, stopped, now, phase, who, seen, burst>>

Phases == {"idle",
           "prompting",                                 \* handle_twofa_message
           "entered", "blockRead", "attemptsRead",      \* guards of a code
           "limited", "maxed", "maxedReset", "maxedBlock",
           "verifying", "rejected",
           "accepted", "stateSet", "loginSet", "refererRead", "welcomed",
           "turnedAway", "granted"}                     \* the decorator

Seen == [blockedUntil : Time, attempts : Nat, referer : HandlerTypes]
NothingSeen == [blockedUntil |-> None, attempts |-> 0, referer |-> "none"]

Goto(w, p) == phase' = [phase EXCEPT ![w] = p]

\* Worker w leaves its handler and forgets what it read.
Finish(w) ==
    /\ Goto(w, "idle")
    /\ seen' = [seen EXCEPT ![w] = NothingSeen]

\* Worker w takes a message of u from the queue.
Take(w, u) == phase[w] = "idle" /\ who' = [who EXCEPT ![w] = u]

----------------------------------------------------------------------------
(* handle_twofa_message: "Enter 2FA code".                                 *)

AskForCode(w, u) ==
    /\ Take(w, u)
    /\ IsBlocked(u)
    /\ Goto(w, IF IsBlockedNow(Lookup(u)) THEN "idle" ELSE "prompting")
    /\ UNCHANGED <<seen, burst>>

Prompt(w) ==
    /\ phase[w] = "prompting"
    /\ SetAuthState(who[w], "processing")
    /\ Finish(w)
    /\ UNCHANGED <<who, burst>>

----------------------------------------------------------------------------
(* handle_totp_code_verification: a six-digit message.  The handler is     *)
(* registered for six digits only, so the branch for a malformed code is   *)
(* never taken.                                                            *)

ReceiveCode(w, u) ==
    /\ Take(w, u)
    /\ Read(u)
    /\ Goto(w, IF Lookup(u).auth = "processing" THEN "entered" ELSE "idle")
    /\ UNCHANGED <<seen, burst>>

ReadBlock(w) ==
    /\ phase[w] = "entered"
    /\ Read(who[w])
    /\ seen' = [seen EXCEPT ![w].blockedUntil = Lookup(who[w]).blockedUntil]
    /\ Goto(w, "blockRead")
    /\ UNCHANGED <<who, burst>>

\* Fault: the counter of wrong codes is not looked at.
SkipAttempts(w) ==
    /\ phase[w] = "blockRead"
    /\ Read(who[w])
    /\ Goto(w, "attemptsRead")
    /\ UNCHANGED <<who, seen, burst>>

ReadAttempts(w) ==
    /\ phase[w] = "blockRead"
    /\ Read(who[w])
    /\ seen' = [seen EXCEPT ![w].attempts = Lookup(who[w]).attempts]
    /\ Goto(w, "attemptsRead")
    /\ UNCHANGED <<who, burst>>

\* The attempts of u that are left once the old ones at the front of the
\* deque are dropped.
Recent(u) ==
    LET stale == {i \in DOMAIN burst[u] :
                    \A j \in 1..i : now - burst[u][j] > BurstWindow}
    IN  SubSeq(burst[u], Cardinality(stale) + 1, Len(burst[u]))

\* _consume_totp_attempt
ConsumeTotpAttempt(u) ==
    burst' = [burst EXCEPT ![u] =
                IF Len(Recent(u)) >= BurstLimit THEN Recent(u)
                                                ELSE Append(Recent(u), now)]

\* attempt_guards is a tuple, so the attempt is consumed before the first
\* guard is looked at.
Guards(w) ==
    LET u == who[w]
        blocked == seen[w].blockedUntil # None /\ now < seen[w].blockedUntil
        next == IF blocked THEN "idle"
                ELSE IF Len(Recent(u)) >= BurstLimit THEN "limited"
                ELSE IF seen[w].attempts >= TotpMax THEN "maxed"
                ELSE "verifying"
    IN  /\ phase[w] = "attemptsRead"
        /\ ConsumeTotpAttempt(u)
        /\ Goto(w, next)
        /\ seen' = [seen EXCEPT ![w] = NothingSeen]
        /\ UNCHANGED <<sessions, order, stopped, now, who>>

RateLimited(w) ==
    /\ phase[w] = "limited"
    /\ SetBlockedTime(who[w], BurstBlock)
    /\ Finish(w)
    /\ UNCHANGED <<who, burst>>

\* _block_user: three calls, with a gap after each.
BlockUser(w) ==
    /\ UNCHANGED <<who, seen, burst>>
    /\ \/ /\ phase[w] = "maxed"
          /\ SetAuthState(who[w], "blocked")
          /\ Goto(w, "maxedReset")
       \/ /\ phase[w] = "maxedReset"
          /\ ResetTotpAttempts(who[w])
          /\ Goto(w, "maxedBlock")
       \/ /\ phase[w] = "maxedBlock"
          /\ SetBlockedTime(who[w], BlockDuration)
          /\ Goto(w, "idle")

Verify(w, answer) ==
    /\ phase[w] = "verifying"
    /\ Goto(w, CASE answer = "yes" -> "accepted"
                 [] answer = "no" -> "rejected"
                 [] answer = "raises" -> "idle")
    /\ UNCHANGED <<sessions, order, stopped, now, who, seen, burst>>

Reject(w) ==
    /\ phase[w] = "rejected"
    /\ IncrementTotpAttempts(who[w])
    /\ Finish(w)
    /\ UNCHANGED <<who, burst>>

\* bot.send_chat_action raises before the session is touched.
AcceptFails(w) ==
    /\ phase[w] = "accepted"
    /\ Finish(w)
    /\ UNCHANGED <<sessions, order, stopped, now, who, burst>>

SetAuthenticated(w) ==
    /\ phase[w] = "accepted"
    /\ SetAuthState(who[w], "authenticated")
    /\ Goto(w, "stateSet")
    /\ UNCHANGED <<who, seen, burst>>

SetLogin(w) ==
    /\ phase[w] = "stateSet"
    /\ SetLoginTime(who[w])
    /\ Goto(w, "loginSet")
    /\ UNCHANGED <<who, seen, burst>>

\* __create_referer_keyboard reads the referer, and resets it whether or not
\* it can build a keyboard for it.
ReadReferer(w) ==
    /\ phase[w] = "loginSet"
    /\ Read(who[w])
    /\ seen' = [seen EXCEPT ![w].referer = Lookup(who[w]).referer]
    /\ Goto(w, "refererRead")
    /\ UNCHANGED <<who, burst>>

\* Without a referer the handler raises: the user gets no welcome.
ResetReferer(w) ==
    /\ phase[w] = "refererRead"
    /\ ResetRefererData(who[w])
    /\ Goto(w, IF seen[w].referer = "none" THEN "idle" ELSE "welcomed")
    /\ seen' = [seen EXCEPT ![w] = NothingSeen]
    /\ UNCHANGED <<who, burst>>

----------------------------------------------------------------------------
(* two_factor_auth_required around a protected handler.  A user who is not *)
(* an admin is turned away without a look at the session.                  *)

Protected(w, u) ==
    /\ u \in Admins
    /\ Take(w, u)
    /\ IsAuthenticated(u)
    /\ Goto(w, IF AuthenticatedNow(Lookup(u)) THEN "granted" ELSE "turnedAway")
    /\ UNCHANGED <<seen, burst>>

RememberReferer(w, type) ==
    /\ phase[w] = "turnedAway"
    /\ SetRefererData(who[w], type)
    /\ Finish(w)
    /\ UNCHANGED <<who, burst>>

\* The handler has answered; a success reply or a protected handler ends.
Done(w) ==
    /\ phase[w] \in {"welcomed", "granted"}
    /\ Finish(w)
    /\ UNCHANGED <<sessions, order, stopped, now, who, burst>>

----------------------------------------------------------------------------
Init ==
    /\ SessionInit
    /\ phase = [w \in Workers |-> "idle"]
    /\ who \in [Workers -> Users]
    /\ seen = [w \in Workers |-> NothingSeen]
    /\ burst = [u \in Users |-> << >>]

Message(w, u) == AskForCode(w, u) \/ ReceiveCode(w, u) \/ Protected(w, u)

Step(w) ==
    \/ Prompt(w)
    \/ ReadBlock(w) \/ ReadAttempts(w) \/ Guards(w)
    \/ RateLimited(w) \/ BlockUser(w)
    \/ \E answer \in {"yes", "no", "raises"} : Verify(w, answer)
    \/ Reject(w)
    \/ AcceptFails(w) \/ SetAuthenticated(w) \/ SetLogin(w)
    \/ ReadReferer(w) \/ ResetReferer(w)
    \/ \E type \in HandlerTypes \ {"none"} : RememberReferer(w, type)
    \/ Done(w)

Background == (ClearExpiredSessions \/ GetSessionStats \/ Tick) /\ UNCHANGED loginVars

Next ==
    \/ \E w \in Workers : Step(w) \/ \E u \in Users : Message(w, u)
    \/ Background

Spec == Init /\ [][Next]_vars

----------------------------------------------------------------------------
(* The login as the abstract gate of LoginGate sees it.                     *)
GateRole == [w \in Workers |->
               CASE phase[w] \in {"accepted", "stateSet"} -> "paid"
                 [] phase[w] = "granted" -> "running"
                 [] OTHER -> "none"]

GateOpened == [u \in Users |-> Lookup(u).loginTime]
GateLock == [u \in Users |-> Lookup(u).blockedUntil]

Gate == INSTANCE LoginGate WITH
            Timeout <- SessionTimeout, clock <- now, role <- GateRole,
            client <- who, opened <- GateOpened, lock <- GateLock

(* The login implements the gate: whatever the workers, the cleanup and the *)
(* health checks interleave, a protected handler starts only for an admin   *)
(* inside a login window, outside a block, and each window is paid for by   *)
(* one accepted code.                                                       *)
GateSpec == Gate!Spec

----------------------------------------------------------------------------
(* Type correctness of the store and of the workers.                        *)
TypeOK ==
    /\ SessionTypeOK
    /\ phase \in [Workers -> Phases]
    /\ who \in [Workers -> Users]
    /\ seen \in [Workers -> Seen]
    /\ burst \in [Users -> Seq(Nat)]

(* Guessing is bounded: a session never records more wrong codes than the   *)
(* limit and one extra per further worker, because a worker may check the   *)
(* counter before another one raises it.                                    *)
AttemptsBounded ==
    \A u \in Live : sessions[u].attempts <= TotpMax + Cardinality(Workers) - 1

(* A code that failed or a block that was set never opens a login: a session *)
(* becomes authenticated only in the step of a worker holding an accepted   *)
(* code of that user.                                                       *)
OnlyCodesAuthenticate ==
    [][\A u \in Users :
         (u \in Live' /\ sessions'[u].auth = "authenticated")
           => \/ u \in Live /\ sessions[u].auth = "authenticated"
              \/ \E w \in Workers : who[w] = u /\ phase[w] = "accepted"]_vars

(* A block lasts until its time is over: its session is not dropped before, *)
(* and the end is not moved to an earlier one.                              *)
BlockLasts ==
    [][\A u \in Live : IsBlockedNow(sessions[u]) =>
         /\ u \in Live'
         /\ sessions'[u].blockedUntil >= sessions[u].blockedUntil]_vars
=============================================================================
