------------------------------- MODULE MCGuards -------------------------------
(* What stands in front of the handlers: the session store, the access      *)
(* control and the webhook server.  They share no state, so a behaviour     *)
(* runs one of them and leaves the others at their start.                   *)
EXTENDS SessionManager

CONSTANTS
    Callers, Allowed,      \* who is checked by the access control
    Workers,
    Updates,               \* what Telegram sends to the webhook
    MaxAttempts, Blocking, Suppression, MaxLag,
    Threshold, Grace, MaxRotations, MaxMishaps, Horizon

VARIABLES
    part,  \* "store", "access" or "webhook"
    attempts, blocked, notified, phase, update, lag, stamp, due, cleaning, passed, quiet, flooded,
    request, told, accepted, current, counter, rotating, rotation, clock, mishaps, left

Access == INSTANCE AccessControl WITH
    Users <- Callers, BlockDuration <- Blocking

Webhook == INSTANCE WebhookRotation WITH
    MaxTime <- Horizon, now <- clock

ASSUME GuardConstants == Access!AccessConstants /\ Webhook!RotationConstants

accessVars == <<attempts, blocked, notified, phase, update, lag, stamp, due, cleaning, passed,
                quiet, flooded>>
webhookVars == <<request, told, accepted, current, counter, rotating, rotation, clock, mishaps,
                 left>>
vars == <<part, sessionVars, accessVars, webhookVars>>

Init ==
    /\ part \in {"store", "access", "webhook"}
    /\ SessionInit /\ Access!Init /\ Webhook!Init

StoreStep == part = "store" /\ StoreNext /\ UNCHANGED <<part, accessVars, webhookVars>>
AccessStep == part = "access" /\ Access!Next /\ UNCHANGED <<part, sessionVars, webhookVars>>
WebhookStep == part = "webhook" /\ Webhook!Next /\ UNCHANGED <<part, sessionVars, accessVars>>

\* The fairness of each part, for the part that runs.
Spec ==
    /\ Init /\ [][StoreStep \/ AccessStep \/ WebhookStep]_vars
    /\ WF_sessionVars(part = "store" /\ ClearExpiredSessions)
    /\ \A w \in Workers : WF_accessVars(part = "access" /\ Access!Handle(w))
    /\ WF_accessVars(part = "access" /\ Access!Tick)
    /\ WF_accessVars(part = "access" /\ Access!Wake)
    /\ WF_accessVars(part = "access" /\ Access!Clean)
    /\ WF_webhookVars(part = "webhook" /\ Webhook!RotationStep)
    /\ \A u \in Updates : WF_webhookVars(part = "webhook" /\ Webhook!Handle(u))

----------------------------------------------------------------------------
(* A user is blocked exactly when the attempts have reached the limit, fewer *)
(* set-up commands than the limit pass, and the administrator hears of a     *)
(* user at most once in the suppression time, however workers interleave.    *)
LimitsHold == Access!LimitsHold

(* The credential the server takes for its own never expires.                *)
CurrentAccepted == Webhook!CurrentAccepted

(* The clean-ups do their work and no more: an expired session is removed or *)
(* renewed, and every block ends, whether or not the user comes back, but    *)
(* can only grow until it is over.                                           *)
CleanersClean == ExpiredAreCleared /\ Access!BlockHolds /\ Access!EveryBlockEnds

(* Every update is answered in the end, however its requests race with       *)
(* rotations, unless a rotation failed between its two halves; a request is  *)
(* refused only a grace period after Telegram stopped using its credential.  *)
UpdatesGetThrough ==
    Webhook!RefusedOutsideGrace /\ (part = "webhook" => Webhook!EveryUpdateAnswered)
=============================================================================
