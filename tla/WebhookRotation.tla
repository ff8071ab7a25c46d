--------------------------- MODULE WebhookRotation ---------------------------
(***************************************************************************)
(* WebhookServer of webhook.py: requests of Telegram handled by a pool of  *)
(* threads, while after a number of them a background thread changes path  *)
(* and secret.  The pair of path and secret is one credential, numbered in *)
(* the order of generation.  Telegram repeats an update it got no 200 for. *)
(***************************************************************************)
EXTENDS Naturals, FiniteSets

CONSTANTS
    Updates,
    Threshold,    \* WEBHOOK_ROTATION_REQUEST_THRESHOLD
    Grace,        \* WEBHOOK_ROTATION_GRACE_PERIOD_SECONDS
    MaxRotations, \* bound: credentials generated
    MaxMishaps,   \* bound: requests that are limited or fail
    MaxTime       \* bound: the clock

RotationConstants ==
    {Threshold, Grace, MaxRotations, MaxMishaps, MaxTime} \subseteq Nat

Never == MaxTime + Grace + 1  \* no expiry

VARIABLES
    request,  \* where the request of each update is, and what it carries
    told,     \* what Telegram sends to
    accepted, \* _accepted_webhook_credentials: when each expires
    current,  \* webhook_path_token and secret_token
    counter,  \* request_counter
    rotating, \* _rotation_in_progress
    rotation, \* the rotation thread
    now,
    mishaps,  \* history: requests that were limited or failed
    left      \* history: when Telegram stopped using what was accepted once

vars == <<request, told, accepted, current, counter, rotating, rotation, now,
          mishaps, left>>

serverVars == <<accepted, current, counter, rotating, rotation>>

Become(u, p) == request' = [request EXCEPT ![u].phase = p]

----------------------------------------------------------------------------
(* A request, from Telegram to the answer.                                 *)

Send(u) ==
    /\ request[u].phase = "pending"
    /\ request' = [request EXCEPT ![u] = [phase |-> "sent", with |-> told]]
    /\ UNCHANGED <<told, serverVars, now, mishaps, left>>

Expired(c) == now >= accepted[c]

Valid == {c \in DOMAIN accepted : ~Expired(c)}

\* _resolve_expected_secret drops what has expired and looks the path up.
Resolve(u) ==
    /\ request[u].phase = "sent"
    /\ accepted' = [c \in Valid |-> accepted[c]]
    /\ Become(u, IF request[u].with \in Valid THEN "known" ELSE "pending")
    /\ UNCHANGED <<told, current, counter, rotating, rotation, now, mishaps, left>>

\* Rate limited, or the update raises while it is processed.
Mishap(u) ==
    /\ request[u].phase \in {"known", "counted"}
    /\ mishaps < MaxMishaps
    /\ mishaps' = mishaps + 1
    /\ Become(u, "pending")
    /\ UNCHANGED <<told, serverVars, now, left>>

Count(u) ==
    /\ request[u].phase = "known"
    /\ counter' = counter + 1
    /\ Become(u, "counted")
    /\ UNCHANGED <<told, accepted, current, rotating, rotation, now, mishaps, left>>

\* _maybe_rotate_webhook, then 200.
Answer(u) ==
    /\ request[u].phase = "counted"
    /\ Become(u, "answered")
    /\ IF counter >= Threshold /\ ~rotating /\ rotation.new < MaxRotations
         THEN /\ rotating' = TRUE
              /\ rotation' = [rotation EXCEPT !.phase = "started"]
         ELSE UNCHANGED <<rotating, rotation>>
    /\ UNCHANGED <<told, accepted, current, counter, now, mishaps, left>>

----------------------------------------------------------------------------
(* _rotate_webhook_credentials.                                            *)

Rotate(from, to) ==
    /\ rotation.phase = from
    /\ UNCHANGED <<request, now, mishaps>>
    /\ rotation' = [rotation EXCEPT !.phase = to]

Generate ==
    /\ rotation.phase = "started"
    /\ rotation' = [phase |-> "telling", old |-> current, new |-> rotation.new + 1]
    /\ UNCHANGED <<request, told, accepted, current, counter, rotating, now, mishaps, left>>

\* set_webhook
Tell ==
    /\ Rotate("telling", "told")
    /\ told' = rotation.new
    /\ left' = [c \in DOMAIN left |-> IF c = told THEN now ELSE left[c]]
    /\ UNCHANGED <<accepted, current, counter, rotating>>

\* A call to Telegram raises: before set_webhook, or get_webhook_info after it.
TellFails ==
    /\ rotation.phase \in {"telling", "told"}
    /\ Rotate(rotation.phase, "ending")
    /\ UNCHANGED <<told, accepted, current, counter, rotating, left>>

Taken == left' = [c \in DOMAIN left \cup {rotation.new} |->
                    IF c = rotation.new THEN Never ELSE left[c]]

\* Fault: the current credential is left as it was.
AcceptUnswitched ==
    /\ Rotate("told", "ending")
    /\ accepted' = [c \in DOMAIN accepted \cup {rotation.old, rotation.new} |->
                      IF c = rotation.old THEN now + Grace
                      ELSE IF c = rotation.new THEN Never ELSE accepted[c]]
    /\ counter' = 0
    /\ Taken
    /\ UNCHANGED <<told, current, rotating>>

Accept ==
    /\ Rotate("told", "ending")
    /\ accepted' = [c \in DOMAIN accepted \cup {rotation.old, rotation.new} |->
                      IF c = rotation.old THEN now + Grace
                      ELSE IF c = rotation.new THEN Never ELSE accepted[c]]
    /\ current' = rotation.new
    /\ counter' = 0
    /\ Taken
    /\ UNCHANGED <<told, rotating>>

\* Fault: the flag is not reset.
EndRotationFlagged ==
    /\ Rotate("ending", "idle")
    /\ UNCHANGED <<told, accepted, current, counter, rotating, left>>

EndRotation ==
    /\ Rotate("ending", "idle")
    /\ rotating' = FALSE
    /\ UNCHANGED <<told, accepted, current, counter, left>>

RotationStep == Generate \/ Tell \/ Accept \/ EndRotation

Tick ==
    /\ now < MaxTime
    /\ now' = now + 1
    /\ UNCHANGED <<request, told, serverVars, mishaps, left>>

----------------------------------------------------------------------------
Init ==
    /\ request = [u \in Updates |-> [phase |-> "pending", with |-> 0]]
    /\ told = 0
    /\ accepted = [c \in {0} |-> Never]
    /\ current = 0
    /\ counter = 0
    /\ rotating = FALSE
    /\ rotation = [phase |-> "idle", old |-> 0, new |-> 0]
    /\ now = 0
    /\ mishaps = 0
    /\ left = [c \in {0} |-> Never]

Handle(u) == Send(u) \/ Resolve(u) \/ Count(u) \/ Answer(u)

Next ==
    \/ \E u \in Updates : Handle(u) \/ Mishap(u)
    \/ RotationStep \/ TellFails \/ Tick

Spec == Init /\ [][Next]_vars

\* Telegram repeats what was not answered, threads run, calls return.
FairSpec ==
    Spec /\ WF_vars(RotationStep) /\ \A u \in Updates : WF_vars(Handle(u))

----------------------------------------------------------------------------
(* The credential the server takes for its own never expires, through every *)
(* failed and every successful rotation.                                    *)
CurrentAccepted == current \in DOMAIN accepted /\ accepted[current] = Never

(* A request with a credential the server has accepted at any time is       *)
(* refused only a grace period after Telegram stopped using it.              *)
RefusedOutsideGrace ==
    [][\A u \in Updates :
         request[u].phase = "sent" /\ request'[u].phase = "pending" =>
           \/ request[u].with \notin DOMAIN left
           \/ now >= left[request[u].with] + Grace]_vars

\* A call failed between telling Telegram and accepting what it was told.
Deaf == told # current /\ ~rotating

(* All updates are answered in the end, however its requests race with      *)
(* rotations, unless a rotation failed between its two halves.              *)
EveryUpdateAnswered ==
    <>(Deaf \/ \A u \in Updates : request[u].phase = "answered")

=============================================================================
