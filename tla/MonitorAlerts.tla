---------------------------- MODULE MonitorAlerts ----------------------------
(***************************************************************************)
(* The alerts of the monitor plugin, methods.py: an event for every issue  *)
(* that is above its threshold, a notification when it begins and one when *)
(* it ends.  The first kind counts towards a budget, which is given back   *)
(* when it has not been used for a while, and so do the announcements of   *)
(* new containers and images.                                              *)
(***************************************************************************)
EXTENDS Naturals, Sequences

CONSTANTS
    Issues,           \* cpu, memory, each sensor, each disk
    MaxNotifications, \* max_notifications
    ResetWindow       \* reset_notification_count

ASSUME AlertConstants ==
    MaxNotifications \in Nat \ {0} /\ ResetWindow \in Nat \ {0}

VARIABLES
    events,  \* active_events: the issues that have one
    count,   \* notification_count
    resetAt, \* next_notification_reset_at
    now,
    sent     \* history: when counted notifications were sent

alertVars == <<events, count, resetAt, now, sent>>

AlertInit ==
    /\ events = {} /\ count = 0 /\ resetAt = 0 /\ now = 1 /\ sent = << >>

ResetDue == resetAt > 0 /\ now >= resetAt

\* Fault: the budget is given back a window after its first use.
SendNotificationFixed(delivered) ==
    LET used  == IF ResetDue THEN 0 ELSE count
        until == IF ResetDue THEN 0 ELSE resetAt
        goes  == delivered /\ used < MaxNotifications
    IN  /\ count' = IF goes THEN used + 1 ELSE used
        /\ resetAt' = IF goes /\ used = 0 THEN now + ResetWindow ELSE until
        /\ sent' = IF goes THEN Append(sent, now) ELSE sent

\* _send_notification for a message that counts; delivered says whether
\* Telegram takes it.
SendNotification(delivered) ==
    LET used  == IF ResetDue THEN 0 ELSE count
        until == IF ResetDue THEN 0 ELSE resetAt
        goes  == delivered /\ used < MaxNotifications
    IN  /\ count' = IF goes THEN used + 1 ELSE used
        /\ resetAt' = IF goes THEN now + ResetWindow ELSE until
        /\ sent' = IF goes THEN Append(sent, now) ELSE sent

\* _create_or_notify_event: the event is there before its message is sent,
\* and stays whether or not it is.
Above(issue, delivered) ==
    /\ events' = events \cup {issue}
    /\ IF issue \in events
         THEN UNCHANGED <<count, resetAt, sent>>
         ELSE SendNotification(delivered)
    /\ UNCHANGED now

\* _resolve_event_and_notify: the message does not count.
Below(issue) ==
    /\ events' = events \ {issue}
    /\ UNCHANGED <<count, resetAt, now, sent>>

CheckAlert(issue) == Below(issue) \/ \E delivered \in BOOLEAN : Above(issue, delivered)

\* _detect_docker_changes announces a container or an image that it has not
\* seen before, once, whether or not the message is delivered.  Which are new
\* is Docker's choice.
Announce ==
    /\ \E delivered \in BOOLEAN : SendNotification(delivered)
    /\ UNCHANGED <<events, now>>

----------------------------------------------------------------------------
(* In any period shorter than the window, no more notifications go out than *)
(* the budget allows, although the budget slides with every one of them.    *)
BudgetHolds ==
    \A i, j \in DOMAIN sent :
      j = i + MaxNotifications => sent[j] - sent[i] >= ResetWindow
=============================================================================
