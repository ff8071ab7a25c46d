---------------------------- MODULE AccessControl ----------------------------
(***************************************************************************)
(* The access control middleware (pytmbot/middleware/access_control.py) on *)
(* several worker threads with its cleanup thread.                         *)
(*                                                                         *)
(* An update of a user is checked against the block of that user; if the   *)
(* user is not allowed, the attempt is counted in a second critical        *)
(* section, and the administrator is told in a third.  Time is relative:   *)
(* a block is the time it has left and a notification is its age, so no    *)
(* clock has to be bounded.  MaxLag bounds the time a worker takes from    *)
(* the count to the notification.                                          *)
(***************************************************************************)
EXTENDS Integers, FiniteSets

CONSTANTS
    Users, Allowed,   \* all users, and allowed_user_ids
    Workers,
    None,             \* no block, no notification, no user
    MaxAttempts,      \* MAX_ATTEMPTS
    BlockDuration,    \* BLOCK_DURATION
    Suppression,      \* ADMIN_NOTIFY_SUPPRESSION
    MaxLag

VARIABLES
    attempts,   \* _attempt_count
    blocked,    \* _blocked_until: the time left, 0 when it is over, or None
    notified,   \* _last_admin_notify: its age, or None
    phase,      \* phase[w]: where worker w is in pre_process
    update,     \* update[w]: the user and kind of the update w handles
    lag,        \* lag[w]: the time since w counted the attempt
    stamp,      \* stamp[w]: the age of the time w has read for the notification
    due,        \* the users whose block the cleanup thread found expired
    cleaning,   \* the cleanup thread is between its clock and the lock
    passed,     \* history: setup commands passed since the last reset
    quiet,      \* history: the time since the administrator was told, or None
    flooded     \* history: the users the administrator was told about too often

memory == <<attempts, blocked, notified>>
request == <<phase, update, lag, stamp>>
cleaner == <<due, cleaning>>
history == <<passed, quiet, flooded>>
vars == <<attempts, blocked, notified, phase, update, lag, stamp, due, cleaning,
          passed, quiet, flooded>>

Old == Suppression + MaxLag  \* ages are not told apart from here on
NoUpdate == [user |-> None, setup |-> FALSE]

\* A block must outlast the suppression of notifications.
AccessConstants ==
    /\ Allowed \subseteq Users /\ None \notin Users
    /\ IsFiniteSet(Workers)
    /\ None \notin Nat
    /\ MaxAttempts \in Nat \ {0}
    /\ BlockDuration \in Nat \ {0}
    /\ Suppression \in Nat \ {0} /\ MaxLag \in Nat
    /\ BlockDuration >= Suppression + MaxLag

----------------------------------------------------------------------------
Active(u) == blocked[u] # None /\ blocked[u] # 0

Expired == {u \in Users : blocked[u] = 0}

Goto(w, p) == phase' = [phase EXCEPT ![w] = p]

\* Worker w is done with its update.
Finish(w) ==
    /\ Goto(w, "idle")
    /\ update' = [update EXCEPT ![w] = NoUpdate]
    /\ lag' = [lag EXCEPT ![w] = 0]
    /\ stamp' = [stamp EXCEPT ![w] = 0]

\* The block of the users in S is lifted and their attempts are forgotten.
Forget(S) ==
    /\ blocked' = [u \in Users |-> IF u \in S THEN None ELSE blocked[u]]
    /\ attempts' = [u \in Users |-> IF u \in S THEN 0 ELSE attempts[u]]
    /\ notified' = [u \in Users |-> IF u \in S THEN None ELSE notified[u]]
    /\ passed' = [u \in Users |-> IF u \in S THEN 0 ELSE passed[u]]

\* pre_process up to the count: an active block cancels the update, an
\* expired one is cleared, an allowed user passes.
Check(w, u, setup) ==
    /\ phase[w] = "idle"
    /\ ~Active(u)
    /\ Forget({u} \cap Expired)
    /\ IF u \in Allowed
         THEN UNCHANGED <<phase, update>>
         ELSE /\ Goto(w, "checked")
              /\ update' = [update EXCEPT ![w] = [user |-> u, setup |-> setup]]
    /\ UNCHANGED <<lag, stamp, cleaner, quiet, flooded>>

\* Fault: the block starts one attempt late.
BlockLate(w) ==
    LET u == update[w].user
        n == attempts[u] + 1
    IN  /\ phase[w] = "checked"
        /\ attempts' = [attempts EXCEPT ![u] = n]
        /\ \/ /\ n > MaxAttempts
              /\ blocked' = [blocked EXCEPT ![u] = BlockDuration]
              /\ Finish(w)
           \/ /\ n <= MaxAttempts
              /\ Goto(w, "counted")
              /\ UNCHANGED <<blocked, update, lag, stamp>>
        /\ UNCHANGED <<notified, cleaner, history>>

\* _handle_unauthorized_access: the attempt is counted; the last one blocks
\* the user and is cancelled without an answer.
Attempt(w) ==
    LET u == update[w].user
        n == attempts[u] + 1
    IN  /\ phase[w] = "checked"
        /\ attempts' = [attempts EXCEPT ![u] = n]
        /\ \/ /\ n >= MaxAttempts
              /\ blocked' = [blocked EXCEPT ![u] = BlockDuration]
              /\ Finish(w)
           \/ /\ n < MaxAttempts
              /\ Goto(w, "counted")
              /\ UNCHANGED <<blocked, update, lag, stamp>>
        /\ UNCHANGED <<notified, cleaner, history>>

\* _notify_admin reads the clock before it takes the lock.
Stamp(w) ==
    /\ phase[w] = "counted"
    /\ Goto(w, "stamped")
    /\ UNCHANGED <<memory, update, lag, stamp, cleaner, history>>

\* A notification later than the time read counts as recent, too.
Suppressed(u, w) == notified[u] # None /\ notified[u] - stamp[w] < Suppression

\* _notify_admin under its lock and after it, then the answer: a setup
\* command passes, anything else is refused.
Notify(w) ==
    LET u == update[w].user
    IN  /\ phase[w] = "stamped"
        /\ IF Suppressed(u, w)
             THEN UNCHANGED <<notified, quiet, flooded>>
             ELSE /\ notified' = [notified EXCEPT ![u] = stamp[w]]
                  /\ quiet' = [quiet EXCEPT ![u] = stamp[w]]
                  /\ flooded' = IF quiet[u] # None /\ quiet[u] - stamp[w] < Suppression
                                  THEN flooded \cup {u} ELSE flooded
        /\ passed' = [passed EXCEPT ![u] = @ + IF update[w].setup THEN 1 ELSE 0]
        /\ Finish(w)
        /\ UNCHANGED <<attempts, blocked, cleaner>>

\* _periodic_cleanup reads the clock, then takes the lock.
Wake ==
    /\ ~cleaning
    /\ cleaning' = TRUE
    /\ due' = Expired
    /\ UNCHANGED <<memory, request, history>>

\* Fault: the blocks that are still active are looked for.
CleanActive ==
    /\ cleaning
    /\ Forget({u \in due : Active(u)})
    /\ cleaning' = FALSE
    /\ due' = {}
    /\ UNCHANGED <<request, quiet, flooded>>

Clean ==
    /\ cleaning
    /\ Forget(due \cap Expired)
    /\ cleaning' = FALSE
    /\ due' = {}
    /\ UNCHANGED <<request, quiet, flooded>>

Older(age) == IF age = None \/ age = Old THEN age ELSE age + 1

Tick ==
    /\ \A w \in Workers : phase[w] \in {"counted", "stamped"} => lag[w] < MaxLag
    /\ blocked' = [u \in Users |-> IF Active(u) THEN blocked[u] - 1 ELSE blocked[u]]
    /\ notified' = [u \in Users |-> Older(notified[u])]
    /\ quiet' = [u \in Users |-> Older(quiet[u])]
    /\ lag' = [w \in Workers |-> IF phase[w] \in {"counted", "stamped"}
                                   THEN lag[w] + 1 ELSE lag[w]]
    /\ stamp' = [w \in Workers |-> IF phase[w] = "stamped" THEN stamp[w] + 1
                                                           ELSE stamp[w]]
    /\ UNCHANGED <<attempts, phase, update, cleaner, passed, flooded>>

----------------------------------------------------------------------------
Init ==
    /\ attempts = [u \in Users |-> 0]
    /\ blocked = [u \in Users |-> None]
    /\ notified = [u \in Users |-> None]
    /\ phase = [w \in Workers |-> "idle"]
    /\ update = [w \in Workers |-> NoUpdate]
    /\ lag = [w \in Workers |-> 0]
    /\ stamp = [w \in Workers |-> 0]
    /\ due = {} /\ cleaning = FALSE
    /\ passed = [u \in Users |-> 0]
    /\ quiet = [u \in Users |-> None]
    /\ flooded = {}

Receive(w) == \E u \in Users, setup \in BOOLEAN : Check(w, u, setup)
Handle(w) == Attempt(w) \/ Stamp(w) \/ Notify(w)

Next == (\E w \in Workers : Receive(w) \/ Handle(w)) \/ Wake \/ Clean \/ Tick

Spec == Init /\ [][Next]_vars

\* Workers finish what they took up, the clock runs, and the cleanup thread
\* is a loop that nothing but the shutdown ends.
Fairness ==
    /\ \A w \in Workers : WF_vars(Handle(w))
    /\ WF_vars(Tick)
    /\ WF_vars(Wake) /\ WF_vars(Clean)

FairSpec == Spec /\ Fairness

----------------------------------------------------------------------------
(* A user is blocked exactly when the attempts have reached the limit, in   *)
(* spite of the gap between the check of the block and the count; fewer     *)
(* set-up commands than the limit pass before that, however many workers    *)
(* handle them side by side; and the administrator hears of one user at     *)
(* most once in the suppression time, even when a block ends in between.    *)
BlockedAtLimit == \A u \in Users : blocked[u] # None <=> attempts[u] >= MaxAttempts
SetupWithinLimit == \A u \in Users : passed[u] <= MaxAttempts - 1
AdminNotFlooded == flooded = {}
LimitsHold == BlockedAtLimit /\ SetupWithinLimit /\ AdminNotFlooded

(* A block is lifted when it is over, and until then it can only grow.      *)
BlockHolds ==
    [][\A u \in Users : Active(u) =>
         /\ blocked'[u] # None
         /\ blocked'[u] >= blocked[u] - 1]_vars

(* Every block ends, whether or not the user comes back.                    *)
EveryBlockEnds == \A u \in Users : Active(u) ~> blocked[u] = None

=============================================================================
