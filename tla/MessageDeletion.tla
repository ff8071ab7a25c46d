--------------------------- MODULE MessageDeletion ---------------------------
(***************************************************************************)
(* Messages that delete themselves: the manager of                         *)
(* utils/message_deletion.py with one thread per pending deletion, and the *)
(* handlers that send a log file, a QR code or the sender's id with the    *)
(* promise to delete it.                                                   *)
(***************************************************************************)
EXTENDS Naturals, FiniteSets, Sequences

CONSTANTS
    Users,
    Chats,
    Senders,    \* threads of handlers that send such messages
    MaxPending, \* _DEFAULT_MAX_PENDING_PER_USER
    MaxMessages \* bound of the messages sent to a chat

DeletionConstants == MaxPending \in Nat \ {0} /\ MaxMessages \in Nat

VARIABLES
    tasks,     \* the keys of _active_tasks: user and message id
    pending,   \* _user_pending_deletions
    threads,   \* _execute_deletion: its task and where it is
    sender,    \* handler -> what it is sending
    chat,      \* chat -> the state of each message sent with the promise
    botAlive   \* the bot behind the weak references

deletionVars == <<tasks, pending, threads, sender, chat, botAlive>>

Idle == [at |-> "idle", user |-> 0, chat |-> 0, id |-> 0]

DeletionInit ==
    /\ tasks = {} /\ pending = [u \in Users |-> {}] /\ threads = {}
    /\ sender = [s \in Senders |-> Idle]
    /\ chat = [c \in Chats |-> << >>]
    /\ botAlive = TRUE

Message(c, i) == IF i \in DOMAIN chat[c] THEN chat[c][i] ELSE "none"
Mark(c, id, state) == chat' = [chat EXCEPT ![c][id] = state]

\* The state of a message: "promised" from its caption on, then "deleted",
\* "failed" when Telegram refused or could not be reached, "warned" about, or
\* "unknown" after an error of the handler.
SendTemporary(s, u, c) ==
    /\ botAlive /\ sender[s].at = "idle" /\ Len(chat[c]) < MaxMessages
    /\ chat' = [chat EXCEPT ![c] = Append(@, "promised")]
    /\ sender' = [sender EXCEPT ![s] =
                    [at |-> "sent", user |-> u, chat |-> c, id |-> Len(chat[c]) + 1]]
    /\ UNCHANGED <<tasks, pending, threads, botAlive>>

Take(m, at) ==
    /\ tasks' = tasks \cup {<<m.user, m.id>>}
    /\ pending' = [pending EXCEPT ![m.user] = @ \cup {m.id}]
    /\ threads' = threads \cup {[user |-> m.user, chat |-> m.chat, id |-> m.id, at |-> at]}

\* Fault: a refusal at the limit passes like a duplicate.
ScheduleQuiet(s) ==
    LET m == sender[s]
        key == <<m.user, m.id>>
        enters == key \notin tasks /\ Cardinality(pending[m.user]) < MaxPending
    IN  /\ m.at = "sent"
        /\ sender' = [sender EXCEPT ![s] = Idle]
        /\ IF enters THEN Take(m, "asleep") ELSE UNCHANGED <<tasks, pending, threads>>
        /\ UNCHANGED <<chat, botAlive>>

\* schedule_deletion under its lock; the answer decides what the user is told.
\* A thread that cannot be started leaves its place taken, and the handler ends.
Schedule(s) ==
    LET m == sender[s]
        known == <<m.user, m.id>> \in tasks
        full == Cardinality(pending[m.user]) >= MaxPending
    IN  /\ m.at = "sent"
        /\ \/ /\ known
              /\ sender' = [sender EXCEPT ![s] = Idle]
              /\ UNCHANGED <<tasks, pending, threads, chat>>
           \/ /\ ~known /\ full
              /\ sender' = [sender EXCEPT ![s].at = "full"]
              /\ UNCHANGED <<tasks, pending, threads, chat>>
           \/ /\ ~known /\ ~full
              /\ sender' = [sender EXCEPT ![s] = Idle]
              /\ \/ Take(m, "asleep") /\ UNCHANGED chat
                 \/ Take(m, "unstarted") /\ Mark(m.chat, m.id, "unknown")
        /\ UNCHANGED botAlive

\* LIMIT_EXCEEDED: the warning, or the message about an error if it cannot
\* be sent.
Warn(s) ==
    /\ sender[s].at = "full"
    /\ \E state \in {"warned", "unknown"} : Mark(sender[s].chat, sender[s].id, state)
    /\ sender' = [sender EXCEPT ![s] = Idle]
    /\ UNCHANGED <<tasks, pending, threads, botAlive>>

Replace(t, at) == threads' = (threads \ {t}) \cup {[t EXCEPT !.at = at]}

\* The delay is over: the message goes, or the request fails or is refused,
\* which ends the same, or the bot is gone.
Execute(t) ==
    /\ t.at = "asleep"
    /\ Replace(t, "finishing")
    /\ IF botAlive
         THEN \E state \in {"deleted", "failed"} : Mark(t.chat, t.id, state)
         ELSE UNCHANGED chat
    /\ UNCHANGED <<tasks, pending, sender, botAlive>>

\* Fault: a deletion that failed keeps its place.
FinishDeleted(t) ==
    /\ t.at = "finishing"
    /\ threads' = threads \ {t}
    /\ IF chat[t.chat][t.id] = "deleted"
         THEN /\ tasks' = tasks \ {<<t.user, t.id>>}
              /\ pending' = [pending EXCEPT ![t.user] = @ \ {t.id}]
         ELSE UNCHANGED <<tasks, pending>>
    /\ UNCHANGED <<sender, chat, botAlive>>

\* The finally block, and the callback, which only sends a message.
Finish(t) ==
    /\ t.at = "finishing"
    /\ threads' = threads \ {t}
    /\ tasks' = tasks \ {<<t.user, t.id>>}
    /\ pending' = [pending EXCEPT ![t.user] = @ \ {t.id}]
    /\ UNCHANGED <<sender, chat, botAlive>>

BotGoes ==
    /\ botAlive
    /\ botAlive' = FALSE
    /\ UNCHANGED <<tasks, pending, threads, sender, chat>>

\* _cleanup_stale_references: every task belongs to the one bot.
Cleanup ==
    /\ ~botAlive /\ tasks # {}
    /\ tasks' = {}
    /\ pending' = [u \in Users |-> pending[u] \ {k[2] : k \in {l \in tasks : l[1] = u}}]
    /\ UNCHANGED <<threads, sender, chat, botAlive>>

SenderStep(s) == Schedule(s) \/ Warn(s)
ThreadStep == \E t \in threads : Execute(t) \/ Finish(t)

DeletionNext ==
    \/ \E s \in Senders, u \in Users, c \in Chats : SendTemporary(s, u, c)
    \/ \E s \in Senders : SenderStep(s)
    \/ ThreadStep \/ BotGoes \/ Cleanup

\* What threads do once a message is sent.
Proceed == ThreadStep \/ \E s \in Senders : SenderStep(s)

----------------------------------------------------------------------------
(* The keys, the count of each user and the threads stay one: every place    *)
(* that is taken belongs to a thread that will give it back, or that could   *)
(* not be started, and no user has more than the limit.                      *)
PlacesAreHeld ==
    /\ \A u \in Users :
         /\ pending[u] = {k[2] : k \in {l \in tasks : l[1] = u}}
         /\ Cardinality(pending[u]) <= MaxPending
    /\ tasks \subseteq {<<t.user, t.id>> : t \in threads}

(* A message that was sent with the promise to delete itself is deleted, or  *)
(* the attempt failed, or its reader was warned, or the handler ended in an  *)
(* error, as long as the bot is there.  A message never becomes promised     *)
(* again, and an instance has a bounded number of them, so none stays        *)
(* promised when always again none is.                                       *)
PromiseKept ==
    []<>(~botAlive \/ \A c \in Chats, i \in 1 .. MaxMessages : Message(c, i) # "promised")
=============================================================================
