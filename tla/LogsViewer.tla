----------------------------- MODULE LogsViewer -----------------------------
(***************************************************************************)
(* The viewer of container logs, docker_handlers/inline/logs.py: sessions  *)
(* that keep the logs of one fetch for a while, and the presses of buttons *)
(* that open, page, refresh and send them.  A press is handled by a thread *)
(* of the bot, and threads interleave between their steps: the checks, the *)
(* fetch from Docker, the change of the store, the edit of the message.    *)
(***************************************************************************)
EXTENDS Naturals, FiniteSets

CONSTANTS
    Viewers,       \* users, all of whom may have buttons
    Screens,       \* messages of the bot
    Handlers,      \* threads that handle presses
    LogsTtl,       \* LOGS_SESSION_TTL_SECONDS
    MaxSessions    \* bound of the sessions created

LogsConstants == LogsTtl \in Nat /\ MaxSessions \in Nat

VARIABLES
    store,     \* _sessions: session id -> its user and the age of its logs
    nextId,    \* the next session id
    screen,    \* message -> the session and owner its buttons name
    press,     \* thread -> the press it handles
    loggedIn,  \* users whose session of the bot is valid
    disturbed, \* history: messages with overlapping presses or a failed edit
    dropped,   \* history: sessions a refresh removed
    leaked     \* history: a user was given another user's logs

logsVars == <<store, nextId, screen, press, loggedIn, disturbed, dropped, leaked>>

NoSession == 0
NoPress == [at |-> "idle", user |-> 0, screen |-> 0, action |-> "none", session |-> 0, logsOf |-> 0]

LogsInit ==
    /\ store = [i \in {} |-> 0] /\ nextId = 1
    /\ screen \in [Screens -> [session : {NoSession}, owner : Viewers]]
    /\ press = [h \in Handlers |-> NoPress]
    /\ loggedIn = Viewers
    /\ disturbed = {} /\ dropped = {} /\ leaked = FALSE

Expired(s) == s.age > LogsTtl
Live(id) == id \in DOMAIN store /\ ~Expired(store[id])
Without(ids) == [i \in DOMAIN store \ ids |-> store[i]]

----------------------------------------------------------------------------
\* A press of a button.  The details of a container have the "open" button.
Press(h, u, m, action) ==
    /\ press[h].at = "idle"
    /\ action = "open" \/ screen[m].session # NoSession
    /\ press' = [press EXCEPT ![h] =
          [at |-> "checking", user |-> u, screen |-> m, action |-> action,
           session |-> IF action = "open" THEN NoSession ELSE screen[m].session, logsOf |-> 0]]
    /\ disturbed' = IF \E g \in Handlers : press[g].at # "idle" /\ press[g].screen = m
                      THEN disturbed \cup {m} ELSE disturbed
    /\ UNCHANGED <<store, nextId, screen, loggedIn, dropped, leaked>>

Done(h) == press' = [press EXCEPT ![h] = NoPress]
GoTo(h, at) == press' = [press EXCEPT ![h].at = at]

\* Fault: whoever sees a button may press it.
AllowedAny(u, owner) == u \in loggedIn

\* authorize_docker_callback_request; administrators only are modelled.
Allowed(u, owner) == u = owner /\ u \in loggedIn

\* handle_get_logs up to the first call of the store or of Docker.
Authorise(h) ==
    LET p == press[h]
    IN  /\ p.at = "checking"
        /\ IF ~Allowed(p.user, screen[p.screen].owner) THEN Done(h)
           ELSE GoTo(h, IF p.action = "open" THEN "fetching" ELSE "looking up")
        /\ UNCHANGED <<store, nextId, screen, loggedIn, disturbed, dropped, leaked>>

\* _get_session_or_show_error and _validate_logs_session_access.
LookUp(h) ==
    LET p == press[h]
        s == IF p.session \in DOMAIN store THEN store[p.session] ELSE [user |-> 0, age |-> 0]
    IN  /\ p.at = "looking up"
        /\ store' = IF p.session \in DOMAIN store /\ Expired(s)
                      THEN Without({p.session}) ELSE store
        /\ IF ~Live(p.session) \/ ~Allowed(p.user, s.user) THEN Done(h)
           ELSE press' = [press EXCEPT ![h].at =
                   CASE p.action = "nav" -> "editing"
                     [] p.action = "refresh" -> "fetching"
                     [] p.action = "file" -> "sending",
                 ![h].logsOf = s.user]
        /\ UNCHANGED <<nextId, screen, loggedIn, disturbed, dropped, leaked>>

\* get_sanitized_logs: the logs, or an error, and the old session stays.
Fetch(h) ==
    LET p == press[h]
    IN  /\ p.at = "fetching"
        /\ \/ Done(h)
           \/ press' = [press EXCEPT ![h].at = IF p.action = "refresh" THEN "removing"
                                                                      ELSE "creating",
                                     ![h].logsOf = screen[p.screen].owner]
        /\ UNCHANGED <<store, nextId, screen, loggedIn, disturbed, dropped, leaked>>

\* A refresh drops the old session, and takes the lock again for the new one.
Remove(h) ==
    /\ press[h].at = "removing"
    /\ store' = Without({press[h].session})
    /\ dropped' = dropped \cup ({press[h].session} \cap DOMAIN store)
    /\ GoTo(h, "creating")
    /\ UNCHANGED <<nextId, screen, loggedIn, disturbed, leaked>>

\* create drops what is expired.
Create(h) ==
    LET p == press[h]
        kept == {i \in DOMAIN store : ~Expired(store[i])}
    IN  /\ p.at = "creating" /\ nextId <= MaxSessions
        /\ nextId' = nextId + 1
        /\ store' = [i \in kept \cup {nextId} |->
                       IF i = nextId THEN [user |-> p.logsOf, age |-> 0] ELSE store[i]]
        /\ press' = [press EXCEPT ![h].at = "editing", ![h].session = nextId]
        /\ UNCHANGED <<screen, loggedIn, disturbed, dropped, leaked>>

Gives(p) == leaked' = (leaked \/ p.user # p.logsOf)

\* _edit_logs_message, with the session object the thread holds: the message
\* has its page and its buttons, or Telegram refuses the edit.
Edit(h) ==
    LET p == press[h]
    IN  /\ p.at = "editing"
        /\ \/ screen' = [screen EXCEPT ![p.screen].session = p.session] /\ UNCHANGED disturbed
           \/ disturbed' = disturbed \cup {p.screen} /\ UNCHANGED screen
        /\ Gives(p) /\ Done(h)
        /\ UNCHANGED <<store, nextId, loggedIn, dropped>>

\* _send_logs_as_file: the deletion of the file is MessageDeletion.
SendFile(h) ==
    /\ press[h].at = "sending"
    /\ Gives(press[h]) /\ Done(h)
    /\ UNCHANGED <<store, nextId, screen, loggedIn, disturbed, dropped>>

HandlerStep(h) == Authorise(h) \/ LookUp(h) \/ Fetch(h) \/ Remove(h) \/ Create(h) \/ Edit(h)
                    \/ SendFile(h)

----------------------------------------------------------------------------
\* Time: the age of the logs a thread holds grows as well.
Older(age) == IF age <= LogsTtl THEN age + 1 ELSE age

TtlTick ==
    /\ \E i \in DOMAIN store : ~Expired(store[i])
    /\ store' = [i \in DOMAIN store |-> [store[i] EXCEPT !.age = Older(@)]]
    /\ UNCHANGED <<nextId, screen, press, loggedIn, disturbed, dropped, leaked>>

\* A login expires, or is renewed.
LoginChanges(u) ==
    /\ loggedIn' = IF u \in loggedIn THEN loggedIn \ {u} ELSE loggedIn \cup {u}
    /\ UNCHANGED <<store, nextId, screen, press, disturbed, dropped, leaked>>

LogsNext ==
    \/ \E h \in Handlers, u \in Viewers, m \in Screens, a \in {"open", "nav", "refresh", "file"} :
         Press(h, u, m, a)
    \/ \E h \in Handlers : HandlerStep(h)
    \/ TtlTick \/ \E u \in Viewers : LoginChanges(u)

----------------------------------------------------------------------------
(* Logs are shown or sent to nobody but the user they were fetched for,      *)
(* whoever presses the buttons and whenever logins lapse.                    *)
LogsStayPrivate == ~leaked

(* The buttons of a message work: as long as its presses did not overlap and *)
(* no edit was refused, the session they name was not taken by a refresh.    *)
ButtonsWork ==
    \A m \in Screens \ disturbed :
      (\A h \in Handlers : press[h].screen # m) => screen[m].session \notin dropped
=============================================================================
