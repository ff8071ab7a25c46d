------------------------------- MODULE Screens -------------------------------
(***************************************************************************)
(* The inline screens (server_handlers, docker_handlers, keyboards): one   *)
(* message in a group whose keyboard is replaced with its text at every    *)
(* press.  A button carries a head, which names its handler, the container *)
(* it is about and the user it belongs to, in at most 64 characters: the   *)
(* keyboard builder cuts what is longer.                                   *)
(***************************************************************************)
EXTENDS Naturals

CONSTANTS
    Users, Admins,  \* the allowed users and the admins among them
    NoOwner,        \* of the buttons that an older version sent
    Foreign,        \* a user id that lost its last digits
    Broken,         \* data that cannot be parsed
    Names           \* of a container: the length, and whether there are capitals

ScreensAssumption ==
    /\ Admins \subseteq Users /\ NoOwner \notin Users
    /\ {Foreign, Broken} \cap (Users \cup {NoOwner}) = {}
    /\ Names \subseteq [length : Nat, upper : BOOLEAN]

MaxData == 64
IdDigits == 10  \* of a user id, as they are today

VARIABLES
    card,       \* the message: its view, its owner, what it shows of the container
    loggedIn,   \* admins with a login
    fans,       \* whether the host has fans
    container,  \* the one container: [length, upper, state]
    last        \* history: who did what

screenVars == <<card, loggedIn, fans, container, last>>

----------------------------------------------------------------------------
(* The view that a press of a system button shows, and the buttons of a      *)
(* section: its overview and its details, which lead back.                   *)
CpuViews == [cpu_info |-> "cpu", cpu_per_core |-> "cpu details", cpu_times |-> "cpu details",
             process_info |-> "cpu details"]
NetworkViews == [network_overview |-> "network", network_interfaces |-> "network details",
                 network_connections |-> "network details"]
DiskViews == [filesystem_overview |-> "filesystem", disk_io |-> "disk details"]
SensorViews == [sensors_overview |-> "sensors", fan_speeds |-> "fans"]
UptimeViews == [users_info |-> "uptime"]
MemoryViews == [swap_info |-> "memory"]
ProcessViews == [process_overview |-> "process", process_info_process |-> "process details"]
QuickViews == [quickview_overview |-> "quickview", quickview_memory |-> "quickview",
               quickview_sensors |-> "quickview", quickview_cpu |-> "quickview",
               quickview_disk |-> "quickview"]
HealthViews == [health_refresh |-> "health"]

SystemMaps == {CpuViews, NetworkViews, DiskViews, SensorViews, UptimeViews, MemoryViews,
               ProcessViews, QuickViews, HealthViews}
SystemView == [head \in UNION {DOMAIN map : map \in SystemMaps} |->
                 (CHOOSE map \in SystemMaps : head \in DOMAIN map)[head]]

Sections == {"cpu", "network", "filesystem", "sensors", "uptime", "memory", "process",
             "quickview", "health"}

CpuHeads == {"cpu_per_core", "cpu_times", "process_info"}
NetworkHeads == {"network_interfaces", "network_connections"}
FanHeads == IF fans THEN {"fan_speeds"} ELSE {}
ProcessHeads == {"process_info_process"}
DetailHeads(view) ==
    CASE view = "cpu details" -> CpuHeads \cup {"cpu_info"}
      [] view = "network details" -> NetworkHeads \cup {"network_overview"}
      [] view = "disk details" -> {"filesystem_overview", "disk_io"}
      [] view = "fans" -> FanHeads \cup {"sensors_overview"}
      [] view = "process details" -> ProcessHeads \cup {"process_overview"}

SystemHeads(view) ==
    CASE view = "cpu" -> CpuHeads
      [] view = "network" -> NetworkHeads
      [] view = "filesystem" -> {"disk_io"}
      [] view = "sensors" -> FanHeads
      [] view = "process" -> ProcessHeads
      [] view = "uptime" -> DOMAIN UptimeViews
      [] view = "memory" -> DOMAIN MemoryViews
      [] view = "quickview" -> DOMAIN QuickViews
      [] view = "health" -> DOMAIN HealthViews
      [] OTHER -> DetailHeads(view)

----------------------------------------------------------------------------
(* Buttons and what of them fits into the message.                           *)
Extras == {"volumes", "networks", "runtime"}
Actions == {"stop", "restart", "start"}

Button(head, owner) == [head |-> head, by |-> "nothing", owner |-> owner]
About(head, by, owner) == [Button(head, owner) EXCEPT !.by = by]

\* The characters in front of the container, with their colons; every system
\* head and the pages of a list are short.
Before(head) ==
    CASE head = "volumes" -> 28 [] head = "networks" -> 29 [] head = "runtime" -> 28
      [] head = "get_logs" -> 18 [] head = "get_full" -> 13 [] head = "manage" -> 11
      [] head = "restart" -> 12 [] head = "stop" -> 9 [] head = "start" -> 10
      [] OTHER -> 24

\* Fault: the buttons of the list carry the whole identifier.
RefLengthWhole(by) == CASE by = "id" -> 64 [] by = "name" -> container.length [] OTHER -> 0
RefLength(by) == CASE by = "id" -> 12 [] by = "name" -> container.length [] OTHER -> 0

\* build_inline_keyboard cuts the data: the owner is at its end.
Sent(button) ==
    LET length == Before(button.head) + RefLength(button.by) + 1 + IdDigits
    IN  IF button.owner = NoOwner \/ length <= MaxData THEN button
        ELSE [button EXCEPT !.owner = IF length - MaxData < IdDigits THEN Foreign ELSE Broken]

ListButtons(owner) ==
    {Button("containers_page", owner)}
      \cup (IF card.state = "none" THEN {} ELSE {About("get_full", "id", owner)})

\* Only an admin is shown what needs a login.
FullButtons(owner) ==
    {Button("containers_page", owner)}
      \cup {About(head, "name", owner) :
               head \in IF owner \in Admins THEN Extras \cup {"get_logs", "manage"} ELSE {}}

BackToFull(owner) == {About("get_full", "name", owner)}

ManageButtons(owner) ==
    BackToFull(owner) \cup {About(head, "name", owner) :
        head \in CASE card.state = "running" -> {"stop", "restart"}
                   [] card.state = "exited" -> {"start"}
                   [] OTHER -> {}}

Keyboard ==
    {Sent(b) : b \in
      CASE card.view = "gone" -> {}
        [] card.view = "list" -> ListButtons(card.owner)
        [] card.view = "full" -> FullButtons(card.owner)
        [] card.view = "extra" -> BackToFull(card.owner)
        [] card.view = "logs" -> BackToFull(card.owner) \cup {Button("back_to_containers", NoOwner)}
        [] card.view = "manage" -> ManageButtons(card.owner)
        [] card.view = "restarted" -> {About("manage", "name", card.owner)}
        [] OTHER -> {Button(head, card.owner) : head \in SystemHeads(card.view)}}

----------------------------------------------------------------------------
(* Who may press what.                                                       *)
Protected == Extras \cup Actions \cup {"get_logs", "manage"}

\* authorize_callback_request: the users here are all allowed.
Authorised(user, button) ==
    /\ button.owner # Broken
    /\ button.owner = NoOwner \/ button.owner = user
    /\ button.head \in Protected => user \in Admins /\ user \in loggedIn

\* Containers are looked up under the name in lower case.
Found(by) == container.state # "none" /\ (by = "name" => ~container.upper)

\* Fault: the new keyboard forgets whose screen it is.
NewOwnerForgotten(user, button) == NoOwner
NewOwner(user, button) == IF button.head = "back_to_containers" THEN user ELSE button.owner

\* The view after an accepted press, if the handler does not only answer.
FullView(button) == IF Found(button.by) THEN {"full"} ELSE {}
ExtraView(button) == IF Found(button.by) THEN {"extra"} ELSE {}
LogsView(button) == IF Found(button.by) THEN {"logs"} ELSE {}
ActionView(button) == IF Found(button.by) /\ button.head = "restart" THEN {"restarted"} ELSE {}

ViewAfter(button) ==
    CASE button.head \in {"containers_page", "back_to_containers"} -> {"list"}
      [] button.head = "manage" -> {"manage"}
      [] button.head = "get_full" -> FullView(button)
      [] button.head \in Extras -> ExtraView(button)
      [] button.head = "get_logs" -> LogsView(button)
      [] button.head \in Actions -> ActionView(button)
      [] OTHER -> {SystemView[button.head]}

\* What the manage screen and the list show of the container.
StateShown(button) ==
    IF button.head = "manage" /\ ~Found(button.by) THEN "none" ELSE container.state

Act(head) ==
    container' = [container EXCEPT !.state =
        CASE head = "stop" -> "exited" [] head \in {"start", "restart"} -> "running"
          [] OTHER -> @]

----------------------------------------------------------------------------
NoOne == "no one"

ScreensInit ==
    /\ card \in {[view |-> v, owner |-> NoOwner, state |-> "none"] : v \in Sections \cup {"gone"}}
    /\ loggedIn = {} /\ fans \in BOOLEAN
    /\ container \in {[length |-> n.length, upper |-> n.upper, state |-> s] :
                        n \in Names, s \in {"running", "exited"}}
    /\ last = [user |-> NoOne, head |-> NoOne]

Did(user, head) == last' = [user |-> user, head |-> head]

\* A command or a button of the reply keyboard opens a section or the list.
OpenScreen(user, view) ==
    /\ card' = [view |-> view, owner |-> user, state |-> container.state]
    /\ Did(user, "open") /\ UNCHANGED <<loggedIn, fans, container>>

\* The decorator comes first: it removes the message and asks for a login, or
\* refuses one who is no admin, whoever the button belongs to.
AskLogin(user, button) ==
    /\ button.head \in Protected /\ user \notin loggedIn
    /\ card' = [card EXCEPT !.view = "gone"]
    /\ Did(user, button.head) /\ UNCHANGED <<loggedIn, fans, container>>

Refuse(user, button) ==
    /\ button.head \in Protected => user \in loggedIn
    /\ ~Authorised(user, button)
    /\ Did(user, button.head) /\ UNCHANGED <<card, loggedIn, fans, container>>

\* The edit can be refused by Telegram, and reading can fail: the message stays.
Answer(user, button) ==
    /\ button.head \in Protected => user \in loggedIn
    /\ Authorised(user, button)
    /\ IF Found(button.by) THEN Act(button.head) ELSE UNCHANGED container
    /\ \/ \E view \in ViewAfter(button) :
            card' = [view |-> view, owner |-> NewOwner(user, button), state |-> StateShown(button)]
       \/ UNCHANGED card
    /\ Did(user, button.head) /\ UNCHANGED <<loggedIn, fans>>

LogInOrOut(user) ==
    /\ loggedIn' \in {loggedIn \cup {user}, loggedIn \ {user}}
    /\ Did(user, "login") /\ UNCHANGED <<card, fans, container>>

\* Docker or another client of it.
ContainerChanges ==
    /\ \E state \in {"running", "exited", "none"} : container' = [container EXCEPT !.state = state]
    /\ Did(NoOne, "docker") /\ UNCHANGED <<card, loggedIn, fans>>

ScreensNext ==
    \/ \E user \in Users :
        \/ \E view \in Sections \cup {"list"} : OpenScreen(user, view)
        \/ \E button \in Keyboard :
             AskLogin(user, button) \/ Refuse(user, button) \/ Answer(user, button)
    \/ \E admin \in Admins : LogInOrOut(admin)
    \/ ContainerChanges

----------------------------------------------------------------------------
(* Every button on a screen, as it was sent, is accepted from the screen's   *)
(* owner, once logged in, and finds the container it is about.  This holds   *)
(* for names of at most 24 characters in lower case: of a longer one the     *)
(* buttons lose the end of the owner's id, and one with capitals is looked   *)
(* up under another name, although names of 253 characters and capitals are  *)
(* accepted by the handlers.                                                 *)
OwnersButtonsWork ==
    container.length <= 24 /\ ~container.upper /\ card.owner # NoOwner
      => \A b \in Keyboard :
           /\ b.owner \in {card.owner, NoOwner}
           /\ b.head \in Protected => card.owner \in Admins
           /\ b.by # "nothing" /\ container.state # "none" => Found(b.by)

(* A screen changes only at a press of its owner and stays his, whatever     *)
(* others press in the group, with two exceptions of the code: a protected   *)
(* button pressed without a login removes the message, and the way back from *)
(* the logs to the list belongs to whoever presses it.                       *)
ScreensStayOwned ==
    [][card.owner \in Users /\ card' # card /\ card'.view # "gone"
         /\ last'.head \notin {"open", "back_to_containers"}
         => last'.user = card.owner /\ card'.owner = card.owner]_screenVars
=============================================================================
