-------------------------------- MODULE Menus --------------------------------
(***************************************************************************)
(* The reply keyboards (settings.py, keyboards/keyboards.py) and who       *)
(* handles their buttons (handlers/handler_manager.py, the plugins'        *)
(* register): a press sends the text of the button, and the first handler  *)
(* registered whose expression is found in it takes it, the core ones      *)
(* before those of the plugins.  A text is the sequence of its words; case *)
(* and the emoji in front make no difference to any expression.            *)
(***************************************************************************)
EXTENDS Naturals, Sequences, FiniteSets, SequencesExt

CONSTANTS
    PluginOrders,  \* the plugins the bot may be started with, in their order
    NoHandler

VARIABLES
    loaded,    \* plugins, in the order they registered their handlers
    admin,     \* whether the user is an admin
    keyboard,  \* the reply keyboard the user has
    taken      \* history: the last press and the handler that took it

menuVars == <<loaded, admin, keyboard, taken>>

Search(handler, words) == [handler |-> handler, words |-> words, whole |-> FALSE, admin |-> FALSE]
Whole(handler, words) == [Search(handler, words) EXCEPT !.whole = TRUE]

BackToMain == <<"back", "to", "main", "menu">>

LoadAverage == <<"load", "average">>

\* _get_message_handler_configs, those with an expression.
CoreHandlers == <<
    Search("twofa", <<"enter", "2fa", "code">>), Search("quick view", <<"quick", "view">>),
    Search("about", <<"about", "me">>), Search("navigation", BackToMain),
    Search("containers", <<"containers">>), Search("docker", <<"docker">>),
    Search("filesystem", <<"file", "system">>), Search("cpu", <<"cpu">>),
    Search("health", <<"health">>), Search("images", <<"images">>),
    Search("load average", LoadAverage), Search("memory", <<"memory", "load">>),
    Search("network", <<"network">>), Search("process", <<"process">>),
    Search("sensors", <<"sensors">>), Search("uptime", <<"uptime">>),
    Search("plugins", <<"plugins">>), Search("server", <<"server">>),
    [Search("qrcode", <<"get", "qr-code", "for", "2fa", "app">>) EXCEPT !.admin = TRUE] >>

Periods == {<<"last", "15", "minutes">>, <<"last", "1", "hour">>, <<"last", "6", "hours">>,
            <<"last", "24", "hours">>, <<"last", "7", "days">>}

MonitorHandlers == <<
    Whole("monitoring", <<"monitoring">>), Whole("overview", <<"overview">>),
    Whole("cpu usage", <<"cpu", "usage">>), Whole("memory usage", <<"memory", "usage">>),
    Whole("disk usage", <<"disk", "usage">>), Whole("temperatures", <<"temperatures">>),
    Whole("select period", <<"select", "period">>),
    Whole("back to monitoring", <<"back", "to", "monitoring">>) >>
  \o SetToSeq({Whole("period choice", p) : p \in Periods})

OutlineHandlers == <<
    Search("outline", <<"outline", "vpn">>), Search("outline info", <<"outline", "info">>),
    Search("keys", <<"keys">>), Search("traffic", <<"traffic">>) >>

HandlersOf(plugin) == IF plugin = "monitor" THEN MonitorHandlers ELSE OutlineHandlers
IndexKey(plugin) == IF plugin = "monitor" THEN <<"monitoring">> ELSE <<"outline", "vpn">>

Handlers == CoreHandlers \o FlattenSeq([i \in DOMAIN loaded |-> HandlersOf(loaded[i])])

Matches(entry, text) ==
    /\ entry.admin => admin
    /\ IF entry.whole THEN text = entry.words
       ELSE \E i \in DOMAIN text : IsPrefix(entry.words, SubSeq(text, i, Len(text)))

TakenBy(text) ==
    LET found == SelectSeq(Handlers, LAMBDA entry : Matches(entry, text))
    IN  IF found = << >> THEN NoHandler ELSE Head(found).handler

\* The buttons of each keyboard, and the handler each is made for.
WithBack(buttons) == buttons \cup {<<BackToMain, "navigation">>}

Buttons(name) ==
    CASE name = "main" -> {<<<<"server">>, "server">>, <<<<"docker">>, "docker">>,
            <<<<"plugins">>, "plugins">>, <<<<"quick", "view">>, "quick view">>,
            <<<<"health">>, "health">>, <<<<"about", "me">>, "about">>}
      [] name = "server" -> WithBack({<<<<"load", "average">>, "load average">>,
            <<<<"cpu">>, "cpu">>, <<<<"memory", "load">>, "memory">>,
            <<<<"sensors">>, "sensors">>, <<<<"process">>, "process">>,
            <<<<"uptime">>, "uptime">>, <<<<"file", "system">>, "filesystem">>,
            <<<<"network">>, "network">>})
      [] name = "docker" -> WithBack({<<<<"images">>, "images">>, <<<<"containers">>, "containers">>})
      [] name = "auth" -> WithBack({<<<<"get", "qr-code", "for", "2fa", "app">>, "qrcode">>,
            <<<<"enter", "2fa", "code">>, "twofa">>})
      [] name = "auth processing" -> WithBack({<<<<"enter", "2fa", "code">>, "twofa">>})
      [] name = "back" -> {<<BackToMain, "navigation">>}
      [] name = "plugins" -> {<<IndexKey(p), Head(HandlersOf(p)).handler>> : p \in ToSet(loaded)}
      [] name = "monitor" -> WithBack({<<<<"overview">>, "overview">>,
            <<<<"cpu", "usage">>, "cpu usage">>, <<<<"memory", "usage">>, "memory usage">>,
            <<<<"disk", "usage">>, "disk usage">>, <<<<"temperatures">>, "temperatures">>,
            <<<<"select", "period">>, "select period">>})
      [] name = "period" -> {<<p, "period choice">> : p \in Periods}
                              \cup {<<<<"back", "to", "monitoring">>, "back to monitoring">>}
      [] name = "outline" -> WithBack({<<<<"outline", "info">>, "outline info">>,
            <<<<"keys">>, "keys">>, <<<<"traffic">>, "traffic">>})

\* The keyboard that the answer of a handler brings: without a login, "images"
\* and the like ask for one; a plugins menu without plugins keeps the old one.
KeyboardsAfter(handler) ==
    CASE handler = "navigation" -> {"main"}
      [] handler \in {"server", "docker"} -> {handler}
      [] handler = "plugins" -> {IF loaded = << >> THEN keyboard ELSE "plugins"}
      [] handler \in {"monitoring", "overview", "cpu usage", "memory usage", "disk usage",
                      "temperatures", "period choice", "back to monitoring"} -> {"monitor"}
      [] handler = "select period" -> {"period"}
      [] handler = "outline" -> {"outline"}
      [] handler = "twofa" -> {keyboard, "back"}
      [] handler = "qrcode" -> {keyboard, "auth processing"}
      [] OTHER -> {keyboard}

MenusInit ==
    /\ loaded \in PluginOrders /\ admin \in BOOLEAN
    /\ keyboard = "main" /\ taken = << >>

PressMenu(button) ==
    /\ taken' = <<button[1], button[2], TakenBy(button[1])>>
    /\ keyboard' \in KeyboardsAfter(TakenBy(button[1]))
    /\ UNCHANGED <<loaded, admin>>

\* A protected action asks for a login, or refuses for good.
AskLogin ==
    /\ keyboard' = IF admin THEN "auth" ELSE "back"
    /\ UNCHANGED <<loaded, admin, taken>>

MenusNext == (\E button \in Buttons(keyboard) : PressMenu(button)) \/ AskLogin

----------------------------------------------------------------------------
(* Every button of every keyboard, also those of the plugins, brings the     *)
(* handler it is made for: no other expression is found in its text first.   *)
EveryButtonWorks == taken # << >> => taken[2] = taken[3]

(* The same for the keyboards of the bot itself, whatever plugins are loaded *)
(* and in which order.                                                       *)
CoreButtonsWork ==
    \A name \in {"main", "server", "docker", "auth", "auth processing", "back", "plugins"} :
      \A button \in Buttons(name) :
        \/ TakenBy(button[1]) = button[2]
        \/ button[2] = "qrcode" /\ ~admin
=============================================================================
