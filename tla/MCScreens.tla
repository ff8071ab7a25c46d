----------------------------- MODULE MCScreens ------------------------------
(* What the user sees: the logs viewer, the image list, the readings of the *)
(* host, the views of containers, the screens with their owners, the menus, *)
(* the plugins behind them, and the algorithms that fill the pages, on      *)
(* samples.  They share no state: a behaviour runs one part, or looks at    *)
(* one sample.                                                              *)
EXTENDS Naturals, Sequences, FiniteSets, TLC

CONSTANTS
    Viewers, LogScreens, LogHandlers, LogsTtl, MaxSessions,              \* logs
    Lists, Loaders, ListTtl, ListTime,                                   \* images
    PluginNames, MaxAsked, PluginOrders, NoHandler,                      \* plugins and menus
    Readers, Adapters, ReadingTtl, TimeLimit, Workers, MaxTime,          \* readings of the host
    Users, Admins, NoOwner, Foreign, Broken, Names,                      \* screens
    Containers, Looks, DetailsTtl, StateTtl, CountersTtl, FetchTime, Old, Nothing,
    MaxUpdates, None

VARIABLES
    part,
    store, nextId, screen, press, viewing, disturbed, dropped, leaked,
    docker, quiet, cache, loader, buttons, mistaken,
    asked, instances, entry, loaded, listed, exited,
    now, kept, holder, reader, busy, closed,
    plugins, admin, keyboard, taken,
    card, loggedIn, fans, container, last,
    state, heldAge, countAge, details, states, counters, look, shown,
    sample

Logs == INSTANCE LogsViewer WITH
    Screens <- LogScreens, Handlers <- LogHandlers, loggedIn <- viewing
Images == INSTANCE ImageViews WITH CacheTtl <- ListTtl, FetchTime <- ListTime
Plugins == INSTANCE PluginManager WITH Plugins <- PluginNames
Readings == INSTANCE SystemReadings WITH Ttl <- ReadingTtl, Limit <- TimeLimit, cache <- kept
Menu == INSTANCE Menus WITH loaded <- plugins
Cards == INSTANCE Screens
Views == INSTANCE ContainerViews
Pages == INSTANCE Paging
Tags == INSTANCE ImageTags
Metrics == INSTANCE SystemMetrics

ASSUME ScreenConstants ==
    /\ Logs!LogsConstants /\ Images!ImageConstants /\ Plugins!PluginConstants
    /\ Readings!ReadingConstants /\ Cards!ScreensAssumption /\ Views!ContainerViewsAssumption
    /\ Tags!TagConstants

logsVars == <<store, nextId, screen, press, viewing, disturbed, dropped, leaked>>
imageVars == <<docker, quiet, cache, loader, buttons, mistaken>>
pluginVars == <<asked, instances, entry, loaded, listed, exited>>
readingVars == <<now, kept, holder, reader, busy, closed>>
menuVars == <<plugins, admin, keyboard, taken>>
cardVars == <<card, loggedIn, fans, container, last>>
viewVars == <<state, heldAge, countAge, details, states, counters, look, shown>>
vars == <<part, logsVars, imageVars, pluginVars, readingVars, menuVars, cardVars, viewVars,
          sample>>

----------------------------------------------------------------------------
\* Values of constants.
SomeLists == {<<"a">>, <<"b", "a">>}
SomeOrders == {<< >>, <<"monitor">>, <<"outline">>, <<"monitor", "outline">>, <<"outline", "monitor">>}
SomeNames == {[length |-> 24, upper |-> FALSE], [length |-> 25, upper |-> TRUE]}

\* Samples for the algorithms.
Tag(name, matches, version, pushed) ==
    [name |-> name, matches |-> matches, version |-> version, date |-> 1, pushed |-> pushed,
     digest |-> pushed]

SomeTags ==
    {Tag("1.0", {"semver"}, <<1, 0>>, 1), Tag("1.0", {"semver"}, <<1, 0>>, 2),
     Tag("1.2", {"semver"}, <<1, 2>>, 2), Tag("1.3", {"semver", "numeric"}, <<1, 3>>, Tags!NoDate),
     Tag("2.0", {"semver"}, <<2, 0>>, 3), Tag("1.4", {"semver"}, <<1, 4>>, Tags!Unreadable),
     Tag("latest", {"latest"}, <<0, 0>>, 3), Tag("dev", { }, <<0, 0>>, 1),
     Tag("edge", { }, <<0, 0>>, 2), Tag("f00", {"sha"}, <<0, 0>>, 0)}

OldTags == {Tag("1.0", {"semver"}, <<1, 0>>, 1), Tag("dev", { }, <<0, 0>>, 1)}

Process(status, cpu) == [readable |-> status # "gone", status |-> status, cpu |-> cpu,
                         memory |-> None]

SomeTables ==
    LET Rows == {<< >>} \cup UNION {[1 .. n -> {Process("running", 900), Process("running", 300),
                                               Process("idle", None), Process("zombie", 900),
                                               Process("gone", 900)}] : n \in {1, 3}}
        OtherRows == [connections |-> <<[type |-> "stream", status |-> "open"],
                                        [type |-> "dgram", status |-> None]>>,
                      sensors |-> <<[name |-> "core", entries |-> <<60, 70>>],
                                    [name |-> "odd", entries |-> <<900>>],
                                    [name |-> "empty", entries |-> << >>]>>,
                      fans |-> <<[name |-> 2, label |-> 1, rpm |-> 900],
                                 [name |-> 1, label |-> 1, rpm |-> None]>>,
                      devices |-> <<[name |-> 2, readable |-> TRUE], [name |-> 1, readable |-> FALSE]>>,
                      users |-> <<[readable |-> TRUE], [readable |-> FALSE], [readable |-> TRUE]>>]
    IN  {[rows \in {"processes"} |-> r] @@ OtherRows : r \in Rows}

Samples ==
    {[of |-> "list", items |-> i, size |-> s, limit |-> 5] :
       i \in UNION {[1 .. n -> {1, 3, 7}] : n \in 0 .. 4}, s \in {1, 2, 3}}
    \cup {[of |-> "logs", logs |-> l, size |-> s] :
            l \in UNION {[1 .. n -> {"x", "n", "&"}] : n \in 0 .. 5}, s \in {2, 3}}
    \cup {[of |-> "tags", local |-> l, remotes |-> r] : l \in SomeTags, r \in SUBSET SomeTags}
    \cup {[of |-> "tables", tables |-> t, count |-> n] : t \in SomeTables, n \in {1, 2}}

NoSample == [of |-> "none"]

----------------------------------------------------------------------------
Parts == {"logs", "images", "plugins", "readings", "menus", "cards", "views"}

OneOf(S) == CHOOSE x \in S : TRUE

Init ==
    /\ part \in Parts \cup {"samples"}
    /\ Logs!LogsInit /\ Images!ImagesInit /\ Plugins!PluginsInit /\ Readings!ReadingsInit
    /\ Menu!MenusInit /\ Cards!ScreensInit /\ Views!ContainersInit
    \* The parts that stand still do so in one state each.
    /\ part # "logs" => screen = OneOf([LogScreens -> [session : {0}, owner : Viewers]])
    /\ part # "images" => docker = OneOf(Lists)
    /\ part # "plugins" => asked = << >>
    /\ part # "menus" => plugins = OneOf(PluginOrders) /\ admin
    /\ part # "cards" => /\ card.view = "gone" /\ fans /\ container.state = "exited"
                        /\ container.length = OneOf(Names).length
                        /\ container.upper = OneOf(Names).upper
    /\ part # "views" => state = [c \in Containers |-> "none"]
    /\ sample \in IF part = "samples" THEN Samples ELSE {NoSample}

Step(name) == part = name /\ UNCHANGED <<part, sample>>

Next ==
    \/ /\ Step("logs") /\ Logs!LogsNext
       /\ UNCHANGED <<imageVars, pluginVars, readingVars, menuVars, cardVars, viewVars>>
    \/ /\ Step("images") /\ Images!ImagesNext
       /\ UNCHANGED <<logsVars, pluginVars, readingVars, menuVars, cardVars, viewVars>>
    \/ /\ Step("plugins") /\ Plugins!PluginsNext
       /\ UNCHANGED <<logsVars, imageVars, readingVars, menuVars, cardVars, viewVars>>
    \/ /\ Step("readings") /\ Readings!ReadingsNext
       /\ UNCHANGED <<logsVars, imageVars, pluginVars, menuVars, cardVars, viewVars>>
    \/ /\ Step("menus") /\ Menu!MenusNext
       /\ UNCHANGED <<logsVars, imageVars, pluginVars, readingVars, cardVars, viewVars>>
    \/ /\ Step("cards") /\ Cards!ScreensNext
       /\ UNCHANGED <<logsVars, imageVars, pluginVars, readingVars, menuVars, viewVars>>
    \/ /\ Step("views") /\ Views!ContainersNext
       /\ UNCHANGED <<logsVars, imageVars, pluginVars, readingVars, menuVars, cardVars>>

Spec == Init /\ [][Next]_vars

\* The menus alone.
MenuSpec == part = "menus" /\ Spec

----------------------------------------------------------------------------
(* Logs are shown or sent to nobody but the user they were fetched for.      *)
LogsStayPrivate == Logs!LogsStayPrivate

(* A button keeps doing what it was made for: those of the logs find their   *)
(* session, those of the image list their image, those of a screen its       *)
(* container for its owner.                                                  *)
ButtonsKeepTheirMeaning ==
    /\ part = "logs" => Logs!ButtonsWork
    /\ part = "images" => Images!PositionsHold
    /\ part = "cards" => Cards!OwnersButtonsWork

(* Every button of every keyboard, also those of the plugins, brings the     *)
(* handler it is made for.                                                   *)
EveryButtonWorks == Menu!EveryButtonWorks

(* What fills a page is right: walks and pages of logs lose nothing, a tag   *)
(* that is offered is an upgrade, and the tables of the host add up; and the *)
(* buttons of the bot's own keyboards bring the handlers they are made for.  *)
PagesAndMenusAreRight ==
    /\ part = "menus" => Menu!CoreButtonsWork
    /\ sample.of = "list" => Pages!WalkShowsAll(sample.items, sample.size, sample.limit)
    /\ sample.of = "logs" => /\ Pages!ChunksLoseNothing(sample.logs, sample.size)
                             /\ Pages!TailIsLongest(sample.logs, 6, 2)
    /\ sample.of = "tags" => /\ Tags!UpdatesAreUpgrades(sample.local, sample.remotes)
                             /\ Tags!RowsAreUpdates({sample.local} \cup OldTags,
                                                      sample.remotes)
    /\ sample.of = "tables" => Metrics!TablesAddUp(sample.tables, sample.count)

(* A plugin that started its threads is stopped, whatever becomes of it.     *)
PluginsAreStopped == part = "plugins" => Plugins!PluginsAreStopped

(* What a screen says, of the host or of containers, was true not longer ago *)
(* than the caches keep it.                                                  *)
ShownWasTrue ==
    /\ part = "readings" => Readings!ReadingsAreRecent
    /\ part = "views" => Views!SaysWhatWas

(* A screen in a group stays its owner's.                                    *)
ScreensStayOwned == Cards!ScreensStayOwned
=============================================================================
