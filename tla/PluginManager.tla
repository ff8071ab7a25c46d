---------------------------- MODULE PluginManager ----------------------------
(***************************************************************************)
(* The plugin manager (plugins/plugin_manager.py): the plugins named at    *)
(* the start are registered one after another, a name may come twice, and  *)
(* each may fail at any point; what was loaded is cleaned up at exit.  The *)
(* manager holds plugins weakly: the bot's handlers keep them alive.       *)
(***************************************************************************)
EXTENDS Naturals, Sequences

CONSTANTS
    Plugins,     \* names of plugins that may be asked for
    MaxAsked     \* bound of the names on the command line

PluginConstants == MaxAsked \in Nat

VARIABLES
    asked,      \* names still to register
    instances,  \* plugin objects: name, whether started, cleaned up, held by handlers
    entry,      \* _plugin_instances: name -> index of an object, 0 is none
    loaded,     \* _loaded_plugins
    listed,     \* _plugin_names, and the index keys and descriptions
    exited

pluginVars == <<asked, instances, entry, loaded, listed, exited>>

PluginsInit ==
    /\ asked \in UNION {[1 .. n -> Plugins] : n \in 0 .. MaxAsked}
    /\ instances = << >> /\ entry = [p \in Plugins |-> 0]
    /\ loaded = {} /\ listed = {} /\ exited = FALSE

Alive(i) == instances[i].held
Running(i) == instances[i].started /\ ~instances[i].cleaned

\* _cleanup_plugin on the objects: cleanup of the one that is entered.
CleanedUp(objects, i) ==
    IF i # 0 /\ objects[i].held THEN [objects EXCEPT ![i].cleaned = TRUE] ELSE objects

\* A name that is not valid, a module, an info or a class that is not there.
RegisterRefused(p) == UNCHANGED <<instances, entry, loaded, listed>>

\* The import, the permissions or the constructor raises: the plugin that had
\* the name is cleaned up.
RegisterUnprepared(p) ==
    /\ instances' = CleanedUp(instances, entry[p])
    /\ entry' = [entry EXCEPT ![p] = 0] /\ loaded' = loaded \ {p}
    /\ UNCHANGED listed

New(p, started, cleaned, held) ==
    Append(CleanedUp(instances, entry[p]),
           [name |-> p, started |-> started, cleaned |-> cleaned, held |-> held])

\* Without the base permission a plugin is listed but not started.
RegisterUnpermitted(p) ==
    /\ instances' = New(p, FALSE, FALSE, FALSE)
    /\ entry' = [entry EXCEPT ![p] = Len(instances')] /\ loaded' = loaded \ {p}
    /\ listed' = listed \cup {p}

\* Fault: a plugin whose registration failed is only forgotten.
RegisterFailsForgets(p) ==
    /\ \E started, held \in BOOLEAN : instances' = New(p, started, FALSE, held)
    /\ entry' = [entry EXCEPT ![p] = 0] /\ loaded' = loaded \ {p}
    /\ listed' = listed \cup {p}

\* register raises, after it started something or registered handlers or not.
RegisterFails(p) ==
    /\ \E started, held \in BOOLEAN : instances' = New(p, started, TRUE, held)
    /\ entry' = [entry EXCEPT ![p] = 0] /\ loaded' = loaded \ {p}
    /\ listed' = listed \cup {p}

RegisterLoads(p) ==
    /\ instances' = New(p, TRUE, FALSE, TRUE)
    /\ entry' = [entry EXCEPT ![p] = Len(instances')] /\ loaded' = loaded \cup {p}
    /\ listed' = listed \cup {p}

RegisterPlugin ==
    /\ ~exited /\ asked # << >>
    /\ asked' = Tail(asked)
    /\ \/ RegisterRefused(Head(asked)) \/ RegisterUnprepared(Head(asked))
       \/ RegisterUnpermitted(Head(asked)) \/ RegisterFails(Head(asked))
       \/ RegisterLoads(Head(asked))
    /\ UNCHANGED exited

\* cleanup_all_plugins, at the exit of the interpreter.
CleanupAll ==
    /\ ~exited /\ exited' = TRUE
    /\ instances' = [i \in DOMAIN instances |->
          IF instances[i].name \in loaded /\ entry[instances[i].name] = i /\ Alive(i)
            THEN [instances[i] EXCEPT !.cleaned = TRUE] ELSE instances[i]]
    /\ entry' = [p \in Plugins |-> 0] /\ loaded' = {} /\ listed' = {}
    /\ UNCHANGED asked

PluginsNext == RegisterPlugin \/ CleanupAll

----------------------------------------------------------------------------
(* A plugin that started its threads is stopped: when another one takes its  *)
(* name, when its registration fails later on, and at the exit; only the     *)
(* last one of a name that is loaded ever runs.                              *)
PluginsAreStopped ==
    \A i \in DOMAIN instances : Running(i) =>
      ~exited /\ instances[i].name \in loaded /\ entry[instances[i].name] = i
=============================================================================
