-------------------------- MODULE MCScreens_proofs --------------------------
(***************************************************************************)
(* What the user sees, for every number of users, threads, messages,       *)
(* plugins, containers and lists: logs stay private, buttons keep their    *)
(* meaning, plugins are stopped, what is shown was true lately, a screen   *)
(* stays its owner's, pages cut a list into pieces, and tags are offered   *)
(* as updates in one direction only.                                       *)
(***************************************************************************)
EXTENDS MCScreens, FiniteSetTheorems, SequenceTheorems, WellFoundedInduction, TLAPS

----------------------------------------------------------------------------
(* Every step is a step of each part, or leaves its state as it is.         *)
LEMMA PartsInit ==
  Init => /\ Logs!LogsInit /\ Images!ImagesInit /\ Plugins!PluginsInit
          /\ Readings!ReadingsInit /\ Cards!ScreensInit /\ Views!ContainersInit
BY DEF Init

LEMMA PartsNext ==
  [Next]_vars =>
    /\ [Logs!LogsNext]_logsVars /\ [Images!ImagesNext]_imageVars
    /\ [Plugins!PluginsNext]_pluginVars /\ [Readings!ReadingsNext]_readingVars
    /\ [Cards!ScreensNext]_cardVars /\ [Views!ContainersNext]_viewVars
BY DEF Next, vars, Step, logsVars, imageVars, pluginVars, readingVars, cardVars, viewVars

----------------------------------------------------------------------------
(* The viewer of logs.                                                      *)

\* A thread past the look-up has the logs of its own user; one that is about
\* to fetch does so for the owner of the buttons, who is its user.
PressOK(p) ==
    /\ DOMAIN p = {"at", "user", "screen", "action", "session", "logsOf"}
    /\ p.at # "idle" => /\ p.screen \in LogScreens
                        /\ p.action \in {"open", "nav", "refresh", "file"}
    /\ p.at = "looking up" => p.action # "open"
    /\ p.at \in {"looking up", "fetching"} => p.user = screen[p.screen].owner
    /\ p.at \in {"removing", "creating", "editing", "sending"} => p.user = p.logsOf

LogsInv ==
    /\ ~leaked
    /\ DOMAIN press = LogHandlers /\ DOMAIN screen = LogScreens
    /\ \A m \in LogScreens : DOMAIN screen[m] = {"session", "owner"}
    /\ \A h \in LogHandlers : PressOK(press[h])

LEMMA IdleOK == PressOK(Logs!NoPress)
BY DEF PressOK, Logs!NoPress

LEMMA LogsInvInit == Logs!LogsInit => LogsInv
BY IdleOK DEF Logs!LogsInit, LogsInv

\* A thread goes on with its press, or is done.
LEMMA PressStep ==
  ASSUME LogsInv, NEW h \in LogHandlers, NEW p, PressOK(p), press' = [press EXCEPT ![h] = p],
         ~leaked', DOMAIN screen' = LogScreens,
         \A m \in LogScreens : /\ DOMAIN screen'[m] = {"session", "owner"}
                               /\ screen'[m].owner = screen[m].owner
  PROVE  LogsInv'
<1>1. DOMAIN press' = LogHandlers
  BY DEF LogsInv
<1>2. ASSUME NEW g \in LogHandlers PROVE PressOK(press[g])'
  <2>1. PressOK(press'[g])
    BY DEF LogsInv
  <2> QED
    BY <2>1 DEF PressOK
<1> QED
  BY <1>1, <1>2 DEF LogsInv

LEMMA LogsInvNext == LogsInv /\ [Logs!LogsNext]_logsVars => LogsInv'
<1> SUFFICES ASSUME LogsInv, [Logs!LogsNext]_logsVars PROVE LogsInv'
  OBVIOUS
<1>1. CASE UNCHANGED <<screen, press, leaked>>
  BY <1>1 DEF LogsInv, PressOK
<1> DEFINE Same == /\ ~leaked' /\ DOMAIN screen' = LogScreens
                   /\ \A m \in LogScreens : /\ DOMAIN screen'[m] = {"session", "owner"}
                                             /\ screen'[m].owner = screen[m].owner
<1>2. ASSUME NEW h \in LogHandlers, NEW u \in Viewers, NEW m \in LogScreens,
             NEW a \in {"open", "nav", "refresh", "file"}, Logs!Press(h, u, m, a)
      PROVE  LogsInv'
  <2> DEFINE p == [at |-> "checking", user |-> u, screen |-> m, action |-> a,
                   session |-> IF a = "open" THEN Logs!NoSession ELSE screen[m].session,
                   logsOf |-> 0]
  <2>1. press' = [press EXCEPT ![h] = p] /\ Same
    BY <1>2 DEF LogsInv, Logs!Press
  <2>2. PressOK(p)
    BY DEF PressOK
  <2> QED
    BY <2>1, <2>2, PressStep
<1>3. ASSUME NEW h \in LogHandlers, Logs!Authorise(h)
      PROVE  LogsInv'
  <2>1. Same /\ PressOK(press[h]) /\ press[h].at = "checking"
    BY <1>3 DEF LogsInv, Logs!Authorise
  <2>2. \/ press' = [press EXCEPT ![h] = Logs!NoPress]
        \/ /\ press' = [press EXCEPT ![h] = [press[h] EXCEPT !.at = "looking up"]]
           /\ press[h].action # "open"
           /\ press[h].user = screen[press[h].screen].owner
        \/ /\ press' = [press EXCEPT ![h] = [press[h] EXCEPT !.at = "fetching"]]
           /\ press[h].user = screen[press[h].screen].owner
    BY <1>3 DEF Logs!Authorise, Logs!Done, Logs!GoTo, Logs!Allowed
  <2>3. press[h].action # "open" /\ press[h].user = screen[press[h].screen].owner
          => PressOK([press[h] EXCEPT !.at = "looking up"])
    BY <2>1 DEF PressOK
  <2>4. press[h].user = screen[press[h].screen].owner
          => PressOK([press[h] EXCEPT !.at = "fetching"])
    BY <2>1 DEF PressOK
  <2> QED
    BY <2>1, <2>2, <2>3, <2>4, IdleOK, PressStep
<1>4. ASSUME NEW h \in LogHandlers, Logs!LookUp(h)
      PROVE  LogsInv'
  <2> DEFINE s == IF press[h].session \in DOMAIN store THEN store[press[h].session]
                  ELSE [user |-> 0, age |-> 0]
             at == CASE press[h].action = "nav" -> "editing"
                     [] press[h].action = "refresh" -> "fetching"
                     [] press[h].action = "file" -> "sending"
             p == [press[h] EXCEPT !.at = at, !.logsOf = s.user]
  <2>1. Same /\ PressOK(press[h]) /\ press[h].at = "looking up"
    BY <1>4 DEF LogsInv, Logs!LookUp
  <2>2. \/ press' = [press EXCEPT ![h] = Logs!NoPress]
        \/ press' = [press EXCEPT ![h] = p] /\ press[h].user = s.user
    BY <1>4 DEF Logs!LookUp, Logs!Done, Logs!Allowed
  <2>3. at \in {"editing", "fetching", "sending"}
    BY <2>1 DEF PressOK
  <2> HIDE DEF s, at
  <2>4. press[h].user = s.user => PressOK(p)
    BY <2>1, <2>3 DEF PressOK
  <2> QED
    BY <2>1, <2>2, <2>4, IdleOK, PressStep
<1>5. ASSUME NEW h \in LogHandlers, Logs!Fetch(h)
      PROVE  LogsInv'
  <2> DEFINE p == [press[h] EXCEPT !.at = IF press[h].action = "refresh" THEN "removing"
                                                                         ELSE "creating",
                                   !.logsOf = screen[press[h].screen].owner]
  <2>1. Same /\ PressOK(press[h]) /\ press[h].at = "fetching"
    BY <1>5 DEF LogsInv, Logs!Fetch
  <2>2. \/ press' = [press EXCEPT ![h] = Logs!NoPress]
        \/ press' = [press EXCEPT ![h] = p]
    BY <1>5 DEF Logs!Fetch, Logs!Done
  <2>3. PressOK(p)
    BY <2>1 DEF PressOK
  <2> QED
    BY <2>1, <2>2, <2>3, IdleOK, PressStep
<1>6. ASSUME NEW h \in LogHandlers, Logs!Remove(h)
      PROVE  LogsInv'
  <2> DEFINE p == [press[h] EXCEPT !.at = "creating"]
  <2>1. Same /\ PressOK(press[h]) /\ press[h].at = "removing"
    BY <1>6 DEF LogsInv, Logs!Remove
  <2>2. press' = [press EXCEPT ![h] = p]
    BY <1>6 DEF Logs!Remove, Logs!GoTo
  <2>3. PressOK(p)
    BY <2>1 DEF PressOK
  <2> QED
    BY <2>1, <2>2, <2>3, PressStep
<1>7. ASSUME NEW h \in LogHandlers, Logs!Create(h)
      PROVE  LogsInv'
  <2> DEFINE p == [press[h] EXCEPT !.at = "editing", !.session = nextId]
  <2>1. Same /\ PressOK(press[h]) /\ press[h].at = "creating"
    BY <1>7 DEF LogsInv, Logs!Create
  <2>2. press' = [press EXCEPT ![h] = p]
    BY <1>7 DEF Logs!Create
  <2>3. PressOK(p)
    BY <2>1 DEF PressOK
  <2> QED
    BY <2>1, <2>2, <2>3, PressStep
<1>8. ASSUME NEW h \in LogHandlers, Logs!Edit(h) \/ Logs!SendFile(h)
      PROVE  LogsInv'
  <2>1. press[h].at \in {"editing", "sending"} /\ press' = [press EXCEPT ![h] = Logs!NoPress]
    BY <1>8 DEF Logs!Edit, Logs!SendFile, Logs!Done
  <2>2. ~leaked'
    <3>1. leaked' = (leaked \/ press[h].user # press[h].logsOf)
      BY <1>8 DEF Logs!Edit, Logs!SendFile, Logs!Gives
    <3>2. press[h].user = press[h].logsOf
      BY <2>1 DEF LogsInv, PressOK
    <3> QED
      BY <3>1, <3>2, Zenon DEF LogsInv
  <2>3. \/ screen' = screen
        \/ screen' = [screen EXCEPT ![press[h].screen].session = press[h].session]
    BY <1>8 DEF Logs!Edit, Logs!SendFile
  <2>4. Same
    BY <2>2, <2>3 DEF LogsInv
  <2> QED
    BY <2>1, <2>4, IdleOK, PressStep
<1> QED
  BY <1>1, <1>2, <1>3, <1>4, <1>5, <1>6, <1>7, <1>8
     DEF Logs!LogsNext, Logs!HandlerStep, Logs!TtlTick, Logs!LoginChanges, logsVars

\* Logs are shown or sent to nobody but the user they were fetched for, for
\* every number of users, messages and threads.
THEOREM LogsArePrivate == Spec => []LogsStayPrivate
<1>1. LogsInv => LogsStayPrivate
  BY DEF LogsInv, LogsStayPrivate, Logs!LogsStayPrivate
<1> QED
  BY <1>1, PartsInit, PartsNext, LogsInvInit, LogsInvNext, PTL DEF Spec

----------------------------------------------------------------------------
(* The plugin manager.                                                      *)

Objects == [name : PluginNames, started : BOOLEAN, cleaned : BOOLEAN, held : BOOLEAN]

Runs(object) == object.started /\ ~object.cleaned

\* What runs is entered under its name, loaded and held by handlers: without
\* the last, which the property does not ask for, a cleanup would pass it by.
PluginsInv ==
    /\ instances \in Seq(Objects)
    /\ entry \in [PluginNames -> Nat] /\ asked \in Seq(PluginNames)
    /\ \A i \in DOMAIN instances : Runs(instances[i]) =>
         /\ ~exited /\ instances[i].held
         /\ instances[i].name \in loaded /\ entry[instances[i].name] = i

LEMMA PluginsInvInit == ScreenConstants /\ Plugins!PluginsInit => PluginsInv
<1> SUFFICES ASSUME ScreenConstants, Plugins!PluginsInit PROVE PluginsInv
  OBVIOUS
<1>1. asked \in Seq(PluginNames)
  BY DEF Plugins!PluginsInit, ScreenConstants, Plugins!PluginConstants
<1>2. instances \in Seq(Objects) /\ DOMAIN instances = {}
  BY DEF Plugins!PluginsInit
<1> QED
  BY <1>1, <1>2 DEF Plugins!PluginsInit, PluginsInv

\* A cleanup keeps the objects; of the name that is cleaned up none runs.
LEMMA CleanedUpStops ==
  ASSUME PluginsInv, NEW p \in PluginNames
  PROVE  LET objects == Plugins!CleanedUp(instances, entry[p])
         IN  /\ objects \in Seq(Objects) /\ Len(objects) = Len(instances)
             /\ \A i \in DOMAIN objects : Runs(objects[i]) =>
                  objects[i] = instances[i] /\ objects[i].name # p
<1> DEFINE k == entry[p]
           objects == Plugins!CleanedUp(instances, k)
<1>1. k \in Nat /\ instances \in Seq(Objects)
  BY DEF PluginsInv
<1>2. CASE k # 0 /\ k \in DOMAIN instances /\ instances[k].held
  <2>1. objects = [instances EXCEPT ![k] = [instances[k] EXCEPT !.cleaned = TRUE]]
    BY <1>1, <1>2 DEF Plugins!CleanedUp
  <2>2. [instances[k] EXCEPT !.cleaned = TRUE] \in Objects
    <3>1. instances[k] \in Objects
      BY <1>1, <1>2
    <3> QED
      BY <3>1 DEF Objects
  <2>3. objects \in Seq(Objects) /\ Len(objects) = Len(instances)
    BY <1>1, <1>2, <2>1, <2>2
  <2>4. ASSUME NEW i \in DOMAIN objects, Runs(objects[i])
        PROVE  objects[i] = instances[i] /\ objects[i].name # p
    <3>1. i \in DOMAIN instances /\ instances[i] \in Objects
      BY <1>1, <2>3, <2>4
    <3>2. i # k
      BY <1>1, <1>2, <2>1, <2>4 DEF Runs, Objects
    <3>3. objects[i] = instances[i]
      BY <2>1, <3>1, <3>2
    <3>4. Runs(instances[i]) /\ entry[instances[i].name] = i
      BY <3>1, <3>3, <2>4 DEF PluginsInv
    <3> QED
      BY <3>2, <3>3, <3>4
  <2> QED
    BY <2>3, <2>4
<1>3. CASE ~(k # 0 /\ k \in DOMAIN instances /\ instances[k].held)
  <2>1. ASSUME NEW i \in DOMAIN instances, Runs(instances[i]) PROVE instances[i].name # p
    <3>1. instances[i].held /\ entry[instances[i].name] = i /\ i # 0
      BY <1>1, <2>1 DEF PluginsInv
    <3> QED
      BY <1>3, <3>1
  <2>2. objects = instances
    BY <1>1, <1>3 DEF Plugins!CleanedUp
  <2> QED
    BY <1>1, <2>1, <2>2
<1> QED
  BY <1>2, <1>3

\* The steps that clean up the name and enter another object, if any.
LEMMA Replaced ==
  ASSUME PluginsInv, NEW p \in PluginNames, ~exited', asked' \in Seq(PluginNames),
         instances' = Plugins!CleanedUp(instances, entry[p]) \/
           \E x \in Objects : /\ x.name = p
                              /\ instances' = Append(Plugins!CleanedUp(instances, entry[p]), x)
                              /\ Runs(x) => /\ x.held /\ p \in loaded'
                                            /\ entry'[p] = Len(instances'),
         \E n \in Nat : entry' = [entry EXCEPT ![p] = n],
         loaded \ {p} \subseteq loaded'
  PROVE  PluginsInv'
<1> DEFINE objects == Plugins!CleanedUp(instances, entry[p])
<1>1. /\ objects \in Seq(Objects) /\ Len(objects) = Len(instances)
      /\ \A i \in DOMAIN objects : Runs(objects[i]) =>
           objects[i] = instances[i] /\ objects[i].name # p
  BY CleanedUpStops
<1> HIDE DEF objects
<1>2. instances \in Seq(Objects) /\ entry \in [PluginNames -> Nat]
  BY DEF PluginsInv
<1>3. entry' \in [PluginNames -> Nat] /\ \A q \in PluginNames \ {p} : entry'[q] = entry[q]
  BY <1>2
<1>4. ASSUME NEW i \in DOMAIN objects, Runs(objects[i])
      PROVE  /\ objects[i].held /\ objects[i].name \in loaded' /\ entry'[objects[i].name] = i
  <2>1. i \in DOMAIN instances /\ objects[i] = instances[i] /\ objects[i].name # p
    BY <1>1, <1>2, <1>4
  <2>2. instances[i].name \in PluginNames
    <3>1. instances[i] \in Objects
      BY <1>2, <2>1
    <3> QED
      BY <3>1 DEF Objects
  <2>3. /\ instances[i].held /\ instances[i].name \in loaded
        /\ entry[instances[i].name] = i
    BY <1>4, <2>1 DEF PluginsInv
  <2> QED
    BY <1>3, <2>1, <2>2, <2>3
<1>5. CASE instances' = objects
  BY <1>1, <1>3, <1>4, <1>5 DEF PluginsInv
<1>6. ASSUME NEW x \in Objects, x.name = p, instances' = Append(objects, x),
             Runs(x) => x.held /\ p \in loaded' /\ entry'[p] = Len(instances')
      PROVE  PluginsInv'
  <2>1. instances' \in Seq(Objects) /\ Len(instances') = Len(objects) + 1
    BY <1>1, <1>6
  <2>2. \A i \in DOMAIN instances' : \/ i \in DOMAIN objects /\ instances'[i] = objects[i]
                                     \/ i = Len(instances') /\ instances'[i] = x
    BY <1>1, <1>6, <2>1
  <2> QED
    BY <1>3, <1>4, <1>6, <2>1, <2>2 DEF PluginsInv
<1> QED
  BY <1>5, <1>6 DEF objects

LEMMA PluginsInvNext == PluginsInv /\ [Plugins!PluginsNext]_pluginVars => PluginsInv'
<1> SUFFICES ASSUME PluginsInv, [Plugins!PluginsNext]_pluginVars PROVE PluginsInv'
  OBVIOUS
<1>1. CASE UNCHANGED pluginVars
  BY <1>1 DEF pluginVars, PluginsInv
<1>2. CASE Plugins!RegisterPlugin
  <2> DEFINE p == Head(asked)
  <2>1. p \in PluginNames /\ asked' \in Seq(PluginNames)
    BY <1>2 DEF PluginsInv, Plugins!RegisterPlugin
  <2>2. ~exited /\ exited' = exited
    BY <1>2 DEF Plugins!RegisterPlugin
  <2> HIDE DEF p
  <2>3. CASE Plugins!RegisterRefused(p)
    BY <2>1, <2>2, <2>3 DEF PluginsInv, Plugins!RegisterRefused
  <2>4. CASE Plugins!RegisterUnprepared(p)
    BY <2>1, <2>2, <2>4, Replaced DEF Plugins!RegisterUnprepared
  <2>5. ASSUME NEW started \in BOOLEAN, NEW cleaned \in BOOLEAN, NEW held \in BOOLEAN,
               instances' = Plugins!New(p, started, cleaned, held)
        PROVE  LET x == [name |-> p, started |-> started, cleaned |-> cleaned, held |-> held]
               IN  /\ x \in Objects /\ x.name = p
                   /\ instances' = Append(Plugins!CleanedUp(instances, entry[p]), x)
                   /\ Runs(x) <=> (started /\ ~cleaned)
                   /\ x.held = held
                   /\ Len(instances') \in Nat
    <3>1. Plugins!CleanedUp(instances, entry[p]) \in Seq(Objects)
      BY <2>1, CleanedUpStops
    <3> QED
      BY <2>1, <2>5, <3>1 DEF Plugins!New, Objects, Runs
  <2>6. CASE Plugins!RegisterUnpermitted(p)
    BY <2>1, <2>2, <2>5, <2>6, Replaced DEF Plugins!RegisterUnpermitted
  <2>7. CASE Plugins!RegisterFails(p)
    <3>1. PICK started \in BOOLEAN, held \in BOOLEAN : instances' = Plugins!New(p, started, TRUE, held)
      BY <2>7 DEF Plugins!RegisterFails
    <3> QED
      BY <2>1, <2>2, <2>5, <2>7, <3>1, Replaced DEF Plugins!RegisterFails
  <2>8. CASE Plugins!RegisterLoads(p)
    <3>1. entry'[p] = Len(instances')
      BY <2>1, <2>8 DEF Plugins!RegisterLoads, PluginsInv
    <3> QED
      BY <2>1, <2>2, <2>5, <2>8, <3>1, Replaced DEF Plugins!RegisterLoads
  <2> QED
    BY <1>2, <2>3, <2>4, <2>6, <2>7, <2>8 DEF Plugins!RegisterPlugin, p
<1>3. CASE Plugins!CleanupAll
  <2>1. instances \in Seq(Objects)
    BY DEF PluginsInv
  <2>2. ASSUME NEW i \in DOMAIN instances
        PROVE  instances'[i] \in Objects /\ ~Runs(instances'[i])
    <3>1. instances[i] \in Objects
      BY <2>1
    <3>2. CASE Runs(instances[i])
      <4>1. /\ instances[i].name \in loaded /\ entry[instances[i].name] = i
            /\ instances[i].held
        BY <3>2 DEF PluginsInv
      <4>2. instances'[i] = [instances[i] EXCEPT !.cleaned = TRUE]
        BY <1>3, <4>1 DEF Plugins!CleanupAll, Plugins!Alive
      <4> QED
        BY <3>1, <4>2 DEF Runs, Objects
    <3>3. CASE ~Runs(instances[i])
      <4>1. instances'[i] \in {instances[i], [instances[i] EXCEPT !.cleaned = TRUE]}
        BY <1>3 DEF Plugins!CleanupAll
      <4> QED
        BY <3>1, <3>3, <4>1 DEF Runs, Objects
    <3> QED
      BY <3>2, <3>3
  <2>3. DOMAIN instances' = DOMAIN instances
    BY <1>3 DEF Plugins!CleanupAll
  <2>4. instances' \in Seq(Objects)
    <3>1. instances' = [i \in 1 .. Len(instances) |-> instances'[i]]
      BY <1>3, <2>1 DEF Plugins!CleanupAll
    <3> QED
      BY <2>1, <2>2, <3>1
  <2>5. asked' \in Seq(PluginNames) /\ entry' \in [PluginNames -> Nat]
    BY <1>3 DEF Plugins!CleanupAll, PluginsInv
  <2> QED
    BY <2>2, <2>3, <2>4, <2>5 DEF PluginsInv
<1> QED
  BY <1>1, <1>2, <1>3 DEF Plugins!PluginsNext

\* A plugin that started its threads is stopped: when another takes its name,
\* when its registration fails, and at the exit; for every list of names that
\* may be asked for.
THEOREM PluginsStop == Spec => []PluginsAreStopped
<1>1. PluginsInv => PluginsAreStopped
  BY DEF PluginsInv, PluginsAreStopped, Plugins!PluginsAreStopped, Plugins!Running, Runs
<1> QED
  BY <1>1, PartsInit, PartsNext, PluginsInvInit, PluginsInvNext, ScreenConstants, PTL DEF Spec

----------------------------------------------------------------------------
(* The readings of the host.                                                *)

ReaderStates == [at : {"idle", "waiting", "queued", "reading", "done"},
                 adapter : Adapters \cup {0}, called : Nat, began : Nat,
                 got : [taken : Nat, real : BOOLEAN]]

ReadingsTyped ==
    /\ now \in Nat /\ reader \in [Readers -> ReaderStates]
    /\ kept \in [of : Adapters \cup {0}, stamp : Nat, reading : [taken : Nat, real : BOOLEAN]]

\* A reading is begun after the call for it, whose time is the stamp of the
\* entry: the stamp may be older than what it stands for, and never newer.
ReadingsInv ==
    /\ ReadingsTyped
    /\ kept.of # 0 => kept.stamp <= kept.reading.taken
    /\ \A r \in Readers :
         /\ reader[r].at # "idle" => reader[r].adapter # 0
         /\ reader[r].called <= now
         /\ reader[r].at \in {"queued", "reading"} => reader[r].called <= reader[r].began
         /\ reader[r].at = "done" => reader[r].called < reader[r].got.taken + ReadingTtl

LEMMA ReadingsInvInit == Readings!ReadingsInit => ReadingsInv
BY DEF Readings!ReadingsInit, ReadingsInv, ReadingsTyped, ReaderStates, Readings!NotReading,
       Readings!NoEntry, Readings!NoReading

\* One reader goes on.
LEMMA ReaderGoesOn ==
  ASSUME ReadingsInv, NEW r \in Readers, NEW p \in ReaderStates, now' = now,
         reader' = [reader EXCEPT ![r] = p],
         kept' \in [of : Adapters \cup {0}, stamp : Nat, reading : [taken : Nat, real : BOOLEAN]],
         kept'.of # 0 => kept'.stamp <= kept'.reading.taken,
         p.at # "idle" => p.adapter # 0, p.called <= now,
         p.at \in {"queued", "reading"} => p.called <= p.began,
         p.at = "done" => p.called < p.got.taken + ReadingTtl
  PROVE  ReadingsInv'
<1>1. ReadingsTyped'
  BY DEF ReadingsInv, ReadingsTyped
<1>2. \A q \in Readers : reader'[q] = reader[q] \/ reader'[q] = p
  BY DEF ReadingsInv, ReadingsTyped
<1> QED
  BY <1>1, <1>2 DEF ReadingsInv

LEMMA ReadingsInvNext ==
  ScreenConstants /\ ReadingsInv /\ [Readings!ReadingsNext]_readingVars => ReadingsInv'
<1> SUFFICES ASSUME ScreenConstants, ReadingsInv, [Readings!ReadingsNext]_readingVars
             PROVE  ReadingsInv'
  OBVIOUS
<1>0. ReadingTtl \in Nat \ {0} /\ 0 \notin Adapters
  BY DEF ScreenConstants, Readings!ReadingConstants
<1>1. CASE UNCHANGED <<now, reader, kept>>
  BY <1>1 DEF ReadingsInv, ReadingsTyped
<1>2. ASSUME NEW r \in Readers
      PROVE  /\ reader[r] \in ReaderStates /\ now \in Nat
             /\ kept \in [of : Adapters \cup {0}, stamp : Nat,
                          reading : [taken : Nat, real : BOOLEAN]]
             /\ kept.of # 0 => kept.stamp <= kept.reading.taken
             /\ reader[r].at # "idle" => reader[r].adapter # 0
             /\ reader[r].called <= now
             /\ reader[r].at \in {"queued", "reading"} => reader[r].called <= reader[r].began
  BY <1>2 DEF ReadingsInv, ReadingsTyped
<1>3. ASSUME NEW r \in Readers, NEW a \in Adapters, Readings!CallReading(r, a)
      PROVE  ReadingsInv'
  <2> DEFINE p == [Readings!NotReading EXCEPT !.at = "waiting", !.adapter = a, !.called = now]
  <2>1. p \in ReaderStates /\ p.at = "waiting" /\ p.adapter = a /\ p.called = now
    BY <1>2 DEF Readings!NotReading, ReaderStates, Readings!NoReading
  <2>2. reader' = [reader EXCEPT ![r] = p] /\ now' = now /\ kept' = kept
    BY <1>3 DEF Readings!CallReading
  <2> HIDE DEF p
  <2>3. a # 0 /\ now <= now
    BY <1>0, <1>2
  <2> QED
    BY <1>2, <2>1, <2>2, <2>3, ReaderGoesOn
<1>4. ASSUME NEW r \in Readers, Readings!Hit(r)
      PROVE  ReadingsInv'
  <2> DEFINE p == [reader[r] EXCEPT !.at = "done", !.got = kept.reading]
  <2>1. /\ p \in ReaderStates /\ p.at = "done" /\ p.adapter = reader[r].adapter
        /\ p.called = reader[r].called /\ p.got = kept.reading
    BY <1>2 DEF ReaderStates
  <2>2. reader' = [reader EXCEPT ![r] = p] /\ now' = now /\ kept' = kept
    BY <1>4 DEF Readings!Hit
  <2>3. /\ reader[r].at = "waiting" /\ kept.of = reader[r].adapter
        /\ reader[r].called < kept.stamp + ReadingTtl
    BY <1>4 DEF Readings!Hit, Readings!Fresh
  <2>4. reader[r].called < kept.reading.taken + ReadingTtl
    <3>1. /\ kept.stamp <= kept.reading.taken /\ kept.stamp \in Nat
          /\ kept.reading.taken \in Nat /\ reader[r].called \in Nat
      BY <1>2, <2>3 DEF ReaderStates
    <3> QED
      BY <1>0, <2>3, <3>1
  <2> HIDE DEF p
  <2> QED
    BY <1>2, <2>1, <2>2, <2>3, <2>4, ReaderGoesOn
<1>5. ASSUME NEW r \in Readers, Readings!Miss(r)
      PROVE  ReadingsInv'
  <2> DEFINE p == [reader[r] EXCEPT !.at = "queued", !.began = now]
  <2>1. /\ p \in ReaderStates /\ p.at = "queued" /\ p.adapter = reader[r].adapter
        /\ p.called = reader[r].called /\ p.began = now
    BY <1>2 DEF ReaderStates
  <2>2. reader' = [reader EXCEPT ![r] = p] /\ now' = now /\ kept' = Readings!NoEntry
        /\ reader[r].at = "waiting"
    BY <1>5 DEF Readings!Miss
  <2>3. Readings!NoEntry \in [of : Adapters \cup {0}, stamp : Nat,
                              reading : [taken : Nat, real : BOOLEAN]]
        /\ Readings!NoEntry.of = 0
    BY DEF Readings!NoEntry, Readings!NoReading
  <2> HIDE DEF p
  <2> QED
    BY <1>2, <2>1, <2>2, <2>3, ReaderGoesOn
<1>6. ASSUME NEW r \in Readers, Readings!Begin(r)
      PROVE  ReadingsInv'
  <2> DEFINE p == [reader[r] EXCEPT !.at = "reading"]
  <2>1. /\ p \in ReaderStates /\ p.at = "reading" /\ p.adapter = reader[r].adapter
        /\ p.called = reader[r].called /\ p.began = reader[r].began
    BY <1>2 DEF ReaderStates
  <2>2. reader' = [reader EXCEPT ![r] = p] /\ now' = now /\ kept' = kept
        /\ reader[r].at = "queued"
    BY <1>6 DEF Readings!Begin
  <2> HIDE DEF p
  <2> QED
    BY <1>2, <2>1, <2>2, ReaderGoesOn
<1>7. ASSUME NEW r \in Readers, NEW real \in BOOLEAN, reader[r].at \in {"queued", "reading"},
             Readings!Return(r, [taken |-> reader[r].began, real |-> real]), now' = now
      PROVE  ReadingsInv'
  <2> DEFINE got == [taken |-> reader[r].began, real |-> real]
             p == [reader[r] EXCEPT !.at = "done", !.got = got]
  <2>1. /\ p \in ReaderStates /\ p.at = "done" /\ p.adapter = reader[r].adapter
        /\ p.called = reader[r].called /\ p.got.taken = reader[r].began
    BY <1>2 DEF ReaderStates
  <2>2. reader' = [reader EXCEPT ![r] = p]
        /\ kept' = [of |-> reader[r].adapter, stamp |-> reader[r].called, reading |-> got]
    BY <1>7 DEF Readings!Return
  <2>3. kept' \in [of : Adapters \cup {0}, stamp : Nat, reading : [taken : Nat, real : BOOLEAN]]
        /\ kept'.stamp = reader[r].called /\ kept'.reading.taken = reader[r].began
    BY <1>2, <2>2 DEF ReaderStates
  <2>4. /\ reader[r].called <= reader[r].began /\ reader[r].adapter # 0
        /\ reader[r].called \in Nat /\ reader[r].began \in Nat
    BY <1>2, <1>7 DEF ReaderStates
  <2>5. reader[r].called < reader[r].began + ReadingTtl
    BY <1>0, <2>4
  <2> HIDE DEF p, got
  <2> QED
    BY <1>2, <1>7, <2>1, <2>2, <2>3, <2>4, <2>5, ReaderGoesOn
<1>8. ASSUME NEW r \in Readers, Readings!Read(r) \/ Readings!ReadFails(r) \/ Readings!TimeOut(r)
      PROVE  ReadingsInv'
  BY <1>7, <1>8 DEF Readings!Read, Readings!ReadFails, Readings!TimeOut
<1>9. CASE Readings!ReadingTick
  <2>1. now' = now + 1 /\ UNCHANGED <<kept, reader>>
    BY <1>9 DEF Readings!ReadingTick
  <2>2. ReadingsTyped'
    BY <2>1 DEF ReadingsInv, ReadingsTyped
  <2>3. \A r \in Readers : reader[r].called <= now'
    BY <1>2, <2>1 DEF ReaderStates
  <2> QED
    BY <2>1, <2>2, <2>3 DEF ReadingsInv
<1> QED
  BY <1>1, <1>3, <1>4, <1>5, <1>6, <1>8, <1>9
     DEF Readings!ReadingsNext, Readings!ReaderStep, Readings!OtherReading, Readings!ThreadFree,
         Readings!CloseAdapter, readingVars

----------------------------------------------------------------------------
(* The views of containers.                                                 *)

\* An entry that lives is no older than what it says is out of date, but for
\* the time from the look at Docker to the entry.
Says(e, ttl, values, ages) ==
    e # Nothing => /\ e \in [value : values, age : 0 .. ttl]
                   /\ e.age < ttl => ages[e.value] <= e.age + FetchTime

\* What a look saw was so when it looked.
Saw(k, held, count) ==
    k # Nothing =>
      /\ k \in [what : {"list", "counters"} \cup Containers, seen : [Containers -> Views!States],
                age : 0 .. FetchTime]
      /\ \A c \in Containers : held[c][k.seen[c]] <= k.age
      /\ count[Views!Running(k.seen)] <= k.age

Numbers == 0 .. Cardinality(Containers)

ViewsTyped ==
    /\ state \in [Containers -> Views!States]
    /\ heldAge \in [Containers -> [Views!States -> Nat]]
    /\ countAge \in [Numbers -> Nat]
    /\ DOMAIN details = Containers /\ DOMAIN states = Containers /\ DOMAIN look = Looks

ViewsInv ==
    /\ ViewsTyped
    /\ \A c \in Containers : heldAge[c][state[c]] = 0
    /\ countAge[Views!Running(state)] = 0
    /\ \A c \in Containers : /\ Says(details[c], DetailsTtl, Views!States, heldAge[c])
                             /\ Says(states[c], StateTtl, Views!States, heldAge[c])
    /\ Says(counters, CountersTtl, Numbers, countAge)
    /\ \A l \in Looks : Saw(look[l], heldAge, countAge)
    /\ Views!SaysWhatWas

LEMMA ViewsNumbers ==
  ASSUME ScreenConstants
  PROVE  /\ {DetailsTtl, StateTtl, CountersTtl} \subseteq Nat \ {0}
         /\ FetchTime \in Nat /\ Old \in Nat
         /\ \A seen : Views!Running(seen) \in Numbers
<1>1. IsFiniteSet(Containers)
  BY DEF ScreenConstants, Views!ContainerViewsAssumption, Views!IsFiniteSet, IsFiniteSet
<1>2. ASSUME NEW seen PROVE Views!Running(seen) \in Numbers
  <2> DEFINE S == {c \in Containers : seen[c] = "running"}
  <2>1. IsFiniteSet(S) /\ Cardinality(S) <= Cardinality(Containers)
    BY <1>1, FS_Subset
  <2>2. Cardinality(S) \in Nat /\ Cardinality(Containers) \in Nat
    BY <1>1, <2>1, FS_CardinalityType
  <2>3. Views!Running(seen) = Cardinality(S)
    <3>1. Cardinality(S) = Views!Cardinality(S)
      BY DEF Cardinality, Views!Cardinality
    <3> QED
      BY <3>1 DEF Views!Running
  <2> HIDE DEF S
  <2> QED
    BY <2>1, <2>2, <2>3 DEF Numbers
<1> QED
  BY <1>2 DEF ScreenConstants, Views!ContainerViewsAssumption

LEMMA NoAnswerIsTrue ==
  ASSUME shown' = Views!NoAnswer PROVE Views!SaysWhatWas'
BY DEF Views!SaysWhatWas, Views!NoAnswer

LEMMA ViewsInvInit == ScreenConstants /\ Views!ContainersInit => ViewsInv
<1> SUFFICES ASSUME ScreenConstants, Views!ContainersInit PROVE ViewsInv
  OBVIOUS
<1>1. /\ FetchTime \in Nat /\ Old \in Nat
      /\ \A seen : Views!Running(seen) \in Numbers
  BY ViewsNumbers
<1>2. countAge = [n \in Numbers |-> IF n = Views!Running(state) THEN 0 ELSE Old]
  <2>1. Cardinality(Containers) = Views!Cardinality(Containers)
    BY DEF Cardinality, Views!Cardinality
  <2> QED
    BY <2>1 DEF Views!ContainersInit, Numbers
<1>3. ViewsTyped /\ countAge[Views!Running(state)] = 0
  <2>1. /\ state \in [Containers -> Views!States]
        /\ DOMAIN details = Containers /\ DOMAIN states = Containers /\ DOMAIN look = Looks
    BY DEF Views!ContainersInit
  <2>2. heldAge \in [Containers -> [Views!States -> Nat]]
    BY <1>1 DEF Views!ContainersInit
  <2>3. countAge \in [Numbers -> Nat]
    BY <1>1, <1>2
  <2>4. countAge[Views!Running(state)] = 0
    BY <1>1, <1>2
  <2> QED
    BY <2>1, <2>2, <2>3, <2>4 DEF ViewsTyped
<1>4. \A c \in Containers : heldAge[c][state[c]] = 0
  BY DEF Views!ContainersInit
<1>5. Views!SaysWhatWas
  BY DEF Views!ContainersInit, Views!SaysWhatWas, Views!NoAnswer
<1> QED
  BY <1>3, <1>4, <1>5 DEF Views!ContainersInit, ViewsInv, Says, Saw

\* What is younger is as true, and what ages with its entry stays so.
LEMMA SaysYounger ==
  ASSUME ScreenConstants, NEW e, NEW ttl \in Nat, NEW values, NEW ages, NEW younger,
         \A v \in values : ages[v] \in Nat /\ younger[v] \in Nat /\ younger[v] <= ages[v],
         Says(e, ttl, values, ages)
  PROVE  Says(e, ttl, values, younger)
<1>1. CASE e = Nothing
  BY <1>1 DEF Says
<1>2. CASE e # Nothing
  <2>1. e.value \in values /\ e.age \in Nat /\ FetchTime \in Nat
    BY <1>2, ViewsNumbers DEF Says
  <2>2. younger[e.value] <= ages[e.value] /\ ages[e.value] \in Nat /\ younger[e.value] \in Nat
    BY <2>1
  <2> QED
    BY <1>2, <2>1, <2>2 DEF Says
<1> QED
  BY <1>1, <1>2

LEMMA SaysOlder ==
  ASSUME ScreenConstants, NEW e, NEW ttl \in Nat, NEW values, NEW ages, NEW older,
         \A v \in values : ages[v] \in Nat /\ older[v] \in Nat /\ older[v] <= ages[v] + 1,
         Says(e, ttl, values, ages)
  PROVE  Says(Views!Older(e, ttl), ttl, values, older)
<1>1. CASE e = Nothing
  BY <1>1 DEF Says, Views!Older
<1>2. CASE e # Nothing /\ e.age = ttl
  BY <1>2 DEF Says, Views!Older
<1>3. CASE e # Nothing /\ e.age # ttl
  <2> DEFINE f == [e EXCEPT !.age = e.age + 1]
  <2>1. /\ e \in [value : values, age : 0 .. ttl] /\ e.age < ttl
        /\ ages[e.value] <= e.age + FetchTime
    BY <1>3 DEF Says
  <2>2. Views!Older(e, ttl) = f
    BY <1>3 DEF Views!Older
  <2>3. f \in [value : values, age : 0 .. ttl] /\ f.value = e.value /\ f.age = e.age + 1
    BY <2>1
  <2>4. ages[e.value] \in Nat /\ older[e.value] \in Nat /\ older[e.value] <= ages[e.value] + 1
        /\ e.age \in Nat /\ FetchTime \in Nat
    BY <2>1, ViewsNumbers
  <2>5. older[e.value] <= e.age + 1 + FetchTime
    BY <2>1, <2>4
  <2> HIDE DEF f
  <2> QED
    BY <2>2, <2>3, <2>4, <2>5 DEF Says
<1> QED
  BY <1>1, <1>2, <1>3

LEMMA SawYounger ==
  ASSUME ScreenConstants, NEW k, NEW held, NEW count, NEW younger, NEW fewer,
         \A c \in Containers, s \in Views!States :
           held[c][s] \in Nat /\ younger[c][s] \in Nat /\ younger[c][s] <= held[c][s],
         \A n \in Numbers : count[n] \in Nat /\ fewer[n] \in Nat /\ fewer[n] <= count[n],
         Saw(k, held, count)
  PROVE  Saw(k, younger, fewer)
<1>1. CASE k = Nothing
  BY <1>1 DEF Saw
<1>2. CASE k # Nothing
  <2>1. /\ k.seen \in [Containers -> Views!States] /\ k.age \in Nat
        /\ Views!Running(k.seen) \in Numbers
    BY <1>2, ViewsNumbers DEF Saw
  <2>2. fewer[Views!Running(k.seen)] <= k.age
    <3>1. count[Views!Running(k.seen)] <= k.age
      BY <1>2 DEF Saw
    <3> QED
      BY <2>1, <3>1
  <2>3. \A c \in Containers : younger[c][k.seen[c]] <= k.age
    <3>1. \A c \in Containers : held[c][k.seen[c]] <= k.age /\ k.seen[c] \in Views!States
      BY <1>2, <2>1 DEF Saw
    <3> QED
      BY <2>1, <3>1
  <2> QED
    BY <1>2, <2>2, <2>3 DEF Saw
<1> QED
  BY <1>1, <1>2

LEMMA SawOlder ==
  ASSUME ScreenConstants, NEW k, NEW held, NEW count, NEW older, NEW more,
         \A c \in Containers, s \in Views!States :
           held[c][s] \in Nat /\ older[c][s] \in Nat /\ older[c][s] <= held[c][s] + 1,
         \A n \in Numbers : count[n] \in Nat /\ more[n] \in Nat /\ more[n] <= count[n] + 1,
         Saw(k, held, count), k # Nothing => k.age < FetchTime
  PROVE  Saw(Views!Older(k, FetchTime), older, more)
<1>1. CASE k = Nothing
  BY <1>1 DEF Saw, Views!Older
<1>2. CASE k # Nothing
  <2> DEFINE j == [k EXCEPT !.age = k.age + 1]
  <2>1. /\ k \in [what : {"list", "counters"} \cup Containers,
                  seen : [Containers -> Views!States], age : 0 .. FetchTime]
        /\ k.age < FetchTime /\ FetchTime \in Nat /\ Views!Running(k.seen) \in Numbers
    BY <1>2, ViewsNumbers DEF Saw
  <2>2. Views!Older(k, FetchTime) = j
    BY <1>2, <2>1 DEF Views!Older
  <2>3. /\ j \in [what : {"list", "counters"} \cup Containers,
                  seen : [Containers -> Views!States], age : 0 .. FetchTime]
        /\ j.seen = k.seen /\ j.age = k.age + 1
    BY <2>1
  <2> HIDE DEF j
  <2>4. more[Views!Running(k.seen)] <= k.age + 1
    <3>1. count[Views!Running(k.seen)] <= k.age /\ k.age \in Nat
      BY <1>2, <2>1 DEF Saw
    <3>2. /\ count[Views!Running(k.seen)] \in Nat /\ more[Views!Running(k.seen)] \in Nat
          /\ more[Views!Running(k.seen)] <= count[Views!Running(k.seen)] + 1
      BY <2>1
    <3> QED
      BY <3>1, <3>2
  <2>5. \A c \in Containers : older[c][k.seen[c]] <= k.age + 1
    <3>1. ASSUME NEW c \in Containers PROVE older[c][k.seen[c]] <= k.age + 1
      <4>1. held[c][k.seen[c]] <= k.age /\ k.seen[c] \in Views!States /\ k.age \in Nat
        BY <1>2, <2>1 DEF Saw
      <4>2. /\ held[c][k.seen[c]] \in Nat /\ older[c][k.seen[c]] \in Nat
            /\ older[c][k.seen[c]] <= held[c][k.seen[c]] + 1
        BY <4>1
      <4> QED
        BY <4>1, <4>2
    <3> QED
      BY <3>1
  <2> QED
    BY <2>2, <2>3, <2>4, <2>5 DEF Saw
<1> QED
  BY <1>1, <1>2

\* A look that ends leaves what was seen as it is; what it enters is as old
\* as the look.
LEMMA LookEnds ==
  ASSUME ViewsInv, NEW l \in Looks, NEW view, NEW ages, Views!Finish(l, view, ages),
         DOMAIN details' = Containers, DOMAIN states' = Containers,
         \A c \in Containers : /\ Says(details'[c], DetailsTtl, Views!States, heldAge[c])
                               /\ Says(states'[c], StateTtl, Views!States, heldAge[c]),
         Says(counters', CountersTtl, Numbers, countAge), Views!SaysWhatWas'
  PROVE  ViewsInv'
<1>1. state' = state /\ heldAge' = heldAge /\ countAge' = countAge
      /\ look' = [look EXCEPT ![l] = Nothing]
  BY DEF Views!Finish
<1>2. ViewsTyped'
  BY <1>1 DEF ViewsInv, ViewsTyped
<1>3. \A k \in Looks : Saw(look'[k], heldAge, countAge)
  BY <1>1 DEF ViewsInv, ViewsTyped, Saw
<1> QED
  BY <1>1, <1>2, <1>3 DEF ViewsInv, Says, Saw

LEMMA EntryIsTrue ==
  ASSUME ScreenConstants, NEW value, NEW values, value \in values, NEW ttl \in Nat, NEW ages,
         ages[value] <= FetchTime
  PROVE  Says(Views!Entry(value), ttl, values, ages)
<1>1. Views!Entry(value) \in [value : values, age : 0 .. ttl]
      /\ Views!Entry(value).age = 0 /\ Views!Entry(value).value = value
  BY DEF Views!Entry
<1>2. FetchTime \in Nat
  BY ViewsNumbers
<1> QED
  BY <1>1, <1>2 DEF Says

LEMMA ViewsInvNext ==
  ScreenConstants /\ ViewsInv /\ [Views!ContainersNext]_viewVars => ViewsInv'
<1> SUFFICES ASSUME ScreenConstants, ViewsInv, [Views!ContainersNext]_viewVars PROVE ViewsInv'
  OBVIOUS
<1>0. /\ DetailsTtl \in Nat \ {0} /\ StateTtl \in Nat \ {0} /\ CountersTtl \in Nat \ {0}
      /\ FetchTime \in Nat /\ Old \in Nat /\ ViewsTyped
      /\ \A seen : Views!Running(seen) \in Numbers
  BY ViewsNumbers DEF ViewsInv
<1>1. CASE UNCHANGED viewVars
  BY <1>1 DEF viewVars, ViewsInv, ViewsTyped, Says, Saw, Views!SaysWhatWas
<1>2. ASSUME NEW l \in Looks, NEW what \in {"list", "counters"} \cup Containers,
             Views!Begin(l, what)
      PROVE  ViewsInv'
  <2> DEFINE k == [what |-> what, seen |-> state, age |-> 0]
  <2>1. /\ look' = [look EXCEPT ![l] = k] /\ shown' = Views!NoAnswer
        /\ UNCHANGED <<state, heldAge, countAge, details, states, counters>>
    BY <1>2 DEF Views!Begin
  <2>2. Saw(k, heldAge, countAge)
    <3>1. k \in [what : {"list", "counters"} \cup Containers,
                 seen : [Containers -> Views!States], age : 0 .. FetchTime]
      BY <1>0 DEF ViewsTyped
    <3>2. k.seen = state /\ k.age = 0
      OBVIOUS
    <3>3. (\A c \in Containers : heldAge[c][state[c]] = 0) /\ countAge[Views!Running(state)] = 0
      BY DEF ViewsInv
    <3> HIDE DEF k
    <3> QED
      BY <3>1, <3>2, <3>3 DEF Saw
  <2> HIDE DEF k
  <2>3. \A j \in Looks : Saw(look'[j], heldAge, countAge)
    BY <2>1, <2>2 DEF ViewsInv, ViewsTyped
  <2>4. ViewsTyped' /\ Views!SaysWhatWas'
    BY <2>1, NoAnswerIsTrue DEF ViewsInv, ViewsTyped
  <2> QED
    BY <2>1, <2>3, <2>4 DEF ViewsInv, Says, Saw
<1>3. ASSUME NEW l \in Looks, look[l] # Nothing
      PROVE  /\ look[l].seen \in [Containers -> Views!States]
             /\ \A c \in Containers : heldAge[c][look[l].seen[c]] <= FetchTime
             /\ countAge[Views!Running(look[l].seen)] <= FetchTime
  <2>1. /\ look[l].seen \in [Containers -> Views!States] /\ look[l].age \in 0 .. FetchTime
        /\ \A c \in Containers : heldAge[c][look[l].seen[c]] <= look[l].age
        /\ countAge[Views!Running(look[l].seen)] <= look[l].age
    BY <1>3 DEF ViewsInv, Saw
  <2>2. \A c \in Containers : heldAge[c][look[l].seen[c]] \in Nat
    BY <1>0, <2>1 DEF ViewsTyped
  <2>3. countAge[Views!Running(look[l].seen)] \in Nat
    BY <1>0 DEF ViewsTyped
  <2> QED
    BY <1>0, <2>1, <2>2, <2>3
<1>4. ASSUME NEW l \in Looks, Views!ShowList(l)
      PROVE  ViewsInv'
  <2> DEFINE seen == look[l].seen
             ages == {heldAge[c][details'[c].value] : c \in {d \in Containers : seen[d] # "none"}}
  <2>1. /\ look[l] # Nothing /\ Views!Finish(l, "list", ages) /\ UNCHANGED <<states, counters>>
        /\ details' = [c \in Containers |-> Views!Details(c, seen)]
    BY <1>4 DEF Views!ShowList
  <2>2. seen \in [Containers -> Views!States]
        /\ \A c \in Containers : heldAge[c][seen[c]] <= FetchTime
    BY <1>3, <2>1
  <2> HIDE DEF seen
  <2>3. ASSUME NEW c \in Containers
        PROVE  /\ Says(details'[c], DetailsTtl, Views!States, heldAge[c])
               /\ seen[c] # "none" => heldAge[c][details'[c].value] < DetailsTtl + FetchTime
    <3>1. Says(details[c], DetailsTtl, Views!States, heldAge[c])
      BY DEF ViewsInv
    <3>2. CASE seen[c] # "none" /\ ~Views!Live(details[c], DetailsTtl)
      <4>1. details'[c] = Views!Entry(seen[c])
        BY <2>1, <3>2 DEF Views!Details
      <4>2. heldAge[c][seen[c]] <= FetchTime /\ seen[c] \in Views!States
            /\ heldAge[c][seen[c]] \in Nat
        BY <1>0, <2>2 DEF ViewsTyped
      <4>3. Says(details'[c], DetailsTtl, Views!States, heldAge[c])
        BY <1>0, <4>1, <4>2, EntryIsTrue
      <4>4. details'[c].value = seen[c]
        BY <4>1 DEF Views!Entry
      <4>5. heldAge[c][seen[c]] < DetailsTtl + FetchTime
        BY <1>0, <4>2
      <4> QED
        BY <4>3, <4>4, <4>5
    <3>3. CASE seen[c] = "none" \/ Views!Live(details[c], DetailsTtl)
      <4>1. details'[c] = details[c]
        BY <2>1, <3>3 DEF Views!Details
      <4>2. ASSUME Views!Live(details[c], DetailsTtl)
            PROVE  heldAge[c][details[c].value] < DetailsTtl + FetchTime
        <5>1. /\ details[c].age < DetailsTtl /\ details[c].age \in Nat
              /\ details[c].value \in Views!States
              /\ heldAge[c][details[c].value] <= details[c].age + FetchTime
          BY <1>0, <3>1, <4>2 DEF Views!Live, Says
        <5>2. heldAge[c][details[c].value] \in Nat
          BY <1>0, <5>1 DEF ViewsTyped
        <5> QED
          BY <1>0, <5>1, <5>2
      <4> QED
        BY <3>1, <3>3, <4>1, <4>2
    <3> QED
      BY <3>2, <3>3
  <2>4. Views!SaysWhatWas'
    <3>1. shown' = [view |-> "list", ages |-> ages]
      BY <2>1 DEF Views!Finish
    <3> QED
      BY <2>3, <3>1 DEF Views!SaysWhatWas
  <2>5. /\ states' = states /\ counters' = counters /\ DOMAIN details' = Containers
    BY <2>1
  <2> HIDE DEF ages
  <2> QED
    BY <1>0, <2>1, <2>3, <2>4, <2>5, LookEnds DEF ViewsInv, ViewsTyped
<1>5. ASSUME NEW l \in Looks, NEW c \in Containers, Views!ShowState(l, c)
      PROVE  ViewsInv'
  <2> DEFINE seen == look[l].seen[c]
  <2>1. /\ look[l] # Nothing /\ Views!Finish(l, "state", {heldAge[c][seen]})
        /\ states' = IF seen = "none" THEN states ELSE [states EXCEPT ![c] = Views!Entry(seen)]
        /\ UNCHANGED <<details, counters>>
    BY <1>5 DEF Views!ShowState
  <2>2. seen \in Views!States /\ heldAge[c][seen] <= FetchTime
    BY <1>3, <2>1
  <2> HIDE DEF seen
  <2>3. Says(Views!Entry(seen), StateTtl, Views!States, heldAge[c])
    BY <1>0, <2>2, EntryIsTrue
  <2>4. DOMAIN states' = Containers
        /\ \A d \in Containers : Says(states'[d], StateTtl, Views!States, heldAge[d])
    BY <2>1, <2>3 DEF ViewsInv, ViewsTyped
  <2>5. Views!SaysWhatWas'
    <3>1. heldAge[c][seen] \in Nat
      BY <1>0, <2>2 DEF ViewsTyped
    <3>2. heldAge[c][seen] < StateTtl + FetchTime
      BY <1>0, <2>2, <3>1
    <3>3. shown' = [view |-> "state", ages |-> {heldAge[c][seen]}]
      BY <2>1 DEF Views!Finish
    <3> QED
      BY <3>2, <3>3 DEF Views!SaysWhatWas
  <2> QED
    BY <2>1, <2>4, <2>5, LookEnds DEF ViewsInv, ViewsTyped
<1>6. ASSUME NEW l \in Looks, Views!ShowCounters(l)
      PROVE  ViewsInv'
  <2> DEFINE n == Views!Running(look[l].seen)
  <2>1. /\ look[l] # Nothing /\ Views!Finish(l, "counters", {countAge[n]})
        /\ counters' = Views!Entry(n) /\ UNCHANGED <<details, states>>
    BY <1>6 DEF Views!ShowCounters
  <2>2. n \in Numbers /\ countAge[n] <= FetchTime
    BY <1>0, <1>3, <2>1
  <2> HIDE DEF n
  <2>3. Says(counters', CountersTtl, Numbers, countAge)
    BY <1>0, <2>1, <2>2, EntryIsTrue
  <2>4. Views!SaysWhatWas'
    <3>1. countAge[n] \in Nat
      BY <1>0, <2>2 DEF ViewsTyped
    <3>2. countAge[n] < CountersTtl + FetchTime
      BY <1>0, <2>2, <3>1
    <3>3. shown' = [view |-> "counters", ages |-> {countAge[n]}]
      BY <2>1 DEF Views!Finish
    <3> QED
      BY <3>2, <3>3 DEF Views!SaysWhatWas
  <2> QED
    BY <2>1, <2>3, <2>4, LookEnds DEF ViewsInv, ViewsTyped
<1>7. CASE Views!ShowCached
  <2>1. UNCHANGED <<state, heldAge, countAge, details, states, counters, look>>
    BY <1>7 DEF Views!ShowCached
  <2>2. CASE \E c \in Containers : /\ Views!Live(states[c], StateTtl)
                                   /\ shown' = [view |-> "state",
                                                ages |-> {heldAge[c][states[c].value]}]
    <3>1. PICK c \in Containers : /\ Views!Live(states[c], StateTtl)
                                  /\ shown' = [view |-> "state",
                                               ages |-> {heldAge[c][states[c].value]}]
      BY <2>2
    <3>2. /\ states[c].age < StateTtl /\ states[c].age \in Nat
          /\ states[c].value \in Views!States
          /\ heldAge[c][states[c].value] <= states[c].age + FetchTime
      BY <1>0, <3>1 DEF ViewsInv, Views!Live, Says
    <3>3. heldAge[c][states[c].value] \in Nat
      BY <1>0, <3>2 DEF ViewsTyped
    <3>4. heldAge[c][states[c].value] < StateTtl + FetchTime
      BY <1>0, <3>2, <3>3
    <3>5. Views!SaysWhatWas'
      BY <3>1, <3>4 DEF Views!SaysWhatWas
    <3> QED
      BY <2>1, <3>5 DEF ViewsInv, ViewsTyped, Says, Saw
  <2>3. CASE /\ Views!Live(counters, CountersTtl)
             /\ shown' = [view |-> "counters", ages |-> {countAge[counters.value]}]
    <3>1. /\ counters.age < CountersTtl /\ counters.age \in Nat /\ counters.value \in Numbers
          /\ countAge[counters.value] <= counters.age + FetchTime
      BY <1>0, <2>3 DEF ViewsInv, Views!Live, Says
    <3>2. countAge[counters.value] \in Nat
      BY <1>0, <3>1 DEF ViewsTyped
    <3>3. countAge[counters.value] < CountersTtl + FetchTime
      BY <1>0, <3>1, <3>2
    <3>4. Views!SaysWhatWas'
      BY <2>3, <3>3 DEF Views!SaysWhatWas
    <3> QED
      BY <2>1, <3>4 DEF ViewsInv, ViewsTyped, Says, Saw
  <2> QED
    BY <1>7, <2>2, <2>3 DEF Views!ShowCached
<1>8. ASSUME NEW c \in Containers, NEW s \in Views!States, Views!Change(c, s)
      PROVE  ViewsInv'
  <2>1. /\ state' = [state EXCEPT ![c] = s] /\ heldAge' = [heldAge EXCEPT ![c][s] = 0]
        /\ countAge' = [countAge EXCEPT ![Views!Running(state')] = 0]
        /\ shown' = Views!NoAnswer /\ UNCHANGED <<details, states, counters, look>>
    BY <1>8 DEF Views!Change
  <2>2. /\ state' \in [Containers -> Views!States] /\ countAge' \in [Numbers -> Nat]
        /\ countAge'[Views!Running(state')] = 0
    BY <1>0, <2>1 DEF ViewsTyped
  <2>3. heldAge' \in [Containers -> [Views!States -> Nat]]
    BY <1>0, <2>1 DEF ViewsTyped
  <2>4. \A d \in Containers, t \in Views!States :
          /\ heldAge[d][t] \in Nat /\ heldAge'[d][t] \in Nat
          /\ heldAge'[d][t] = IF d = c /\ t = s THEN 0 ELSE heldAge[d][t]
    BY <1>0, <2>1 DEF ViewsTyped
  <2>5. \A n \in Numbers : countAge[n] \in Nat /\ countAge'[n] \in Nat /\ countAge'[n] <= countAge[n]
    BY <1>0, <2>1 DEF ViewsTyped
  <2>6. \A d \in Containers : heldAge'[d][state'[d]] = 0
    <3>1. \A d \in Containers : heldAge[d][state[d]] = 0 /\ state[d] \in Views!States
      BY <1>0 DEF ViewsInv, ViewsTyped
    <3> QED
      BY <1>0, <2>1, <2>4, <3>1 DEF ViewsTyped
  <2>7. \A d \in Containers, t \in Views!States : heldAge'[d][t] <= heldAge[d][t]
    BY <2>4
  <2>8. \A d \in Containers : /\ Says(details'[d], DetailsTtl, Views!States, heldAge'[d])
                              /\ Says(states'[d], StateTtl, Views!States, heldAge'[d])
    BY <1>0, <2>1, <2>4, <2>7, SaysYounger DEF ViewsInv
  <2>9. Says(counters', CountersTtl, Numbers, countAge')
    BY <1>0, <2>1, <2>5, SaysYounger DEF ViewsInv
  <2>10. \A l \in Looks : Saw(look'[l], heldAge', countAge')
    BY <2>1, <2>4, <2>5, <2>7, SawYounger DEF ViewsInv
  <2>11. ViewsTyped' /\ Views!SaysWhatWas'
    BY <1>0, <2>1, <2>2, <2>3, NoAnswerIsTrue DEF ViewsTyped
  <2> QED
    BY <2>2, <2>6, <2>8, <2>9, <2>10, <2>11 DEF ViewsInv, Says, Saw
<1>9. CASE Views!Tick
  <2>1. /\ heldAge' = [c \in Containers |-> [t \in Views!States |->
                        IF t = state[c] THEN 0 ELSE Views!OlderAge(heldAge[c][t])]]
        /\ countAge' = [n \in Numbers |-> IF n = Views!Running(state) THEN 0
                                          ELSE Views!OlderAge(countAge[n])]
        /\ details' = [c \in Containers |-> Views!Older(details[c], DetailsTtl)]
        /\ states' = [c \in Containers |-> Views!Older(states[c], StateTtl)]
        /\ counters' = Views!Older(counters, CountersTtl)
        /\ look' = [l \in Looks |-> Views!Older(look[l], FetchTime)]
        /\ shown' = Views!NoAnswer /\ state' = state
        /\ \A l \in Looks : look[l] # Nothing => look[l].age < FetchTime
    BY <1>0, <1>9 DEF Views!Tick, ViewsTyped
  <2>2. \A age \in Nat : Views!OlderAge(age) \in Nat /\ Views!OlderAge(age) <= age + 1
    BY <1>0 DEF Views!OlderAge
  <2>3. \A c \in Containers, t \in Views!States :
          heldAge[c][t] \in Nat /\ heldAge'[c][t] \in Nat /\ heldAge'[c][t] <= heldAge[c][t] + 1
    <3>1. ASSUME NEW c \in Containers, NEW t \in Views!States
          PROVE  heldAge[c][t] \in Nat
                 /\ heldAge'[c][t] \in {0, Views!OlderAge(heldAge[c][t])}
      BY <1>0, <2>1 DEF ViewsTyped
    <3> QED
      BY <2>2, <3>1
  <2>4. \A n \in Numbers :
          countAge[n] \in Nat /\ countAge'[n] \in Nat /\ countAge'[n] <= countAge[n] + 1
    <3>1. ASSUME NEW n \in Numbers
          PROVE  countAge[n] \in Nat /\ countAge'[n] \in {0, Views!OlderAge(countAge[n])}
      BY <1>0, <2>1 DEF ViewsTyped
    <3> QED
      BY <2>2, <3>1
  <2>5. ViewsTyped' /\ Views!SaysWhatWas'
    <3>1. heldAge' \in [Containers -> [Views!States -> Nat]]
      BY <2>1, <2>3
    <3>2. countAge' \in [Numbers -> Nat]
      BY <2>1, <2>4
    <3> QED
      BY <1>0, <2>1, <3>1, <3>2, NoAnswerIsTrue DEF ViewsTyped
  <2>6. (\A c \in Containers : heldAge'[c][state'[c]] = 0) /\ countAge'[Views!Running(state')] = 0
    BY <1>0, <2>1 DEF ViewsTyped
  <2>7. \A c \in Containers : /\ Says(details'[c], DetailsTtl, Views!States, heldAge'[c])
                              /\ Says(states'[c], StateTtl, Views!States, heldAge'[c])
    BY <1>0, <2>1, <2>3, SaysOlder DEF ViewsInv
  <2>8. Says(counters', CountersTtl, Numbers, countAge')
    BY <1>0, <2>1, <2>4, SaysOlder DEF ViewsInv
  <2>9. \A l \in Looks : Saw(look'[l], heldAge', countAge')
    BY <2>1, <2>3, <2>4, SawOlder DEF ViewsInv
  <2> QED
    BY <2>5, <2>6, <2>7, <2>8, <2>9 DEF ViewsInv, Says, Saw
<1> QED
  BY <1>1, <1>2, <1>4, <1>5, <1>6, <1>7, <1>8, <1>9 DEF Views!ContainersNext

\* What a screen says of the host or of containers was true not longer ago
\* than the caches keep it and a look takes, for every number of threads.
THEOREM WhatIsShownWasTrue == Spec => []ShownWasTrue
<1>1. ReadingsInv /\ ViewsInv => ShownWasTrue
  BY DEF ReadingsInv, ViewsInv, ShownWasTrue, Readings!ReadingsAreRecent
<1> QED
  BY <1>1, PartsInit, PartsNext, ReadingsInvInit, ReadingsInvNext, ViewsInvInit, ViewsInvNext,
     ScreenConstants, PTL DEF Spec

----------------------------------------------------------------------------
(* The screens and their buttons.                                           *)
SystemHeadSet == DOMAIN Cards!SystemView

SystemViewSet ==
    {"cpu", "cpu details", "network", "network details", "filesystem", "disk details", "sensors",
     "fans", "uptime", "memory", "process", "process details", "quickview", "health"}
AdminViews == {"manage", "restarted"}
ViewSet == SystemViewSet \cup AdminViews \cup {"gone", "list", "full", "extra", "logs"}

LEMMA SystemViewIs == \A head \in SystemHeadSet : Cards!SystemView[head] \in SystemViewSet
<1> DEFINE Goes(map) == \A head \in DOMAIN map : map[head] \in SystemViewSet
<1>1. Goes(Cards!CpuViews)
  <2>1. DOMAIN Cards!CpuViews = {"cpu_info", "cpu_per_core", "cpu_times", "process_info"}
    BY DEF Cards!CpuViews
  <2>2. {Cards!CpuViews.cpu_info, Cards!CpuViews.cpu_per_core, Cards!CpuViews.cpu_times,
         Cards!CpuViews.process_info} \subseteq SystemViewSet
    BY DEF Cards!CpuViews, SystemViewSet
  <2> QED
    BY <2>1, <2>2
<1>2. Goes(Cards!NetworkViews)
  <2>1. DOMAIN Cards!NetworkViews = {"network_overview", "network_interfaces",
        "network_connections"}
    BY DEF Cards!NetworkViews
  <2>2. {Cards!NetworkViews.network_overview, Cards!NetworkViews.network_interfaces,
         Cards!NetworkViews.network_connections} \subseteq SystemViewSet
    BY DEF Cards!NetworkViews, SystemViewSet
  <2> QED
    BY <2>1, <2>2
<1>3. Goes(Cards!DiskViews)
  <2>1. DOMAIN Cards!DiskViews = {"filesystem_overview", "disk_io"}
    BY DEF Cards!DiskViews
  <2>2. {Cards!DiskViews.filesystem_overview, Cards!DiskViews.disk_io} \subseteq
         SystemViewSet
    BY DEF Cards!DiskViews, SystemViewSet
  <2> QED
    BY <2>1, <2>2
<1>4. Goes(Cards!SensorViews)
  <2>1. DOMAIN Cards!SensorViews = {"sensors_overview", "fan_speeds"}
    BY DEF Cards!SensorViews
  <2>2. {Cards!SensorViews.sensors_overview, Cards!SensorViews.fan_speeds} \subseteq
         SystemViewSet
    BY DEF Cards!SensorViews, SystemViewSet
  <2> QED
    BY <2>1, <2>2
<1>5. Goes(Cards!UptimeViews)
  <2>1. DOMAIN Cards!UptimeViews = {"users_info"}
    BY DEF Cards!UptimeViews
  <2>2. {Cards!UptimeViews.users_info} \subseteq SystemViewSet
    BY DEF Cards!UptimeViews, SystemViewSet
  <2> QED
    BY <2>1, <2>2
<1>6. Goes(Cards!MemoryViews)
  <2>1. DOMAIN Cards!MemoryViews = {"swap_info"}
    BY DEF Cards!MemoryViews
  <2>2. {Cards!MemoryViews.swap_info} \subseteq SystemViewSet
    BY DEF Cards!MemoryViews, SystemViewSet
  <2> QED
    BY <2>1, <2>2
<1>7. Goes(Cards!ProcessViews)
  <2>1. DOMAIN Cards!ProcessViews = {"process_overview", "process_info_process"}
    BY DEF Cards!ProcessViews
  <2>2. {Cards!ProcessViews.process_overview, Cards!ProcessViews.process_info_process}
         \subseteq SystemViewSet
    BY DEF Cards!ProcessViews, SystemViewSet
  <2> QED
    BY <2>1, <2>2
<1>8. Goes(Cards!QuickViews)
  <2>1. DOMAIN Cards!QuickViews = {"quickview_overview", "quickview_memory",
        "quickview_sensors", "quickview_cpu", "quickview_disk"}
    BY DEF Cards!QuickViews
  <2>2. {Cards!QuickViews.quickview_overview, Cards!QuickViews.quickview_memory,
         Cards!QuickViews.quickview_sensors, Cards!QuickViews.quickview_cpu,
         Cards!QuickViews.quickview_disk} \subseteq SystemViewSet
    BY DEF Cards!QuickViews, SystemViewSet
  <2> QED
    BY <2>1, <2>2
<1>9. Goes(Cards!HealthViews)
  <2>1. DOMAIN Cards!HealthViews = {"health_refresh"}
    BY DEF Cards!HealthViews
  <2>2. {Cards!HealthViews.health_refresh} \subseteq SystemViewSet
    BY DEF Cards!HealthViews, SystemViewSet
  <2> QED
    BY <2>1, <2>2
<1>10. \A map \in Cards!SystemMaps : Goes(map)
  BY <1>1, <1>2, <1>3, <1>4, <1>5, <1>6, <1>7, <1>8, <1>9 DEF Cards!SystemMaps
<1> HIDE DEF Goes
<1>11. ASSUME NEW head \in SystemHeadSet PROVE Cards!SystemView[head] \in SystemViewSet
  <2> DEFINE map == CHOOSE map \in Cards!SystemMaps : head \in DOMAIN map
  <2>1. map \in Cards!SystemMaps /\ head \in DOMAIN map
    BY <1>11 DEF SystemHeadSet, Cards!SystemView
  <2>2. Cards!SystemView[head] = map[head]
    BY <1>11 DEF SystemHeadSet, Cards!SystemView
  <2> QED
    BY <1>10, <2>1, <2>2 DEF Goes
<1> QED
  BY <1>11

LEMMA SystemHeadSetHas ==
  {"cpu_info", "cpu_per_core", "cpu_times", "process_info", "network_overview",
   "network_interfaces", "network_connections", "filesystem_overview", "disk_io",
   "sensors_overview", "fan_speeds", "process_overview", "process_info_process"}
    \cup DOMAIN Cards!UptimeViews \cup DOMAIN Cards!MemoryViews \cup DOMAIN Cards!QuickViews
    \cup DOMAIN Cards!HealthViews \subseteq SystemHeadSet
<1>1. SystemHeadSet = UNION {DOMAIN map : map \in Cards!SystemMaps}
  BY DEF SystemHeadSet, Cards!SystemView
<1>2. \A map \in Cards!SystemMaps : DOMAIN map \subseteq SystemHeadSet
  BY <1>1
<1>3. {"cpu_info", "cpu_per_core", "cpu_times", "process_info"} \subseteq SystemHeadSet
  BY <1>2 DEF Cards!SystemMaps, Cards!CpuViews
<1>4. {"network_overview", "network_interfaces", "network_connections"} \subseteq SystemHeadSet
  BY <1>2 DEF Cards!SystemMaps, Cards!NetworkViews
<1>5. {"filesystem_overview", "disk_io"} \subseteq SystemHeadSet
  BY <1>2 DEF Cards!SystemMaps, Cards!DiskViews
<1>6. {"sensors_overview", "fan_speeds"} \subseteq SystemHeadSet
  BY <1>2 DEF Cards!SystemMaps, Cards!SensorViews
<1>7. {"process_overview", "process_info_process"} \subseteq SystemHeadSet
  BY <1>2 DEF Cards!SystemMaps, Cards!ProcessViews
<1>8. DOMAIN Cards!UptimeViews \cup DOMAIN Cards!MemoryViews \cup DOMAIN Cards!QuickViews
        \cup DOMAIN Cards!HealthViews \subseteq SystemHeadSet
  BY <1>2 DEF Cards!SystemMaps
<1> QED
  BY <1>3, <1>4, <1>5, <1>6, <1>7, <1>8

\* No system button asks for a login.
LEMMA SystemHeadsAreFree == SystemHeadSet \cap Cards!Protected = {}
<1>1. SystemHeadSet = UNION {DOMAIN map : map \in Cards!SystemMaps}
  BY DEF SystemHeadSet, Cards!SystemView
<1> DEFINE Free(map) == DOMAIN map \cap Cards!Protected = {}
<1>2. Free(Cards!CpuViews) /\ Free(Cards!NetworkViews) /\ Free(Cards!DiskViews)
  BY DEF Cards!CpuViews, Cards!NetworkViews, Cards!DiskViews, Cards!Protected, Cards!Extras,
         Cards!Actions
<1>3. Free(Cards!SensorViews) /\ Free(Cards!UptimeViews) /\ Free(Cards!MemoryViews)
  BY DEF Cards!SensorViews, Cards!UptimeViews, Cards!MemoryViews, Cards!Protected, Cards!Extras,
         Cards!Actions
<1>4. Free(Cards!ProcessViews) /\ Free(Cards!QuickViews) /\ Free(Cards!HealthViews)
  BY DEF Cards!ProcessViews, Cards!QuickViews, Cards!HealthViews, Cards!Protected, Cards!Extras,
         Cards!Actions
<1>5. \A map \in Cards!SystemMaps : Free(map)
  BY <1>2, <1>3, <1>4 DEF Cards!SystemMaps
<1> QED
  BY <1>1, <1>5

LEMMA SystemHeadsAre ==
  ASSUME NEW view \in SystemViewSet PROVE Cards!SystemHeads(view) \subseteq SystemHeadSet
BY SystemHeadSetHas
   DEF SystemViewSet, Cards!SystemHeads, Cards!DetailHeads, Cards!CpuHeads, Cards!NetworkHeads,
       Cards!FanHeads, Cards!ProcessHeads

OtherHeads == Cards!Protected \cup {"containers_page", "get_full", "back_to_containers"}
Heads == SystemHeadSet \cup OtherHeads

\* A protected screen belongs to an admin; of a card that nobody owns the
\* model says nothing.
CardsInv ==
    /\ DOMAIN card = {"view", "owner", "state"} /\ card.view \in ViewSet
    /\ card.view \in AdminViews => card.owner \in Admins \cup {NoOwner}
    /\ DOMAIN container = {"length", "upper", "state"} /\ container.length \in Nat

\* A button as it is made, before it is cut to fit.
Made(b) ==
    /\ b \in [head : Heads, by : {"nothing", "id", "name"}, owner : {card.owner, NoOwner}]
    /\ b.owner = NoOwner => card.owner = NoOwner \/ b.head = "back_to_containers"
    /\ b.head \in Cards!Protected => b.owner \in Admins \cup {NoOwner}

LEMMA ButtonIs ==
  ASSUME NEW head \in Heads, NEW by \in {"nothing", "id", "name"}, NEW owner
  PROVE  /\ Cards!Button(head, owner) = [head |-> head, by |-> "nothing", owner |-> owner]
         /\ Cards!About(head, by, owner) = [head |-> head, by |-> by, owner |-> owner]
BY DEF Cards!Button, Cards!About

\* Who owns the card owns its buttons.
LEMMA OwnButton ==
  ASSUME NEW head \in Heads, NEW by \in {"nothing", "id", "name"},
         head \in Cards!Protected => card.owner \in Admins \cup {NoOwner}
  PROVE  Made(Cards!Button(head, card.owner)) /\ Made(Cards!About(head, by, card.owner))
<1> DEFINE b == [head |-> head, by |-> "nothing", owner |-> card.owner]
           c == [head |-> head, by |-> by, owner |-> card.owner]
<1>1. Made(b) /\ Made(c)
  BY DEF Made
<1> QED
  BY <1>1, ButtonIs

LEMMA KeyboardIsMade ==
  ASSUME CardsInv, NEW b \in Cards!Keyboard
  PROVE  \E raw : Made(raw) /\ b = Cards!Sent(raw)
<1> DEFINE Buttons ==
      CASE card.view = "gone" -> {}
        [] card.view = "list" -> Cards!ListButtons(card.owner)
        [] card.view = "full" -> Cards!FullButtons(card.owner)
        [] card.view = "extra" -> Cards!BackToFull(card.owner)
        [] card.view = "logs" -> Cards!BackToFull(card.owner)
                                   \cup {Cards!Button("back_to_containers", NoOwner)}
        [] card.view = "manage" -> Cards!ManageButtons(card.owner)
        [] card.view = "restarted" -> {Cards!About("manage", "name", card.owner)}
        [] OTHER -> {Cards!Button(head, card.owner) : head \in Cards!SystemHeads(card.view)}
<1>1. PICK raw \in Buttons : b = Cards!Sent(raw)
  BY DEF Cards!Keyboard
<1>2. {"containers_page", "get_full", "back_to_containers"} \subseteq Heads
      /\ {"containers_page", "get_full", "back_to_containers"} \cap Cards!Protected = {}
      /\ Cards!Protected \subseteq Heads
  BY DEF Heads, OtherHeads, Cards!Protected, Cards!Extras, Cards!Actions
<1>3. Made(Cards!Button("containers_page", card.owner))
      /\ \A by \in {"id", "name"} : Made(Cards!About("get_full", by, card.owner))
  BY <1>2, OwnButton
<1>4. ASSUME card.view \in AdminViews \/ card.owner \in Admins
      PROVE  \A head \in Cards!Protected : Made(Cards!About(head, "name", card.owner))
  BY <1>2, <1>4, OwnButton DEF CardsInv
<1>5. \A c \in Cards!BackToFull(card.owner) : Made(c)
  BY <1>3 DEF Cards!BackToFull
<1>6. CASE card.view = "list"
  BY <1>1, <1>3, <1>6 DEF Cards!ListButtons
<1>7. CASE card.view = "full"
  <2>1. Cards!Extras \cup {"get_logs", "manage"} \subseteq Cards!Protected
    BY DEF Cards!Protected
  <2> QED
    BY <1>1, <1>3, <1>4, <1>7, <2>1 DEF Cards!FullButtons
<1>8. CASE card.view = "extra"
  BY <1>1, <1>5, <1>8
<1>9. CASE card.view = "logs"
  <2> DEFINE c == [head |-> "back_to_containers", by |-> "nothing", owner |-> NoOwner]
  <2>1. Made(c)
    BY <1>2 DEF Made
  <2>2. c = Cards!Button("back_to_containers", NoOwner)
    BY DEF Cards!Button
  <2> HIDE DEF c
  <2> QED
    BY <1>1, <1>5, <1>9, <2>1, <2>2
<1>10. CASE card.view = "manage"
  <2>1. {"stop", "restart", "start"} \subseteq Cards!Protected
    BY DEF Cards!Protected, Cards!Actions
  <2>2. card.view \in AdminViews
    BY <1>10 DEF AdminViews
  <2> QED
    BY <1>1, <1>4, <1>5, <1>10, <2>1, <2>2 DEF Cards!ManageButtons
<1>11. CASE card.view = "restarted"
  <2>1. "manage" \in Cards!Protected /\ card.view \in AdminViews
    BY <1>11 DEF Cards!Protected, AdminViews
  <2> QED
    BY <1>1, <1>4, <1>11, <2>1
<1>12. CASE card.view \in SystemViewSet
  <2>1. Buttons = {Cards!Button(head, card.owner) : head \in Cards!SystemHeads(card.view)}
    BY <1>12 DEF SystemViewSet
  <2>2. \A head \in Cards!SystemHeads(card.view) : head \in Heads /\ head \notin Cards!Protected
    BY <1>12, SystemHeadsAre, SystemHeadsAreFree DEF Heads
  <2> HIDE DEF Buttons
  <2> QED
    BY <1>1, <2>1, <2>2, OwnButton
<1>13. CASE card.view = "gone"
  BY <1>1, <1>13
<1> QED
  BY <1>1, <1>6, <1>7, <1>8, <1>9, <1>10, <1>11, <1>12, <1>13
     DEF CardsInv, ViewSet, AdminViews

\* Sending changes nothing but the owner, to somebody who is no user; and not
\* even that, when the container's name is short.
LEMMA SentKeeps ==
  ASSUME CardsInv, NEW raw, Made(raw)
  PROVE  /\ Cards!Sent(raw).head = raw.head /\ Cards!Sent(raw).by = raw.by
         /\ Cards!Sent(raw).owner \in {raw.owner, Foreign, Broken}
         /\ container.length <= 24 => Cards!Sent(raw) = raw
<1>1. Cards!Before(raw.head) \in Nat /\ Cards!Before(raw.head) <= 29
  BY DEF Cards!Before
<1>2. /\ Cards!RefLength(raw.by) \in Nat
      /\ container.length <= 24 => Cards!RefLength(raw.by) <= 24
  BY DEF Cards!RefLength, CardsInv, Made
<1>3. container.length <= 24
        => Cards!Before(raw.head) + Cards!RefLength(raw.by) + 1 + Cards!IdDigits <= Cards!MaxData
  <2> DEFINE before == Cards!Before(raw.head)
             name == Cards!RefLength(raw.by)
  <2>1. ASSUME container.length <= 24
        PROVE  before \in Nat /\ before <= 29 /\ name \in Nat /\ name <= 24
    BY <1>1, <1>2, <2>1
  <2> HIDE DEF before, name
  <2>2. ASSUME before \in Nat /\ before <= 29 /\ name \in Nat /\ name <= 24
        PROVE  before + name + 1 + 10 <= 64
    BY <2>2
  <2> QED
    BY <2>1, <2>2 DEF before, name, Cards!IdDigits, Cards!MaxData
<1>4. Cards!Sent(raw) = raw
        \/ \E owner \in {Foreign, Broken} : Cards!Sent(raw) = [raw EXCEPT !.owner = owner]
  BY DEF Cards!Sent
<1>5. container.length <= 24 => Cards!Sent(raw) = raw
  BY <1>3 DEF Cards!Sent
<1> QED
  BY <1>4, <1>5 DEF Made

\* The view that follows a press.
LEMMA ViewAfterIs ==
  ASSUME NEW b, b.head \in Heads, NEW view \in Cards!ViewAfter(b)
  PROVE  view \in ViewSet /\ (view \in AdminViews => b.head \in Cards!Protected)
<1>1. CASE b.head \in {"containers_page", "back_to_containers", "get_full"}
  BY <1>1 DEF Cards!ViewAfter, Cards!FullView, Cards!Protected, Cards!Extras, Cards!Actions,
              ViewSet, AdminViews
<1>2. CASE b.head \in Cards!Protected
  BY <1>2 DEF Cards!ViewAfter, Cards!ExtraView, Cards!LogsView, Cards!ActionView, Cards!Protected,
              Cards!Extras, Cards!Actions, ViewSet, AdminViews
<1>3. CASE b.head \in SystemHeadSet /\ b.head \notin OtherHeads
  <2>1. view = Cards!SystemView[b.head]
    BY <1>3 DEF Cards!ViewAfter, OtherHeads, Cards!Protected
  <2>2. view \in SystemViewSet
    BY <1>3, <2>1, SystemViewIs
  <2> QED
    BY <2>2 DEF ViewSet, AdminViews, SystemViewSet
<1> QED
  BY <1>1, <1>2, <1>3 DEF Heads, OtherHeads

LEMMA CardsInvInit == ScreenConstants /\ Cards!ScreensInit => CardsInv
<1> SUFFICES ASSUME ScreenConstants, Cards!ScreensInit PROVE CardsInv
  OBVIOUS
<1>1. Names \subseteq [length : Nat, upper : BOOLEAN]
  BY DEF ScreenConstants, Cards!ScreensAssumption
<1>2. PICK n \in Names, s \in {"running", "exited"} :
        container = [length |-> n.length, upper |-> n.upper, state |-> s]
  BY DEF Cards!ScreensInit
<1>3. DOMAIN container = {"length", "upper", "state"} /\ container.length \in Nat
  BY <1>1, <1>2
<1>4. PICK v \in Cards!Sections \cup {"gone"} :
        card = [view |-> v, owner |-> NoOwner, state |-> "none"]
  BY DEF Cards!ScreensInit
<1>5. v \in ViewSet /\ v \notin AdminViews
  BY DEF Cards!Sections, ViewSet, SystemViewSet, AdminViews
<1> QED
  BY <1>3, <1>4, <1>5 DEF CardsInv

LEMMA CardsInvNext == CardsInv /\ [Cards!ScreensNext]_cardVars => CardsInv'
<1> SUFFICES ASSUME CardsInv, [Cards!ScreensNext]_cardVars PROVE CardsInv'
  OBVIOUS
<1> DEFINE Stays == DOMAIN container' = {"length", "upper", "state"} /\ container'.length \in Nat
           Card(c) == /\ DOMAIN c = {"view", "owner", "state"} /\ c.view \in ViewSet
                      /\ c.view \in AdminViews => c.owner \in Admins \cup {NoOwner}
<1>1. (container' = container => Stays) /\ Card(card)
  BY DEF CardsInv
<1>2. ASSUME NEW user \in Users, NEW view \in Cards!Sections \cup {"list"},
             Cards!OpenScreen(user, view)
      PROVE  CardsInv'
  <2>1. card' = [view |-> view, owner |-> user, state |-> container.state]
        /\ container' = container
    BY <1>2 DEF Cards!OpenScreen
  <2>2. view \in ViewSet /\ view \notin AdminViews
    BY DEF Cards!Sections, ViewSet, SystemViewSet, AdminViews
  <2> QED
    BY <1>1, <2>1, <2>2 DEF CardsInv
<1>3. ASSUME NEW user \in Users, NEW b \in Cards!Keyboard, Cards!AskLogin(user, b)
      PROVE  CardsInv'
  <2>1. card' = [card EXCEPT !.view = "gone"] /\ container' = container
    BY <1>3 DEF Cards!AskLogin
  <2>2. "gone" \in ViewSet /\ "gone" \notin AdminViews
    BY DEF ViewSet, AdminViews
  <2> QED
    BY <1>1, <2>1, <2>2 DEF CardsInv
<1>4. ASSUME NEW user \in Users, NEW b \in Cards!Keyboard, Cards!Answer(user, b)
      PROVE  CardsInv'
  <2>1. b.head \in Heads
    BY KeyboardIsMade, SentKeeps DEF Made
  <2>2. Stays
    <3>1. CASE container' = container
      BY <1>1, <3>1
    <3>2. CASE Cards!Act(b.head)
      BY <3>2 DEF Cards!Act, CardsInv
    <3> QED
      BY <1>4, <3>1, <3>2 DEF Cards!Answer
  <2>3. CASE card' = card
    BY <1>1, <2>2, <2>3 DEF CardsInv
  <2>4. ASSUME NEW view \in Cards!ViewAfter(b),
               card' = [view |-> view, owner |-> Cards!NewOwner(user, b),
                        state |-> Cards!StateShown(b)]
        PROVE  CardsInv'
    <3>1. view \in ViewSet /\ (view \in AdminViews => b.head \in Cards!Protected)
      BY <2>1, ViewAfterIs
    <3>2. ASSUME b.head \in Cards!Protected
          PROVE  Cards!NewOwner(user, b) \in Admins \cup {NoOwner}
      <4>1. b.head # "back_to_containers"
        BY <3>2 DEF Cards!Protected, Cards!Extras, Cards!Actions
      <4>2. Cards!NewOwner(user, b) = b.owner
        BY <4>1 DEF Cards!NewOwner
      <4> QED
        BY <1>4, <3>2, <4>2 DEF Cards!Answer, Cards!Authorised
    <3>3. Card(card')
      BY <2>4, <3>1, <3>2
    <3> QED
      BY <2>2, <3>3 DEF CardsInv
  <2> QED
    BY <1>4, <2>3, <2>4 DEF Cards!Answer
<1>5. CASE UNCHANGED <<card, container>>
  BY <1>5 DEF CardsInv
<1>6. CASE Cards!ContainerChanges
  BY <1>6 DEF Cards!ContainerChanges, CardsInv
<1> QED
  BY <1>2, <1>3, <1>4, <1>5, <1>6
     DEF Cards!ScreensNext, Cards!Refuse, Cards!LogInOrOut, cardVars

\* The owner's buttons work, for every container whose name is short and in
\* lower case.
LEMMA OwnersButtons ==
  ASSUME ScreenConstants, CardsInv PROVE Cards!OwnersButtonsWork
<1> SUFFICES ASSUME container.length <= 24, ~container.upper, card.owner # NoOwner,
                    NEW b \in Cards!Keyboard
             PROVE  /\ b.owner \in {card.owner, NoOwner}
                    /\ b.head \in Cards!Protected => card.owner \in Admins
                    /\ b.by # "nothing" /\ container.state # "none" => Cards!Found(b.by)
  BY DEF Cards!OwnersButtonsWork
<1>1. Made(b)
  BY KeyboardIsMade, SentKeeps
<1>2. b.head \in Cards!Protected => card.owner \in Admins
  <2>1. b.head # "back_to_containers" \/ b.head \notin Cards!Protected
    BY DEF Cards!Protected, Cards!Extras, Cards!Actions
  <2> QED
    BY <1>1, <2>1 DEF Made
<1>3. container.state # "none" => Cards!Found(b.by)
  BY DEF Cards!Found
<1> QED
  BY <1>1, <1>2, <1>3 DEF Made

\* A button that is accepted from a user belongs to nobody but him, and one
\* that belongs to nobody leads back from the logs.
LEMMA StepStaysOwned ==
  ASSUME ScreenConstants, CardsInv, [Cards!ScreensNext]_cardVars, card.owner \in Users,
         card' # card, card'.view # "gone",
         last'.head \notin {"open", "back_to_containers"}
  PROVE  last'.user = card.owner /\ card'.owner = card.owner
<1>0. NoOwner \notin Users /\ {Foreign, Broken} \cap (Users \cup {NoOwner}) = {}
  BY DEF ScreenConstants, Cards!ScreensAssumption
<1>1. ASSUME NEW user \in Users, NEW view, Cards!OpenScreen(user, view) PROVE FALSE
  BY <1>1 DEF Cards!OpenScreen, Cards!Did
<1>2. ASSUME NEW user \in Users, NEW b \in Cards!Keyboard, Cards!AskLogin(user, b) PROVE FALSE
  BY <1>2 DEF Cards!AskLogin, CardsInv
<1>3. ASSUME NEW user \in Users, NEW b \in Cards!Keyboard, Cards!Answer(user, b)
      PROVE  last'.user = card.owner /\ card'.owner = card.owner
  <2>1. PICK raw : Made(raw) /\ b = Cards!Sent(raw)
    BY KeyboardIsMade
  <2>2. b.head = raw.head /\ b.owner \in {raw.owner, Foreign, Broken}
    BY <2>1, SentKeeps
  <2>3. b.head # "back_to_containers" /\ last'.user = user
    BY <1>3 DEF Cards!Answer, Cards!Did
  <2>4. raw.owner = card.owner
    BY <1>0, <2>1, <2>2, <2>3 DEF Made
  <2>5. b.owner = NoOwner \/ b.owner = user
    BY <1>3 DEF Cards!Answer, Cards!Authorised
  <2>6. b.owner = card.owner /\ user = card.owner
    BY <1>0, <2>2, <2>4, <2>5
  <2>7. card'.owner = b.owner
    <3>1. PICK view \in Cards!ViewAfter(b) :
            card' = [view |-> view, owner |-> Cards!NewOwner(user, b),
                     state |-> Cards!StateShown(b)]
      BY <1>3 DEF Cards!Answer
    <3> QED
      BY <2>3, <3>1 DEF Cards!NewOwner
  <2> QED
    BY <2>3, <2>6, <2>7
<1>4. card' # card
  OBVIOUS
<1> QED
  BY <1>1, <1>2, <1>3, <1>4
     DEF Cards!ScreensNext, Cards!Refuse, Cards!LogInOrOut, Cards!ContainerChanges, cardVars

\* A screen in a group stays its owner's, for every set of users and names.
THEOREM ScreensKeepOwners == Spec => ScreensStayOwned
<1> DEFINE Body == card.owner \in Users /\ card' # card /\ card'.view # "gone"
                     /\ last'.head \notin {"open", "back_to_containers"}
                     => last'.user = card.owner /\ card'.owner = card.owner
<1>1. ScreenConstants /\ CardsInv /\ [Cards!ScreensNext]_cardVars => [Body]_(Cards!screenVars)
  BY StepStaysOwned DEF cardVars, Cards!screenVars
<1>2. Spec => [][Body]_(Cards!screenVars)
  BY <1>1, PartsInit, PartsNext, CardsInvInit, CardsInvNext, ScreenConstants, PTL DEF Spec
<1> QED
  BY <1>2 DEF ScreensStayOwned, Cards!ScreensStayOwned

----------------------------------------------------------------------------
(* The list of images.                                                      *)

\* A list that was begun after the images last changed is what there is.
LoadOK(p) ==
    /\ DOMAIN p = {"at", "age", "list", "index", "name", "settled"} /\ p.age \in 0 .. ListTime
    /\ p.at = "storing" /\ p.age < quiet => p.list = docker
    /\ p.settled => /\ quiet = ListTtl /\ p.index \in DOMAIN docker
                    /\ p.name = docker[p.index]

CacheOK ==
    /\ DOMAIN cache = {"list", "age"} /\ cache.age \in 0 .. ListTtl
    /\ cache.age < quiet => cache.list = docker

\* Buttons are settled when every list that is still served is such a one.
ShownOK ==
    /\ ~mistaken /\ DOMAIN buttons = {"list", "settled"}
    /\ buttons.settled => quiet = ListTtl /\ buttons.list = docker

ImagesInv ==
    /\ quiet \in 0 .. ListTtl /\ CacheOK /\ ShownOK
    /\ DOMAIN loader = Loaders /\ \A h \in Loaders : LoadOK(loader[h])

LEMMA ListTimes ==
  ASSUME ScreenConstants PROVE ListTtl \in Nat \ {0} /\ ListTime \in Nat /\ ListTime < ListTtl
BY DEF ScreenConstants, Images!ImageConstants

LEMMA NoLoadOK == ScreenConstants => LoadOK(Images!NoLoad)
BY ListTimes DEF LoadOK, Images!NoLoad

LEMMA ImagesInvInit == ScreenConstants /\ Images!ImagesInit => ImagesInv
BY ListTimes, NoLoadOK DEF Images!ImagesInit, ImagesInv, CacheOK, ShownOK, Images!NoList

\* Serving a list that is what there is, if nothing changed for long.
LEMMA ServeIsRight ==
  ASSUME ShownOK, NEW list, NEW r, LoadOK(r), quiet = ListTtl => list = docker,
         Images!Serve(list, r), quiet' = quiet, docker' = docker
  PROVE  ShownOK'
<1>1. CASE r.index = 0
  <2>1. buttons' = [list |-> list, settled |-> quiet = ListTtl] /\ mistaken' = mistaken
    BY <1>1 DEF Images!Serve
  <2>2. DOMAIN buttons' = {"list", "settled"}
        /\ (buttons'.settled => quiet = ListTtl /\ buttons'.list = list)
    BY <2>1
  <2>3. ~mistaken'
    BY <2>1 DEF ShownOK
  <2> QED
    BY <2>2, <2>3 DEF ShownOK
<1>2. CASE r.index # 0
  <2>1. buttons' = buttons
        /\ mistaken' = (\/ mistaken
                        \/ /\ r.settled
                           /\ r.index \notin DOMAIN list \/ list[r.index] # r.name)
    BY <1>2 DEF Images!Serve
  <2>2. r.settled => r.index \in DOMAIN list /\ list[r.index] = r.name
    BY DEF LoadOK
  <2>3. ~mistaken'
    BY <2>1, <2>2, Zenon DEF ShownOK
  <2> QED
    BY <2>1, <2>3 DEF ShownOK
<1> QED
  BY <1>1, <1>2

LEMMA ImagesInvNext ==
  ScreenConstants /\ ImagesInv /\ [Images!ImagesNext]_imageVars => ImagesInv'
<1> SUFFICES ASSUME ScreenConstants, ImagesInv, [Images!ImagesNext]_imageVars
             PROVE  ImagesInv'
  OBVIOUS
<1>0. ListTtl \in Nat \ {0} /\ ListTime \in Nat /\ ListTime < ListTtl
  BY ListTimes
<1>1. CASE UNCHANGED imageVars
  BY <1>1 DEF imageVars, ImagesInv, CacheOK, ShownOK, LoadOK
<1>2. ASSUME NEW h \in Loaders, NEW i \in 0 .. Len(buttons.list), Images!Load(h, i)
      PROVE  ImagesInv'
  <2> DEFINE p == Images!Request(i)
             name == IF i = 0 THEN "none" ELSE buttons.list[i]
  <2>1. i \in {0} \cup DOMAIN buttons.list /\ UNCHANGED <<docker, quiet, cache>>
    BY <1>2 DEF Images!Load
  <2>2. /\ DOMAIN p = {"at", "age", "list", "index", "name", "settled"}
        /\ p.at = "fetching" /\ p.age = 0 /\ p.index = i /\ p.name = name
    BY DEF Images!Request, Images!NoLoad
  <2>3. LoadOK(p)
    <3>1. p.settled => i # 0 /\ buttons.settled
      BY DEF Images!Request, Images!NoLoad
    <3>2. p.settled => /\ quiet = ListTtl /\ p.index \in DOMAIN docker
                       /\ p.name = docker[p.index]
      BY <2>1, <2>2, <3>1 DEF ImagesInv, ShownOK
    <3> QED
      BY <1>0, <2>2, <3>2 DEF LoadOK
  <2> HIDE DEF p, name
  <2>4. CASE cache.age < ListTtl
    <3>1. Images!Serve(cache.list, p) /\ loader' = loader
      BY <1>2, <2>4 DEF Images!Load, p
    <3>2. quiet = ListTtl => cache.list = docker
      BY <2>4 DEF ImagesInv, CacheOK
    <3>3. ShownOK'
      BY <2>1, <2>3, <3>1, <3>2, ServeIsRight DEF ImagesInv
    <3> QED
      BY <2>1, <3>1, <3>3 DEF ImagesInv, CacheOK, LoadOK
  <2>5. CASE ~(cache.age < ListTtl)
    <3>1. loader' = [loader EXCEPT ![h] = p] /\ UNCHANGED <<buttons, mistaken>>
      BY <1>2, <2>5 DEF Images!Load, p
    <3>2. \A g \in Loaders : LoadOK(loader'[g])
      BY <2>3, <3>1 DEF ImagesInv
    <3> QED
      BY <2>1, <3>1, <3>2 DEF ImagesInv, CacheOK, ShownOK, LoadOK
  <2> QED
    BY <2>4, <2>5
<1>3. ASSUME NEW h \in Loaders, Images!Answer(h)
      PROVE  ImagesInv'
  <2> DEFINE p == [loader[h] EXCEPT !.at = "storing", !.list = docker]
  <2>1. UNCHANGED <<docker, quiet, cache, buttons, mistaken>>
        /\ (loader' = [loader EXCEPT ![h] = p] \/ loader' = [loader EXCEPT ![h] = Images!NoLoad])
    BY <1>3 DEF Images!Answer
  <2>2. LoadOK(p)
    BY DEF ImagesInv, LoadOK
  <2> HIDE DEF p
  <2>3. \A g \in Loaders : LoadOK(loader'[g])
    BY <2>1, <2>2, NoLoadOK DEF ImagesInv
  <2> QED
    BY <2>1, <2>3 DEF ImagesInv, CacheOK, ShownOK, LoadOK
<1>4. ASSUME NEW h \in Loaders, Images!Store(h)
      PROVE  ImagesInv'
  <2>1. /\ cache' = [list |-> loader[h].list, age |-> loader[h].age]
        /\ Images!Serve(loader[h].list, loader[h]) /\ loader[h].at = "storing"
        /\ loader' = [loader EXCEPT ![h] = Images!NoLoad] /\ UNCHANGED <<docker, quiet>>
    BY <1>4 DEF Images!Store
  <2>2. LoadOK(loader[h]) /\ loader[h].age \in Nat /\ loader[h].age < ListTtl
    BY <1>0 DEF ImagesInv, LoadOK
  <2>3. loader[h].age < quiet => loader[h].list = docker
    BY <2>1, <2>2 DEF LoadOK
  <2>4. ShownOK'
    BY <2>1, <2>2, <2>3, ServeIsRight DEF ImagesInv
  <2>5. CacheOK'
    BY <1>0, <2>1, <2>2, <2>3 DEF CacheOK
  <2>6. \A g \in Loaders : LoadOK(loader'[g])
    BY <2>1, NoLoadOK DEF ImagesInv
  <2> QED
    BY <2>1, <2>4, <2>5, <2>6 DEF ImagesInv, LoadOK
<1>5. CASE Images!ImagesTick
  <2>1. /\ loader' = [h \in Loaders |-> IF loader[h].at = "idle" THEN Images!NoLoad
                                        ELSE [loader[h] EXCEPT !.age = loader[h].age + 1]]
        /\ cache' = [cache EXCEPT !.age = Images!Later(cache.age)]
        /\ quiet' = Images!Later(quiet) /\ UNCHANGED <<docker, buttons, mistaken>>
        /\ \A h \in Loaders : loader[h].at # "idle" => loader[h].age < ListTime
    BY <1>5 DEF Images!ImagesTick
  <2>2. \A age \in 0 .. ListTtl :
          Images!Later(age) \in 0 .. ListTtl
          /\ Images!Later(age) = IF age < ListTtl THEN age + 1 ELSE age
    BY <1>0 DEF Images!Later
  <2>3. quiet \in 0 .. ListTtl /\ quiet' \in 0 .. ListTtl
        /\ quiet' = IF quiet < ListTtl THEN quiet + 1 ELSE quiet
    BY <2>1, <2>2 DEF ImagesInv
  <2>4. CacheOK'
    <3>1. cache.age \in 0 .. ListTtl /\ cache'.age \in 0 .. ListTtl
          /\ cache'.age = IF cache.age < ListTtl THEN cache.age + 1 ELSE cache.age
      BY <2>1, <2>2 DEF ImagesInv, CacheOK
    <3>2. cache'.age < quiet' => cache.age < quiet
      BY <1>0, <2>3, <3>1
    <3>3. DOMAIN cache' = {"list", "age"} /\ cache'.list = cache.list
      BY <2>1 DEF ImagesInv, CacheOK
    <3> QED
      BY <2>1, <3>1, <3>2, <3>3 DEF ImagesInv, CacheOK
  <2>5. ShownOK'
    BY <1>0, <2>1, <2>3 DEF ImagesInv, ShownOK
  <2>6. ASSUME NEW h \in Loaders PROVE LoadOK(loader[h])'
    <3>1. CASE loader[h].at = "idle"
      <4>1. loader'[h] = Images!NoLoad
        BY <2>1, <3>1
      <4> QED
        BY <1>0, <4>1 DEF LoadOK, Images!NoLoad
    <3>2. CASE loader[h].at # "idle"
      <4> DEFINE p == [loader[h] EXCEPT !.age = loader[h].age + 1]
      <4>1. loader'[h] = p
        BY <2>1, <3>2
      <4>2. LoadOK(loader[h]) /\ loader[h].age < ListTime /\ loader[h].age \in Nat
        BY <1>0, <2>1, <3>2 DEF ImagesInv, LoadOK
      <4>3. /\ DOMAIN p = {"at", "age", "list", "index", "name", "settled"}
            /\ p.age = loader[h].age + 1 /\ p.at = loader[h].at /\ p.list = loader[h].list
            /\ p.index = loader[h].index /\ p.name = loader[h].name
            /\ p.settled = loader[h].settled
        BY <4>2 DEF LoadOK
      <4>4. loader[h].age + 1 < quiet' => loader[h].age < quiet
        BY <1>0, <2>3, <4>2
      <4>5. loader[h].age + 1 \in 0 .. ListTime
        BY <1>0, <4>2
      <4>6. quiet = ListTtl => quiet' = ListTtl
        BY <1>0, <2>3
      <4> HIDE DEF p
      <4> QED
        BY <2>1, <4>1, <4>2, <4>3, <4>4, <4>5, <4>6 DEF LoadOK
    <3> QED
      BY <3>1, <3>2
  <2> QED
    BY <2>1, <2>3, <2>4, <2>5, <2>6 DEF ImagesInv, LoadOK
<1>6. CASE Images!ImagesChange
  <2>1. /\ quiet' = 0 /\ buttons' = [buttons EXCEPT !.settled = FALSE]
        /\ loader' = [h \in Loaders |-> [loader[h] EXCEPT !.settled = FALSE]]
        /\ UNCHANGED <<cache, mistaken>>
    BY <1>6 DEF Images!ImagesChange, ImagesInv
  <2>2. CacheOK' /\ ShownOK'
    BY <1>0, <2>1 DEF ImagesInv, CacheOK, ShownOK
  <2>3. ASSUME NEW h \in Loaders PROVE LoadOK(loader[h])'
    <3> DEFINE p == [loader[h] EXCEPT !.settled = FALSE]
    <3>1. loader'[h] = p
      BY <2>1
    <3>2. /\ DOMAIN p = {"at", "age", "list", "index", "name", "settled"}
          /\ p.age \in 0 .. ListTime /\ ~p.settled
      BY DEF ImagesInv, LoadOK
    <3>3. ~(p.age < quiet')
      BY <1>0, <2>1, <3>2
    <3> HIDE DEF p
    <3> QED
      BY <3>1, <3>2, <3>3 DEF LoadOK
  <2> QED
    BY <1>0, <2>1, <2>2, <2>3 DEF ImagesInv, LoadOK
<1> QED
  BY <1>1, <1>2, <1>3, <1>4, <1>5, <1>6 DEF Images!ImagesNext

----------------------------------------------------------------------------
(* The buttons of the viewer of logs.                                       *)
Active(h, m) == press[h].at # "idle" /\ press[h].screen = m

Ids == 0 .. (nextId - 1)

\* A session belongs to one message: to its buttons, or to presses of them.
SessionsApart ==
    /\ \A m, n \in LogScreens :
         m # n /\ screen[m].session = screen[n].session => screen[m].session = 0
    /\ \A h \in LogHandlers, n \in LogScreens :
         press[h].at # "idle" /\ press[h].screen # n /\ press[h].session = screen[n].session
           => press[h].session = 0
    /\ \A g, h \in LogHandlers :
         /\ press[g].at # "idle" /\ press[h].at # "idle" /\ press[g].screen # press[h].screen
         /\ press[g].session = press[h].session
         => press[g].session = 0

\* The buttons of a message that is not disturbed lose their session only to
\* a press that is about to give them another.
Undisturbed(m) ==
    /\ \A g, h \in LogHandlers : Active(g, m) /\ Active(h, m) => g = h
    /\ \A h \in LogHandlers : Active(h, m) =>
         IF press[h].at = "editing" THEN press[h].session \notin dropped
         ELSE press[h].session \in {0, screen[m].session}
    /\ (\A h \in LogHandlers : Active(h, m) => press[h].at \notin {"creating", "editing"})
         => screen[m].session \notin dropped

SessionsInv ==
    /\ nextId \in Nat \ {0} /\ DOMAIN store \subseteq Ids \ {0} /\ dropped \subseteq Ids \ {0}
    /\ \A m \in LogScreens : screen[m].session \in Ids
    /\ \A h \in LogHandlers : press[h].at # "idle" => press[h].session \in Ids
    /\ SessionsApart
    /\ \A m \in LogScreens \ disturbed : Undisturbed(m)

LEMMA SessionsInvInit == Logs!LogsInit => SessionsInv
<1> SUFFICES ASSUME Logs!LogsInit PROVE SessionsInv
  OBVIOUS
<1>1. /\ nextId = 1 /\ DOMAIN store = {} /\ dropped = {}
      /\ \A m \in LogScreens : screen[m].session = 0
      /\ \A h \in LogHandlers : press[h].at = "idle"
  BY DEF Logs!LogsInit, Logs!NoPress, Logs!NoSession
<1> QED
  BY <1>1 DEF SessionsInv, SessionsApart, Undisturbed, Active, Ids

\* A thread goes on with its press, or is done with it.
LEMMA PressGoesOn ==
  ASSUME LogsInv, SessionsInv, NEW h \in LogHandlers, press[h].at # "idle", NEW p,
         press' = [press EXCEPT ![h] = p],
         p.at # "idle" => p.screen = press[h].screen /\ p.session = press[h].session,
         press[h].at \in {"creating", "editing"} =>
           p.at = "idle" /\ press[h].screen \in disturbed',
         screen' = screen, nextId' = nextId, dropped' = dropped,
         DOMAIN store' \subseteq DOMAIN store, disturbed \subseteq disturbed'
  PROVE  SessionsInv'
<1>1. press'[h] = p /\ \A g \in LogHandlers \ {h} : press'[g] = press[g]
  BY DEF LogsInv
<1>2. \A g \in LogHandlers : press'[g].at # "idle" =>
        /\ press[g].at # "idle" /\ press'[g].screen = press[g].screen
        /\ press'[g].session = press[g].session
  BY <1>1
<1>3. SessionsApart'
  BY <1>2 DEF SessionsInv, SessionsApart
<1>4. ASSUME NEW m \in LogScreens, m \notin disturbed'
      PROVE  Undisturbed(m)'
  <2>1. Undisturbed(m) /\ 0 \notin dropped
    BY <1>4 DEF SessionsInv
  <2>2. \A g \in LogHandlers : Active(g, m)' => Active(g, m)
    BY <1>2 DEF Active
  <2>3. CASE press[h].screen # m
    <3>1. \A g \in LogHandlers : Active(g, m) => Active(g, m)' /\ press'[g] = press[g]
      BY <1>1, <2>3 DEF Active
    <3> QED
      BY <2>1, <2>2, <3>1 DEF Undisturbed
  <2>4. CASE press[h].screen = m
    <3>1. Active(h, m) /\ press[h].at \notin {"creating", "editing"}
      BY <1>4, <2>4 DEF Active
    <3>2. \A g \in LogHandlers : Active(g, m) => g = h
      BY <2>1, <3>1 DEF Undisturbed
    <3>3. screen[m].session \notin dropped /\ press[h].session \in {0, screen[m].session}
      BY <2>1, <3>1, <3>2 DEF Undisturbed
    <3>4. \A g \in LogHandlers : Active(g, m)' => g = h /\ press'[g].session = press[h].session
      BY <1>2, <2>2, <3>2 DEF Active
    <3> QED
      BY <2>1, <3>3, <3>4 DEF Undisturbed
  <2> QED
    BY <2>3, <2>4
<1> QED
  BY <1>2, <1>3, <1>4 DEF SessionsInv, Ids

LEMMA SessionsInvPress ==
  ASSUME LogsInv, SessionsInv, NEW h \in LogHandlers, NEW u \in Viewers, NEW m \in LogScreens,
         NEW a, Logs!Press(h, u, m, a)
  PROVE  SessionsInv'
<1> DEFINE p == [at |-> "checking", user |-> u, screen |-> m, action |-> a,
                 session |-> IF a = "open" THEN Logs!NoSession ELSE screen[m].session,
                 logsOf |-> 0]
<1>1. /\ press[h].at = "idle" /\ press' = [press EXCEPT ![h] = p]
      /\ UNCHANGED <<store, nextId, screen, dropped>>
      /\ disturbed' = IF \E g \in LogHandlers : press[g].at # "idle" /\ press[g].screen = m
                        THEN disturbed \cup {m} ELSE disturbed
  BY DEF Logs!Press
<1>2. p.at = "checking" /\ p.screen = m /\ p.session \in {0, screen[m].session}
  BY DEF Logs!NoSession
<1> HIDE DEF p
<1>3. press'[h] = p /\ \A g \in LogHandlers \ {h} : press'[g] = press[g]
  BY <1>1 DEF LogsInv
<1>4. SessionsApart'
  BY <1>1, <1>2, <1>3 DEF SessionsInv, SessionsApart
<1>5. ASSUME NEW n \in LogScreens, n \notin disturbed'
      PROVE  Undisturbed(n)'
  <2>1. Undisturbed(n) /\ 0 \notin dropped
    BY <1>1, <1>5 DEF SessionsInv
  <2>2. CASE n # m
    <3>1. \A g \in LogHandlers : /\ Active(g, n)' <=> Active(g, n)
                                 /\ Active(g, n) => press'[g] = press[g]
      BY <1>1, <1>2, <1>3, <2>2 DEF Active
    <3> QED
      BY <1>1, <2>1, <3>1 DEF Undisturbed
  <2>3. CASE n = m
    <3>1. \A g \in LogHandlers : ~Active(g, m)
      BY <1>1, <1>5, <2>3 DEF Active
    <3>2. \A g \in LogHandlers : Active(g, m)' => g = h
      BY <1>3, <3>1 DEF Active
    <3>3. screen[m].session \notin dropped
      BY <2>1, <2>3, <3>1 DEF Undisturbed
    <3> QED
      BY <1>1, <1>2, <1>3, <2>1, <2>3, <3>2, <3>3 DEF Undisturbed
  <2> QED
    BY <2>2, <2>3
<1> QED
  BY <1>1, <1>2, <1>3, <1>4, <1>5 DEF SessionsInv, Ids

\* The session a refresh drops was the message's.
LEMMA SessionsInvRemove ==
  ASSUME LogsInv, SessionsInv, NEW h \in LogHandlers, Logs!Remove(h)
  PROVE  SessionsInv'
<1> DEFINE p == [press[h] EXCEPT !.at = "creating"]
<1>1. /\ press[h].at = "removing" /\ press' = [press EXCEPT ![h] = p]
      /\ DOMAIN store' \subseteq DOMAIN store
      /\ dropped' = dropped \cup ({press[h].session} \cap DOMAIN store)
      /\ UNCHANGED <<screen, disturbed, nextId>>
  BY DEF Logs!Remove, Logs!GoTo, Logs!Without
<1>2. p.at = "creating" /\ p.screen = press[h].screen /\ p.session = press[h].session
  BY DEF LogsInv, PressOK
<1> HIDE DEF p
<1>3. press'[h] = p /\ \A g \in LogHandlers \ {h} : press'[g] = press[g]
  BY <1>1 DEF LogsInv
<1>4. dropped' \subseteq Ids \ {0}
  BY <1>1 DEF SessionsInv
<1>5. \A g \in LogHandlers : press'[g].at # "idle" =>
        /\ press[g].at # "idle" /\ press'[g].screen = press[g].screen
        /\ press'[g].session = press[g].session
  BY <1>1, <1>2, <1>3
<1>6. SessionsApart'
  BY <1>1, <1>5 DEF SessionsInv, SessionsApart
<1>7. ASSUME NEW m \in LogScreens, m \notin disturbed'
      PROVE  Undisturbed(m)'
  <2>1. Undisturbed(m) /\ 0 \notin dropped'
    BY <1>1, <1>4, <1>7 DEF SessionsInv
  <2>2. \A g \in LogHandlers : Active(g, m)' <=> Active(g, m)
    BY <1>1, <1>2, <1>3 DEF Active
  <2>3. CASE press[h].screen # m
    <3>1. \A g \in LogHandlers : Active(g, m) => press'[g] = press[g]
      BY <1>3, <2>3 DEF Active
    <3>2. screen[m].session \in dropped' => screen[m].session \in dropped
      BY <1>1, <2>1, <2>3 DEF SessionsInv, SessionsApart
    <3>3. \A g \in LogHandlers :
            Active(g, m) /\ press[g].session \in dropped' => press[g].session \in dropped
      BY <1>1, <2>1, <2>3 DEF SessionsInv, SessionsApart, Active
    <3> QED
      BY <1>1, <2>1, <2>2, <3>1, <3>2, <3>3 DEF Undisturbed
  <2>4. CASE press[h].screen = m
    <3>1. Active(h, m) /\ \A g \in LogHandlers : Active(g, m) => g = h
      BY <1>1, <2>1, <2>4 DEF Active, Undisturbed
    <3>2. /\ press'[h].at = "creating" /\ screen'[m] = screen[m]
          /\ press'[h].session \in {0, screen[m].session}
      BY <1>1, <1>2, <1>3, <2>1, <3>1 DEF Undisturbed
    <3> QED
      BY <2>2, <3>1, <3>2 DEF Undisturbed
  <2> QED
    BY <2>3, <2>4
<1>8. \A g \in LogHandlers : press'[g].at # "idle" => press'[g].session \in Ids'
  BY <1>1, <1>5 DEF SessionsInv, Ids
<1> QED
  BY <1>1, <1>4, <1>6, <1>7, <1>8 DEF SessionsInv, Ids

\* A new session is nobody's yet, and was never dropped.
LEMMA SessionsInvCreate ==
  ASSUME LogsInv, SessionsInv, NEW h \in LogHandlers, Logs!Create(h)
  PROVE  SessionsInv'
<1> DEFINE p == [press[h] EXCEPT !.at = "editing", !.session = nextId]
<1>1. /\ press[h].at = "creating" /\ press' = [press EXCEPT ![h] = p] /\ nextId' = nextId + 1
      /\ DOMAIN store' \subseteq DOMAIN store \cup {nextId}
      /\ UNCHANGED <<screen, disturbed, dropped>>
  BY DEF Logs!Create
<1>2. p.at = "editing" /\ p.screen = press[h].screen /\ p.session = nextId
  BY DEF LogsInv, PressOK
<1> HIDE DEF p
<1>3. press'[h] = p /\ \A g \in LogHandlers \ {h} : press'[g] = press[g]
  BY <1>1 DEF LogsInv
<1>4. nextId \in Nat \ {0} /\ nextId \notin Ids /\ Ids' = Ids \cup {nextId}
  BY <1>1 DEF SessionsInv, Ids
<1>5. dropped' \subseteq Ids \ {0}
  BY <1>1 DEF SessionsInv
<1>6. SessionsApart'
  <2>1. \A n \in LogScreens : screen[n].session # nextId
    BY <1>4 DEF SessionsInv
  <2>2. \A g \in LogHandlers : press[g].at # "idle" => press[g].session # nextId
    BY <1>4 DEF SessionsInv
  <2> QED
    BY <1>1, <1>2, <1>3, <2>1, <2>2 DEF SessionsInv, SessionsApart
<1>7. ASSUME NEW m \in LogScreens, m \notin disturbed'
      PROVE  Undisturbed(m)'
  <2>1. Undisturbed(m)
    BY <1>1, <1>7 DEF SessionsInv
  <2>2. \A g \in LogHandlers : Active(g, m)' <=> Active(g, m)
    BY <1>1, <1>2, <1>3 DEF Active
  <2>3. CASE press[h].screen # m
    <3>1. \A g \in LogHandlers : Active(g, m) => press'[g] = press[g]
      BY <1>3, <2>3 DEF Active
    <3> QED
      BY <1>1, <2>1, <2>2, <3>1 DEF Undisturbed
  <2>4. CASE press[h].screen = m
    <3>1. Active(h, m) /\ \A g \in LogHandlers : Active(g, m) => g = h
      BY <1>1, <2>1, <2>4 DEF Active, Undisturbed
    <3>2. press'[h].at = "editing" /\ press'[h].session \notin dropped'
      BY <1>1, <1>2, <1>3, <1>4, <1>5
    <3> QED
      BY <2>2, <3>1, <3>2 DEF Undisturbed
  <2> QED
    BY <2>3, <2>4
<1>8. \A g \in LogHandlers : press'[g].at # "idle" => press'[g].session \in Ids'
  BY <1>1, <1>2, <1>3, <1>4 DEF SessionsInv
<1> QED
  BY <1>1, <1>4, <1>5, <1>6, <1>7, <1>8 DEF SessionsInv

\* The message has the session of the press.
LEMMA SessionsInvEdit ==
  ASSUME LogsInv, SessionsInv, NEW h \in LogHandlers, press[h].at = "editing",
         press' = [press EXCEPT ![h] = Logs!NoPress],
         screen' = [screen EXCEPT ![press[h].screen].session = press[h].session],
         UNCHANGED <<store, nextId, disturbed, dropped>>
  PROVE  SessionsInv'
<1>0. PICK m \in LogScreens : m = press[h].screen
  BY DEF LogsInv, PressOK
<1>1. press[h].session \in Ids
  BY DEF SessionsInv
<1>2. screen'[m].session = press[h].session
      /\ \A n \in LogScreens \ {m} : screen'[n] = screen[n]
  BY <1>0 DEF LogsInv
<1>3. press'[h].at = "idle" /\ \A g \in LogHandlers \ {h} : press'[g] = press[g]
  BY DEF LogsInv, Logs!NoPress
<1>4. SessionsApart'
  <2>1. ASSUME NEW n \in LogScreens, n # m, press[h].session = screen[n].session
        PROVE  press[h].session = 0
    BY <1>0, <2>1 DEF SessionsInv, SessionsApart
  <2>2. ASSUME NEW g \in LogHandlers, press[g].at # "idle", press[g].screen # m,
               press[g].session = press[h].session
        PROVE  press[g].session = 0
    BY <1>0, <2>2 DEF SessionsInv, SessionsApart
  <2>3. ASSUME NEW j \in LogScreens, NEW n \in LogScreens, j # n,
               screen'[j].session = screen'[n].session
        PROVE  screen'[j].session = 0
    BY <1>2, <2>1, <2>3 DEF SessionsInv, SessionsApart
  <2>4. ASSUME NEW g \in LogHandlers, NEW n \in LogScreens, press'[g].at # "idle",
               press'[g].screen # n, press'[g].session = screen'[n].session
        PROVE  press'[g].session = 0
    BY <1>2, <1>3, <2>2, <2>4 DEF SessionsInv, SessionsApart
  <2>5. ASSUME NEW f \in LogHandlers, NEW g \in LogHandlers, press'[f].at # "idle",
               press'[g].at # "idle", press'[f].screen # press'[g].screen,
               press'[f].session = press'[g].session
        PROVE  press'[f].session = 0
    BY <1>3, <2>5 DEF SessionsInv, SessionsApart
  <2> QED
    BY <2>3, <2>4, <2>5 DEF SessionsApart
<1>5. ASSUME NEW n \in LogScreens, n \notin disturbed
      PROVE  Undisturbed(n)'
  <2>1. Undisturbed(n)
    BY <1>5 DEF SessionsInv
  <2>2. CASE n # m
    <3>1. \A g \in LogHandlers : /\ Active(g, n)' <=> Active(g, n)
                                 /\ Active(g, n) => press'[g] = press[g]
      BY <1>0, <1>3, <2>2 DEF Active
    <3>2. dropped' = dropped /\ screen'[n] = screen[n]
      BY <1>2, <2>2
    <3>3. \A f, g \in LogHandlers : Active(f, n)' /\ Active(g, n)' => f = g
      BY <2>1, <3>1 DEF Undisturbed
    <3>4. \A g \in LogHandlers : Active(g, n)' =>
            IF press'[g].at = "editing" THEN press'[g].session \notin dropped'
            ELSE press'[g].session \in {0, screen'[n].session}
      BY <2>1, <3>1, <3>2 DEF Undisturbed
    <3>5. (\A g \in LogHandlers : Active(g, n)' => press'[g].at \notin {"creating", "editing"})
            => screen'[n].session \notin dropped'
      BY <2>1, <3>1, <3>2 DEF Undisturbed
    <3> QED
      BY <3>3, <3>4, <3>5 DEF Undisturbed
  <2>3. CASE n = m
    <3>1. Active(h, m)
      BY <1>0 DEF Active
    <3>2. \A g \in LogHandlers : Active(g, m) => g = h
      BY <2>1, <2>3, <3>1 DEF Undisturbed
    <3>3. \A g \in LogHandlers : ~Active(g, m)'
      BY <1>3, <3>2 DEF Active
    <3>4. press[h].session \notin dropped
      BY <2>1, <2>3, <3>1 DEF Undisturbed
    <3> QED
      BY <1>2, <2>3, <3>3, <3>4 DEF Undisturbed
  <2> QED
    BY <2>2, <2>3
<1>6. \A n \in LogScreens : screen'[n].session \in Ids
  BY <1>1, <1>2 DEF SessionsInv
<1> QED
  BY <1>3, <1>4, <1>5, <1>6 DEF SessionsInv, Ids

LEMMA SessionsInvNext ==
  LogsInv /\ SessionsInv /\ [Logs!LogsNext]_logsVars => SessionsInv'
<1> SUFFICES ASSUME LogsInv, SessionsInv, [Logs!LogsNext]_logsVars PROVE SessionsInv'
  OBVIOUS
<1> DEFINE Same == /\ screen' = screen /\ nextId' = nextId /\ dropped' = dropped
                   /\ disturbed' = disturbed /\ DOMAIN store' \subseteq DOMAIN store
<1>0. \A h \in LogHandlers : DOMAIN press[h] = {"at", "user", "screen", "action", "session", "logsOf"}
  BY DEF LogsInv, PressOK
<1>1. CASE press' = press /\ Same
  BY <1>1 DEF SessionsInv, SessionsApart, Undisturbed, Active, Ids
<1>2. ASSUME NEW h \in LogHandlers, NEW p, press' = [press EXCEPT ![h] = p], Same,
             press[h].at \notin {"idle", "creating", "editing"},
             p.at # "idle" => p.screen = press[h].screen /\ p.session = press[h].session
      PROVE  SessionsInv'
  BY <1>2, PressGoesOn
<1>3. ASSUME NEW h \in LogHandlers, Logs!Authorise(h)
      PROVE  SessionsInv'
  <2>1. press[h].at = "checking" /\ Same
    BY <1>3 DEF Logs!Authorise
  <2>2. \E p \in {Logs!NoPress, [press[h] EXCEPT !.at = "fetching"],
                  [press[h] EXCEPT !.at = "looking up"]} : press' = [press EXCEPT ![h] = p]
    BY <1>3 DEF Logs!Authorise, Logs!Done, Logs!GoTo
  <2> QED
    BY <1>0, <1>2, <2>1, <2>2 DEF Logs!NoPress
<1>4. ASSUME NEW h \in LogHandlers, Logs!LookUp(h)
      PROVE  SessionsInv'
  <2> DEFINE s == IF press[h].session \in DOMAIN store THEN store[press[h].session]
                  ELSE [user |-> 0, age |-> 0]
             at == CASE press[h].action = "nav" -> "editing"
                     [] press[h].action = "refresh" -> "fetching"
                     [] press[h].action = "file" -> "sending"
             p == [press[h] EXCEPT !.at = at, !.logsOf = s.user]
  <2>1. press[h].at = "looking up" /\ Same
    BY <1>4 DEF Logs!LookUp, Logs!Without
  <2>2. press' = [press EXCEPT ![h] = Logs!NoPress] \/ press' = [press EXCEPT ![h] = p]
    BY <1>4 DEF Logs!LookUp, Logs!Done
  <2>3. p.screen = press[h].screen /\ p.session = press[h].session
    BY <1>0
  <2> HIDE DEF p
  <2> QED
    BY <1>2, <2>1, <2>2, <2>3 DEF Logs!NoPress
<1>5. ASSUME NEW h \in LogHandlers, Logs!Fetch(h)
      PROVE  SessionsInv'
  <2> DEFINE p == [press[h] EXCEPT !.at = IF press[h].action = "refresh" THEN "removing"
                                                                         ELSE "creating",
                                   !.logsOf = screen[press[h].screen].owner]
  <2>1. press[h].at = "fetching" /\ Same
    BY <1>5 DEF Logs!Fetch
  <2>2. press' = [press EXCEPT ![h] = Logs!NoPress] \/ press' = [press EXCEPT ![h] = p]
    BY <1>5 DEF Logs!Fetch, Logs!Done
  <2>3. p.screen = press[h].screen /\ p.session = press[h].session
    BY <1>0
  <2> HIDE DEF p
  <2> QED
    BY <1>2, <2>1, <2>2, <2>3 DEF Logs!NoPress
<1>6. ASSUME NEW h \in LogHandlers, Logs!SendFile(h)
      PROVE  SessionsInv'
  <2>1. press[h].at = "sending" /\ Same /\ press' = [press EXCEPT ![h] = Logs!NoPress]
    BY <1>6 DEF Logs!SendFile, Logs!Done
  <2> QED
    BY <1>2, <2>1 DEF Logs!NoPress
<1>7. ASSUME NEW h \in LogHandlers, Logs!Edit(h)
      PROVE  SessionsInv'
  <2>1. /\ press[h].at = "editing" /\ press' = [press EXCEPT ![h] = Logs!NoPress]
        /\ UNCHANGED <<store, nextId, dropped>>
    BY <1>7 DEF Logs!Edit, Logs!Done
  <2>2. CASE screen' = [screen EXCEPT ![press[h].screen].session = press[h].session]
             /\ UNCHANGED disturbed
    BY <2>1, <2>2, SessionsInvEdit
  <2>3. CASE disturbed' = disturbed \cup {press[h].screen} /\ UNCHANGED screen
    <3>1. Logs!NoPress.at = "idle"
      BY DEF Logs!NoPress
    <3> QED
      BY <2>1, <2>3, <3>1, PressGoesOn
  <2> QED
    BY <1>7, <2>2, <2>3 DEF Logs!Edit
<1>8. CASE Logs!TtlTick
  BY <1>1, <1>8 DEF Logs!TtlTick
<1> QED
  BY <1>1, <1>3, <1>4, <1>5, <1>6, <1>7, <1>8, SessionsInvPress,
     SessionsInvRemove, SessionsInvCreate
     DEF Logs!LogsNext, Logs!HandlerStep, Logs!LoginChanges, logsVars

\* A button keeps doing what it was made for, for every number of users,
\* messages, threads and lists.
THEOREM ButtonsKeepMeaning == Spec => []ButtonsKeepTheirMeaning
<1>1. LogsInv /\ SessionsInv => Logs!ButtonsWork
  BY DEF LogsInv, SessionsInv, Logs!ButtonsWork, Undisturbed, Active
<1>2. ImagesInv => Images!PositionsHold
  BY DEF ImagesInv, ShownOK, Images!PositionsHold
<1>3. ScreenConstants /\ LogsInv /\ SessionsInv /\ ImagesInv /\ CardsInv
        => ButtonsKeepTheirMeaning
  BY <1>1, <1>2, OwnersButtons DEF ButtonsKeepTheirMeaning
<1> QED
  BY <1>3, PartsInit, PartsNext, LogsInvInit, LogsInvNext, SessionsInvInit, SessionsInvNext,
     ImagesInvInit, ImagesInvNext, CardsInvInit, CardsInvNext, ScreenConstants, PTL DEF Spec
----------------------------------------------------------------------------
(* Pages and tags.                                                          *)

LEMMA Division ==
  ASSUME NEW a \in Nat, NEW b \in Nat \ {0}
  PROVE  /\ a \div b \in Nat
         /\ (a \div b) * b <= a
         /\ a < (a \div b) * b + b
OBVIOUS

\* The page an item is on.
PageOf(i, size) == (i - 1) \div size + 1

LEMMA MoreTimes ==
  ASSUME NEW a \in Nat, NEW b \in Nat, a <= b, NEW c \in Nat
  PROVE  a * c <= b * c
OBVIOUS

\* There is such a page.
LEMMA PageExists ==
  ASSUME NEW n \in Nat, NEW size \in Nat \ {0}, NEW i \in 1 .. n
  PROVE  PageOf(i, size) \in 1 .. Pages!TotalPages(n, size)
<1> DEFINE q == (i - 1) \div size
           t == (n + size - 1) \div size
<1>1. q \in Nat /\ q * size <= i - 1 /\ i - 1 < q * size + size
  BY Division
<1>2. t \in Nat /\ t * size <= n + size - 1 /\ n + size - 1 < t * size + size
  BY Division
<1>3. q < t
  <2> SUFFICES ASSUME t <= q PROVE FALSE
    BY <1>1, <1>2
  <2>1. t * size <= q * size
    BY <1>1, <1>2, MoreTimes
  <2> QED
    BY <1>1, <1>2, <2>1
<1> QED
  BY <1>1, <1>2, <1>3 DEF PageOf, Pages!TotalPages, Pages!Larger

\* The items of a page are those between its bounds.
LEMMA PageBounds ==
  ASSUME NEW i \in Nat \ {0}, NEW size \in Nat \ {0}, NEW p \in Nat \ {0}
  PROVE  PageOf(i, size) = p <=> (p - 1) * size < i /\ i <= (p - 1) * size + size
<1> DEFINE q == (i - 1) \div size
<1>1. q \in Nat /\ q * size <= i - 1 /\ i - 1 < q * size + size
  BY Division
<1>2. (q + 1) * size = q * size + size /\ (p - 1 + 1) * size = (p - 1) * size + size
      /\ (p - 1) * size \in Nat /\ q * size \in Nat
  BY <1>1
<1>3. q + 1 <= p - 1 => (q + 1) * size <= (p - 1) * size
  BY <1>1, MoreTimes
<1>4. p - 1 + 1 <= q => (p - 1 + 1) * size <= q * size
  BY <1>1, MoreTimes
<1>5. q = p - 1 => q * size = (p - 1) * size
  OBVIOUS
<1> HIDE DEF q
<1>6. q + 1 = p <=> (p - 1) * size < i /\ i <= (p - 1) * size + size
  <2>1. CASE q + 1 <= p - 1
    BY <1>1, <1>2, <1>3, <2>1
  <2>2. CASE p <= q
    BY <1>1, <1>2, <1>4, <2>2
  <2>3. CASE q = p - 1
    BY <1>1, <1>2, <1>5, <2>3
  <2> QED
    BY <1>1, <2>1, <2>2, <2>3
<1> QED
  BY <1>6 DEF PageOf, q

\* A window is one page, with the items that belong to it.
LEMMA WindowOf ==
  ASSUME NEW Items, NEW items \in Seq(Items), NEW size \in Nat \ {0},
         NEW p \in 1 .. Pages!TotalPages(Len(items), size)
  PROVE  LET w == Pages!PageWindow(items, p, size)
         IN  /\ w.page = p
             /\ \A k \in DOMAIN w.items : w.items[k] = items[w.start + k]
             /\ \A i \in DOMAIN items : i - w.start \in DOMAIN w.items <=> PageOf(i, size) = p
<1> DEFINE n == Len(items)
           t == (n + size - 1) \div size
           start == (p - 1) * size
           stop == Pages!Lesser(p * size, n)
           piece == SubSeq(items, start + 1, stop)
<1>1. t \in Nat /\ t * size <= n + size - 1 /\ n \in Nat
  BY Division
<1>2. p \in Nat \ {0} /\ (p = 1 \/ p <= t)
  BY <1>1 DEF Pages!TotalPages, Pages!Larger
<1>3. start \in Nat /\ start <= n
  <2>1. CASE p = 1
    BY <1>1, <2>1
  <2>2. CASE p <= t
    <3>1. p * size <= t * size
      BY <1>1, <1>2, <2>2, MoreTimes
    <3>2. start \in Nat /\ p * size = start + size
      BY <1>2
    <3> HIDE DEF n, t, start
    <3> QED
      BY <1>1, <3>1, <3>2
  <2> QED
    BY <1>2, <2>1, <2>2
<1>4. p * size = start + size
  BY <1>2
<1>5. stop \in start .. n /\ stop = (IF start + size < n THEN start + size ELSE n)
  <2> HIDE DEF start, n
  <2> QED
    BY <1>1, <1>3, <1>4 DEF Pages!Lesser
<1>6. /\ DOMAIN piece = 1 .. (stop - start)
      /\ \A k \in 1 .. (stop - start) : piece[k] = items[start + k]
  <2>1. start + 1 \in 1 .. Len(items) + 1 /\ stop \in (start + 1) - 1 .. Len(items)
    <3> HIDE DEF start, stop
    <3> QED
      BY <1>1, <1>3, <1>5
  <2>2. /\ piece \in Seq(Items) /\ Len(piece) = stop - (start + 1) + 1
        /\ \A k \in 1 .. stop - (start + 1) + 1 : piece[k] = items[start + 1 + k - 1]
    <3> HIDE DEF start, stop
    <3> QED
      BY <2>1, SubSeqProperties
  <2> HIDE DEF start, stop
  <2>3. stop - (start + 1) + 1 = stop - start
        /\ \A k \in 1 .. (stop - start) : start + 1 + k - 1 = start + k
    BY <1>1, <1>3, <1>5
  <2> QED
    BY <2>2, <2>3
<1>7. Pages!PageWindow(items, p, size)
        = [page |-> p, pages |-> Pages!TotalPages(n, size), start |-> start, items |-> piece]
  <2>1. Pages!TotalPages(n, size) \in Nat /\ p <= Pages!TotalPages(n, size)
    BY <1>1 DEF Pages!TotalPages, Pages!Larger
  <2>2. Pages!Larger(1, Pages!Lesser(p, Pages!TotalPages(n, size))) = p
    BY <1>2, <2>1 DEF Pages!Larger, Pages!Lesser
  <2> QED
    BY <2>2 DEF Pages!PageWindow
<1>8. ASSUME NEW i \in 1 .. n
      PROVE  i - start \in 1 .. (stop - start) <=> PageOf(i, size) = p
  <2>1. PageOf(i, size) = p <=> start < i /\ i <= start + size
    BY <1>1, <1>2, PageBounds
  <2> HIDE DEF start, n, stop
  <2> QED
    BY <1>1, <1>3, <1>5, <2>1
<1> HIDE DEF piece, start, stop
<1> QED
  BY <1>6, <1>7, <1>8

\* The pages of a list of containers or images, of any length, cut it into
\* pieces: every item is on one page, in its place.
THEOREM PagesCutTheList ==
  ASSUME NEW Items, NEW items \in Seq(Items), NEW size \in Nat \ {0}
  PROVE  LET pages == Pages!TotalPages(Len(items), size)
             Window(p) == Pages!PageWindow(items, p, size)
         IN  /\ \A i \in DOMAIN items :
                  \E p \in 1 .. pages :
                    /\ i - Window(p).start \in DOMAIN Window(p).items
                    /\ \A r \in 1 .. pages \ {p} :
                         i - Window(r).start \notin DOMAIN Window(r).items
             /\ \A p \in 1 .. pages :
                  /\ Window(p).page = p
                  /\ \A k \in DOMAIN Window(p).items :
                       Window(p).items[k] = items[Window(p).start + k]
<1> DEFINE pages == Pages!TotalPages(Len(items), size)
           Window(p) == Pages!PageWindow(items, p, size)
<1>1. ASSUME NEW p \in 1 .. pages
      PROVE  /\ Window(p).page = p
             /\ \A k \in DOMAIN Window(p).items : Window(p).items[k] = items[Window(p).start + k]
             /\ \A i \in DOMAIN items :
                  i - Window(p).start \in DOMAIN Window(p).items <=> PageOf(i, size) = p
  BY WindowOf
<1>2. ASSUME NEW i \in DOMAIN items PROVE PageOf(i, size) \in 1 .. pages
  <2>1. Len(items) \in Nat /\ i \in 1 .. Len(items)
    OBVIOUS
  <2> QED
    BY <2>1, PageExists
<1> HIDE DEF pages, Window
<1>3. ASSUME NEW i \in DOMAIN items
      PROVE  \E p \in 1 .. pages :
               /\ i - Window(p).start \in DOMAIN Window(p).items
               /\ \A r \in 1 .. pages \ {p} :
                    i - Window(r).start \notin DOMAIN Window(r).items
  <2>1. PageOf(i, size) \in 1 .. pages
    BY <1>2
  <2> QED
    BY <1>1, <2>1
<1> QED
  BY <1>1, <1>3 DEF pages, Window

\* A set of numbers has a least one.
LEMMA LeastOf ==
  ASSUME NEW S \in SUBSET Nat, S # {}
  PROVE  \E x \in S : \A y \in S : x <= y
<1>1. PICK x \in S : \A y \in S : ~(<<y, x>> \in OpToRel(<, Nat))
  BY WFMin, NatLessThanWellFounded
<1>2. \A y \in S : ~(y < x)
  BY <1>1 DEF OpToRel
<1> QED
  BY <1>2

\* The walk through logs that cuts them into pages goes on: every page takes
\* some of what is left, and no more than a page may hold.
THEOREM LogPagesAdvance ==
  ASSUME NEW logs, NEW size \in Nat \ {0}, NEW end \in Nat \ {0}
  PROVE  /\ Pages!ChunkStart(logs, end, size) \in 0 .. (end - 1)
         /\ end - Pages!ChunkStart(logs, end, size) <= size
<1> DEFINE earliest == Pages!Larger(0, end - size)
           newlines == {i \in earliest + 1 .. end : logs[i] = Pages!Newline}
           first == CHOOSE i \in newlines : \A j \in newlines : i <= j
<1>1. earliest \in 0 .. (end - 1) /\ end - earliest <= size
  BY DEF Pages!Larger
<1>2. newlines # {} => first \in newlines
  <2> SUFFICES ASSUME newlines # {} PROVE first \in newlines
    OBVIOUS
  <2>1. newlines \in SUBSET Nat
    BY <1>1
  <2>2. \E x \in newlines : \A y \in newlines : x <= y
    <3> HIDE DEF newlines
    <3> QED BY <2>1, LeastOf
  <2> QED BY <2>2
<1>3. Pages!ChunkStart(logs, end, size) =
        IF earliest > 0 /\ newlines # {} /\ first < end THEN first ELSE earliest
  BY DEF Pages!ChunkStart
<1>4. newlines # {} => first \in (earliest + 1) .. end
  BY <1>2
<1> HIDE DEF first, newlines, earliest
<1> QED
  BY <1>1, <1>3, <1>4

\* Tags as the registry and the local images have them.
TagSet == [name : STRING, matches : SUBSET STRING, version : Nat \X Nat, date : Nat,
           pushed : Int, digest : Int]

\* What is offered for a tag is an upgrade of it, and is not offered back.
THEOREM OffersAreUpgrades ==
  ASSUME NEW local \in TagSet, NEW remote \in TagSet, Tags!Compatible(local, remote),
         local.name # remote.name
  PROVE  /\ Tags!TagType(remote) = Tags!TagType(local)
         /\ Tags!TagType(local) = "semver" => remote.version[1] = local.version[1]
         /\ Tags!Newer(local, remote)
         /\ ~Tags!Compatible(remote, local)
<1>1. Tags!Newer(local, remote)
  BY DEF Tags!Compatible
<1>2. ~Tags!Newer(remote, local)
  BY <1>1 DEF Tags!Newer, Tags!LowerVersion, TagSet
<1> QED
  BY <1>1, <1>2 DEF Tags!Compatible, Tags!Newer
=============================================================================
