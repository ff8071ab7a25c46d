--------------------------- MODULE ContainerViews ---------------------------
(***************************************************************************)
(* What the screens say of the containers (adapters/docker/                *)
(* containers_info.py, utils.py): the list from a fresh roundtrip and the  *)
(* details cache, the manage screen from the state cache, the counters of  *)
(* the Docker menu from theirs.  Nothing clears a cache after an action on *)
(* a container, and a reader fetches without holding its lock.  Times are  *)
(* ages, counted no further than anything depends on them.                 *)
(***************************************************************************)
EXTENDS Naturals, FiniteSets

CONSTANTS
    Containers,
    Looks,      \* looks at Docker by worker threads
    DetailsTtl, StateTtl, CountersTtl,
    FetchTime,  \* longest time from a look at Docker to its entry in a cache
    Old,        \* bound: no age is counted further
    Nothing

ContainerViewsAssumption ==
    /\ IsFiniteSet(Containers) /\ {FetchTime, Old} \subseteq Nat
    /\ {DetailsTtl, StateTtl, CountersTtl} \subseteq Nat \ {0}
    /\ \A ttl \in {DetailsTtl, StateTtl, CountersTtl} : ttl + FetchTime <= Old

States == {"running", "exited", "none"}  \* "none": there is no such container

VARIABLES
    state,     \* of each container, in Docker
    heldAge,   \* history: how long ago a container was in a state
    countAge,  \* history: how long ago so many containers were running
    details, states, counters,  \* the caches: values with their ages
    look,      \* what is being fetched: what it saw, and how long ago
    shown      \* history: the ages of what an answer just given says

containerVars == <<state, heldAge, countAge, details, states, counters, look, shown>>

Running(seen) == Cardinality({c \in Containers : seen[c] = "running"})
Entry(value) == [value |-> value, age |-> 0]
Live(entry, ttl) == entry # Nothing /\ entry.age < ttl

NoAnswer == [view |-> "none", ages |-> {}]

----------------------------------------------------------------------------
ContainersInit ==
    /\ state \in [Containers -> States]
    /\ heldAge = [c \in Containers |-> [s \in States |-> IF s = state[c] THEN 0 ELSE Old]]
    /\ countAge = [n \in 0..Cardinality(Containers) |-> IF n = Running(state) THEN 0 ELSE Old]
    /\ details = [c \in Containers |-> Nothing] /\ states = details /\ counters = Nothing
    /\ look = [l \in Looks |-> Nothing] /\ shown = NoAnswer

\* The containers for the list or for the counters, unless these are cached; or
\* the state of one container, unless it is cached.
Begin(l, what) ==
    /\ look[l] = Nothing
    /\ what = "counters" => ~Live(counters, CountersTtl)
    /\ what \in Containers => ~Live(states[what], StateTtl)
    /\ look' = [look EXCEPT ![l] = [what |-> what, seen |-> state, age |-> 0]]
    /\ shown' = NoAnswer /\ UNCHANGED <<state, heldAge, countAge, details, states, counters>>

Finish(l, view, ages) ==
    /\ look' = [look EXCEPT ![l] = Nothing]
    /\ shown' = [view |-> view, ages |-> ages]
    /\ UNCHANGED <<state, heldAge, countAge>>

\* Fault: a hit enters the details again.
DetailsAgain(c, seen) ==
    IF seen[c] = "none" THEN details[c]
    ELSE Entry(IF Live(details[c], DetailsTtl) THEN details[c].value ELSE seen[c])

\* The look of the list is fresh, and yet what is cached of a container goes first.
Details(c, seen) ==
    IF seen[c] = "none" \/ Live(details[c], DetailsTtl) THEN details[c] ELSE Entry(seen[c])

ShowList(l) ==
    /\ look[l] # Nothing /\ look[l].what = "list"
    /\ details' = [c \in Containers |-> Details(c, look[l].seen)]
    /\ Finish(l, "list", {heldAge[c][details'[c].value] :
                            c \in {d \in Containers : look[l].seen[d] # "none"}})
    /\ UNCHANGED <<states, counters>>

\* A state is entered whoever entered one meanwhile; no container, no entry.
ShowState(l, c) ==
    /\ look[l] # Nothing /\ look[l].what = c
    /\ LET seen == look[l].seen[c]
       IN  /\ states' = IF seen = "none" THEN states ELSE [states EXCEPT ![c] = Entry(seen)]
           /\ Finish(l, "state", {heldAge[c][seen]})
    /\ UNCHANGED <<details, counters>>

ShowCounters(l) ==
    /\ look[l] # Nothing /\ look[l].what = "counters"
    /\ counters' = Entry(Running(look[l].seen))
    /\ Finish(l, "counters", {countAge[Running(look[l].seen)]})
    /\ UNCHANGED <<details, states>>

\* What is cached needs no look.
ShowCached ==
    /\ \/ \E c \in Containers : /\ Live(states[c], StateTtl)
                                /\ shown' = [view |-> "state", ages |-> {heldAge[c][states[c].value]}]
       \/ /\ Live(counters, CountersTtl)
          /\ shown' = [view |-> "counters", ages |-> {countAge[counters.value]}]
    /\ UNCHANGED <<state, heldAge, countAge, details, states, counters, look>>

\* Docker, by an action of the bot or of another.
Change(c, s) ==
    /\ state' = [state EXCEPT ![c] = s]
    /\ heldAge' = [heldAge EXCEPT ![c][s] = 0]
    /\ countAge' = [countAge EXCEPT ![Running(state')] = 0]
    /\ shown' = NoAnswer /\ UNCHANGED <<details, states, counters, look>>

Older(entry, most) ==
    IF entry = Nothing \/ entry.age = most THEN entry ELSE [entry EXCEPT !.age = @ + 1]
OlderAge(age) == IF age = Old THEN Old ELSE age + 1

Tick ==
    /\ \A l \in Looks : look[l] # Nothing => look[l].age < FetchTime
    /\ heldAge' = [c \in Containers |-> [s \in States |->
                     IF s = state[c] THEN 0 ELSE OlderAge(heldAge[c][s])]]
    /\ countAge' = [n \in DOMAIN countAge |-> IF n = Running(state) THEN 0 ELSE OlderAge(countAge[n])]
    /\ details' = [c \in Containers |-> Older(details[c], DetailsTtl)]
    /\ states' = [c \in Containers |-> Older(states[c], StateTtl)]
    /\ counters' = Older(counters, CountersTtl)
    /\ look' = [l \in Looks |-> Older(look[l], FetchTime)]
    /\ shown' = NoAnswer /\ UNCHANGED state

ContainersNext ==
    \/ \E l \in Looks :
        \/ \E what \in {"list", "counters"} \cup Containers : Begin(l, what)
        \/ ShowList(l) \/ ShowCounters(l) \/ \E c \in Containers : ShowState(l, c)
    \/ ShowCached
    \/ \E c \in Containers, s \in States : Change(c, s)
    \/ Tick

----------------------------------------------------------------------------
(* What a screen says of a container was true of it not longer ago than its  *)
(* cache keeps it and a look at Docker takes, whatever other threads entered *)
(* meanwhile; so were the numbers of the menu.  The list may therefore show  *)
(* a container as running for a minute after it was stopped.                 *)
SaysWhatWas ==
    LET ttl == CASE shown.view = "list" -> DetailsTtl
                 [] shown.view = "counters" -> CountersTtl
                 [] OTHER -> StateTtl
    IN  \A age \in shown.ages : age < ttl + FetchTime
=============================================================================
