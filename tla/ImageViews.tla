----------------------------- MODULE ImageViews -----------------------------
(***************************************************************************)
(* The list of images and their details, docker_handlers/images.py and its *)
(* inline handlers.  A button names an image by its position; the list is  *)
(* kept for half a minute, and several threads may fetch it at once.       *)
(***************************************************************************)
EXTENDS Naturals, Sequences

CONSTANTS
    Lists,      \* what Docker may answer: sequences of image names
    Loaders,    \* threads that handle the command or a button
    CacheTtl,   \* IMAGES_CACHE_TTL_SECONDS
    FetchTime   \* the longest a fetch takes

ImageConstants == CacheTtl \in Nat \ {0} /\ FetchTime \in Nat /\ FetchTime < CacheTtl

VARIABLES
    docker,    \* the images there are
    quiet,     \* time since they changed, up to CacheTtl
    cache,     \* _images_cache: a list and the age of its time stamp
    loader,    \* thread -> where it is in _load_images_data, for what
    buttons,   \* the last list message: its images, and whether they still hold
    mistaken   \* history: a press showed another image than its button named

imageVars == <<docker, quiet, cache, loader, buttons, mistaken>>

NoList == [list |-> << >>, age |-> CacheTtl]
NoLoad == [at |-> "idle", age |-> 0, list |-> << >>, index |-> 0, name |-> "none", settled |-> FALSE]

ImagesInit ==
    /\ docker \in Lists /\ quiet = 0
    /\ cache = NoList /\ loader = [h \in Loaders |-> NoLoad]
    /\ buttons = [list |-> << >>, settled |-> FALSE] /\ mistaken = FALSE

\* The command, or the press of the button at an index, and what it names.
Request(index) ==
    [NoLoad EXCEPT !.at = "fetching", !.index = index,
                   !.name = IF index = 0 THEN @ ELSE buttons.list[index],
                   !.settled = index # 0 /\ buttons.settled]

\* With the list at hand: index 0 renders the list and its buttons; another
\* index shows the details of the image there, or says that it is gone.
Serve(list, r) ==
    IF r.index = 0
    THEN /\ buttons' = [list |-> list, settled |-> quiet = CacheTtl]
         /\ UNCHANGED mistaken
    ELSE /\ mistaken' = (\/ mistaken
                         \/ /\ r.settled
                            /\ r.index \notin DOMAIN list \/ list[r.index] # r.name)
         /\ UNCHANGED buttons

\* The head of _load_images_data: now is read before anything else.
Load(h, index) ==
    /\ loader[h].at = "idle" /\ index \in {0} \cup DOMAIN buttons.list
    /\ IF cache.age < CacheTtl
         THEN Serve(cache.list, Request(index)) /\ UNCHANGED loader
         ELSE /\ loader' = [loader EXCEPT ![h] = Request(index)]
              /\ UNCHANGED <<buttons, mistaken>>
    /\ UNCHANGED <<docker, quiet, cache>>

\* Docker answers, or cannot and the handler reports the error.
Answer(h) ==
    /\ loader[h].at = "fetching"
    /\ \/ loader' = [loader EXCEPT ![h].at = "storing", ![h].list = docker]
       \/ loader' = [loader EXCEPT ![h] = NoLoad]
    /\ UNCHANGED <<docker, quiet, cache, buttons, mistaken>>

\* The list is stored with the time of its beginning, even over a newer one.
Store(h) ==
    /\ loader[h].at = "storing"
    /\ cache' = [list |-> loader[h].list, age |-> loader[h].age]
    /\ Serve(loader[h].list, loader[h])
    /\ loader' = [loader EXCEPT ![h] = NoLoad]
    /\ UNCHANGED <<docker, quiet>>

Later(age) == IF age < CacheTtl THEN age + 1 ELSE age

ImagesTick ==
    /\ \A h \in Loaders : loader[h].at # "idle" => loader[h].age < FetchTime
    /\ loader' = [h \in Loaders |-> IF loader[h].at = "idle" THEN NoLoad
                                    ELSE [loader[h] EXCEPT !.age = @ + 1]]
    /\ cache' = [cache EXCEPT !.age = Later(@)]
    /\ quiet' = Later(quiet)
    /\ UNCHANGED <<docker, buttons, mistaken>>

\* An image comes or goes: what the buttons name may be elsewhere now.
ImagesChange ==
    /\ \E l \in Lists : l # docker /\ docker' = l
    /\ quiet' = 0 /\ buttons' = [buttons EXCEPT !.settled = FALSE]
    /\ loader' = [h \in Loaders |-> [loader[h] EXCEPT !.settled = FALSE]]
    /\ UNCHANGED <<cache, mistaken>>

ImagesNext ==
    \/ \E h \in Loaders : \/ Answer(h) \/ Store(h)
                          \/ \E i \in 0 .. Len(buttons.list) : Load(h, i)
    \/ ImagesTick \/ ImagesChange

----------------------------------------------------------------------------
(* A position in the list is enough to name an image: if the images have not *)
(* changed for the life of the cache when a list is shown, its buttons show  *)
(* what they name until the images change, whatever fetches are under way.   *)
PositionsHold == ~mistaken
=============================================================================
