----------------------------- MODULE LogMasker -----------------------------
(***************************************************************************)
(* DataMasker of logs.py: every log record passes sanitize_text, which     *)
(* replaces the user names and ids registered so far and caches the        *)
(* result; an update that arrives registers the names and ids it carries   *)
(* and clears the cache.  A text is known by the names it mentions, a      *)
(* sanitized text by the names still visible in it.                        *)
(***************************************************************************)
EXTENDS Naturals, Sequences, FiniteSets

CONSTANTS
    Workers,    \* threads that log
    Texts,
    ShortTexts, \* texts below min_mask_length
    Usernames,  \* masked from a sorted copy of the set
    Ids,        \* masked in a loop over the set itself
    Mentioned,  \* pairs {text, name}: the name occurs in the text
    CacheLimit, \* cache_size_limit
    Evicted     \* how many entries go at a time: a fifth of the limit

Names == Usernames \cup Ids

VARIABLES
    known,  \* the registered names
    cache,  \* _sanitization_cache, oldest entry first
    call,   \* the call of sanitize_text each worker is in
    output  \* history: the last text each worker got, what was known before

vars == <<known, cache, call, output>>

Idle == [phase |-> "idle"]

Working(p, t, visible, ids, before) ==
    [phase |-> p, text |-> t, visible |-> visible, ids |-> ids, before |-> before]

Become(w, c) == call' = [call EXCEPT ![w] = c]

Return(w, visible, before) ==
    /\ Become(w, Idle)
    /\ output' = [output EXCEPT ![w] = [visible |-> visible, before |-> before]]

Entries(c) == {c[i] : i \in DOMAIN c}

Entry(t, visible) == [text |-> t, visible |-> visible]

Moved(c, t, visible) ==
    Append(SelectSeq(c, LAMBDA e : e.text # t), Entry(t, visible))

\* An entry another worker made meanwhile is overwritten where it is.
Put(c, t, visible) ==
    IF t \in {e.text : e \in Entries(c)}
      THEN [i \in DOMAIN c |-> IF c[i].text = t THEN Entry(t, visible) ELSE c[i]]
      ELSE Append(c, Entry(t, visible))

\* _manage_cache_size
Trimmed(c) ==
    IF Len(c) >= CacheLimit THEN SubSeq(c, Evicted + 1, Len(c)) ELSE c

----------------------------------------------------------------------------
\* add_username, add_user_id, add_chat_id
Register(n) ==
    /\ known' = known \cup {n}
    /\ cache' = << >>
    /\ UNCHANGED <<call, output>>

\* A cached text is moved to the end and returned.
Hit(w, t) ==
    /\ call[w] = Idle
    /\ \E e \in Entries(cache) :
         /\ e.text = t
         /\ cache' = Moved(cache, t, e.visible)
         /\ Return(w, e.visible, known)
    /\ UNCHANGED known

Miss(w, t) ==
    /\ call[w] = Idle
    /\ t \notin {e.text : e \in Entries(cache)}
    /\ Become(w, Working(IF t \in ShortTexts THEN "short" ELSE "names",
                         t, {n \in Names : {t, n} \in Mentioned}, {}, known))
    /\ UNCHANGED <<known, cache, output>>

\* A short text is cached as it is, whatever the size of the cache.
KeepShort(w) ==
    /\ call[w].phase = "short"
    /\ cache' = Put(cache, call[w].text, call[w].visible)
    /\ Return(w, call[w].visible, call[w].before)
    /\ UNCHANGED known

\* The user names, from a sorted copy; then the loop over the ids begins.
MaskNames(w) ==
    /\ call[w].phase = "names"
    /\ Become(w, [call[w] EXCEPT !.phase = "ids",
                                 !.visible = @ \ (known \cap Usernames),
                                 !.ids = known \cap Ids])
    /\ UNCHANGED <<known, cache, output>>

MaskIds(w) ==
    /\ call[w].phase = "ids"
    /\ call[w].ids = known \cap Ids
    /\ Become(w, [call[w] EXCEPT !.phase = "store", !.visible = @ \ call[w].ids])
    /\ UNCHANGED <<known, cache, output>>

\* An id registered during the loop: the set changed size, the record is lost.
LoopBreaks(w) ==
    /\ call[w].phase = "ids"
    /\ call[w].ids # known \cap Ids
    /\ Become(w, Idle)
    /\ UNCHANGED <<known, cache, output>>

StoreResult(w) ==
    /\ call[w].phase = "store"
    /\ cache' = Put(Trimmed(cache), call[w].text, call[w].visible)
    /\ Return(w, call[w].visible, call[w].before)
    /\ UNCHANGED known

Init ==
    /\ known = {}
    /\ cache = << >>
    /\ call = [w \in Workers |-> Idle]
    /\ output = [w \in Workers |-> [visible |-> {}, before |-> {}]]

Next ==
    \/ \E n \in Names : Register(n)
    \/ \E w \in Workers :
         \/ \E t \in Texts : Hit(w, t) \/ Miss(w, t)
         \/ KeepShort(w) \/ MaskNames(w) \/ MaskIds(w) \/ LoopBreaks(w)
         \/ StoreResult(w)

Spec == Init /\ [][Next]_vars

----------------------------------------------------------------------------
(* A name that was registered before a record was logged is not visible in *)
(* that record.                                                             *)
KnownIsMasked ==
    \A w \in Workers : output[w].visible \cap output[w].before = {}
=============================================================================
