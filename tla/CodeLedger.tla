----------------------------- MODULE CodeLedger -----------------------------
(***************************************************************************)
(* What the verification of one-time codes promises, without its lock, its *)
(* state file and what each worker remembers: a code is spent in the one   *)
(* step that decides about it, only a spent code is refused, and a spent   *)
(* code is lost in a restart only if it could not be saved or nothing that *)
(* was saved can be read.                                                  *)
(***************************************************************************)
EXTENDS Integers

CONSTANTS
    Workers,
    Markers,   \* the codes, each with the step it belongs to
    NoMarker,
    Window,    \* how many steps a code stays spent
    Lag        \* how old the time may be by which a code is looked up

VARIABLES
    clock,
    verdict,   \* verdict[w]: "none", "accepted", "ready" (may open) or "refused"
    held,      \* held[w]: the code it is about
    spent,     \* codes that will be refused
    saved,     \* those that a restart finds
    unsaved,   \* the last attempt to save failed
    opened     \* codes that opened a login, as far as a restart could know

ledgerVars == <<clock, verdict, held, spent, saved, unsaved, opened>>

Init ==
    /\ clock = 0
    /\ verdict = [w \in Workers |-> "none"]
    /\ held = [w \in Workers |-> NoMarker]
    /\ spent = {} /\ saved = {} /\ unsaved = FALSE /\ opened = {}

Outdated(m, t) == m.step < t - Window

Become(w, v, m) ==
    verdict' = [verdict EXCEPT ![w] = v] /\ held' = [held EXCEPT ![w] = m]

\* A code that is fresh is looked at: from now on it is spent.
Decide(w, v) ==
    /\ verdict[w] = "none" /\ verdict'[w] = v
    /\ \E m \in Markers :
         /\ Become(w, v, m)
         /\ m.step >= clock - Lag - 1 /\ m.step <= clock + 1
         /\ v = IF m \in spent THEN "refused" ELSE "accepted"
         /\ spent' = spent \cup {m}
    /\ UNCHANGED <<clock, saved, unsaved, opened>>

Save(w) ==
    /\ \/ verdict[w] = "accepted" /\ Become(w, "ready", held[w])
       \/ verdict[w] = "refused" /\ Become(w, "none", NoMarker)
    /\ \/ saved' = spent /\ unsaved' = FALSE
       \/ saved' = saved /\ unsaved' = TRUE
    /\ UNCHANGED <<clock, spent, opened>>

Open(w) ==
    /\ verdict[w] = "ready"
    /\ held[w] \notin opened
    /\ held[w] \in saved \/ unsaved \/ Outdated(held[w], clock)
    /\ opened' = opened \cup {held[w]}
    /\ Become(w, "none", NoMarker)
    /\ UNCHANGED <<clock, spent, saved, unsaved>>

Restart ==
    /\ verdict' = [w \in Workers |-> "none"]
    /\ held' = [w \in Workers |-> NoMarker]
    /\ saved' \in {saved, {}}
    /\ spent' = saved' /\ unsaved' = FALSE
    /\ opened' \subseteq opened
    /\ opened \cap saved' \subseteq opened'
    /\ ~unsaved /\ saved' # {} => opened' = opened
    /\ UNCHANGED clock

Tick ==
    /\ clock' = clock + 1
    /\ spent' = {m \in spent : ~Outdated(m, clock')}
    /\ saved' = {m \in saved : ~Outdated(m, clock')}
    /\ UNCHANGED <<verdict, held, unsaved, opened>>

Next ==
    \/ Restart \/ Tick
    \/ \E w \in Workers :
         (\E v \in {"accepted", "refused"} : Decide(w, v)) \/ Save(w) \/ Open(w)

Spec == Init /\ [][Next]_ledgerVars
=============================================================================
