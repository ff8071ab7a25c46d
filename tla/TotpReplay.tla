----------------------------- MODULE TotpReplay -----------------------------
(***************************************************************************)
(* Verification of one-time codes with replay protection                   *)
(* (pytmbot/utils/totp.py), on several worker threads, with crashes and    *)
(* restarts of the process and failing writes of the state file.           *)
(*                                                                         *)
(* A verification reads the clock, looks for the step the code belongs to, *)
(* and then registers the pair of code and step under the lock.  Time is   *)
(* counted in steps of thirty seconds.  The clock may advance between the  *)
(* reading and the lock, by at most MaxLag steps: that is the one          *)
(* assumption on timing, and MaxTime bounds the clock of an instance.      *)
(***************************************************************************)
EXTENDS Integers, FiniteSets

CONSTANTS
    Users, Workers, Codes,
    Nobody, NoMarker,  \* no worker, no marker
    CodeOf(_, _),      \* CodeOf(u, step): the code of user u for that step
    WindowSteps,       \* _REPLAY_WINDOW_STEPS
    MaxTracked,        \* _MAX_TRACKED_CODES_PER_USER
    MaxLag,            \* bound of the delay between clock and lock
    MaxTime            \* bound of the clock

VARIABLES
    now,       \* the current step
    phase,     \* phase[w]: where worker w is in verify_totp_code
    read,      \* read[w]: the step w read from the clock
    marker,    \* marker[w]: user, code and matched step that w registers
    lock,      \* the holder of _used_totp_codes_lock, or nobody
    used,      \* _used_totp_codes: the markers in memory, of all users
    loaded,    \* _replay_state_loaded
    file,      \* the markers in the state file
    granted,   \* history: the markers accepted, as far as they could be saved
    again,     \* history: the markers accepted more than once
    seen,      \* history: the markers registered, as far as they could be saved
    failed     \* history: the last write of the state file failed

memory == <<used, loaded, file>>
history == <<granted, again, seen, failed>>
vars == <<now, phase, read, marker, lock, used, loaded, file,
          granted, again, seen, failed>>

Steps == 0 .. (MaxTime + 1)
Marker == [user : Users, code : Codes, step : Steps]

\* The window must outlast the steps a code matches and the delay, and there
\* must be room for one marker per step.
ASSUME ReplayConstants ==
    /\ Nobody \notin Workers /\ NoMarker \notin Marker
    /\ \A u \in Users, s \in Steps : CodeOf(u, s) \in Codes
    /\ WindowSteps \in Nat
    /\ MaxTracked \in Nat \ {0}
    /\ MaxLag \in Nat
    /\ MaxLag + 1 <= WindowSteps
    /\ WindowSteps + MaxLag + 2 <= MaxTracked
    /\ MaxTime \in Nat

----------------------------------------------------------------------------
\* The steps around the current one whose code is c.
Matching(u, c, current) ==
    {s \in Steps : s >= current - 1 /\ s <= current + 1 /\ CodeOf(u, s) = c}

\* _resolve_matching_step: the first of them.
IsFirst(s, S) == s \in S /\ \A t \in S : s <= t

Goto(w, p) == phase' = [phase EXCEPT ![w] = p]

\* Worker w answers and forgets its code.
Finish(w) ==
    /\ Goto(w, "idle")
    /\ read' = [read EXCEPT ![w] = 0]
    /\ marker' = [marker EXCEPT ![w] = NoMarker]

\* verify_totp_code up to _register_code_usage.
Resolve(w, u, c) ==
    /\ phase[w] = "idle"
    /\ \E s \in Steps :
         /\ IsFirst(s, Matching(u, c, now))
         /\ marker' = [marker EXCEPT ![w] = [user |-> u, code |-> c, step |-> s]]
    /\ read' = [read EXCEPT ![w] = now]
    /\ Goto(w, "resolved")
    /\ UNCHANGED <<now, lock, memory, history>>

\* Fault: the window is as wide as the steps a code matches.
NarrowWindow(w) == read[w]

MinStep(w) == read[w] - WindowSteps

\* Fault: off by one at the far end of the window.
StrictlyActive(S, min) == {m \in S : m.step > min}

Active(S, min) == {m \in S : m.step >= min}

\* _load_replay_state_locked, once per process.
Load(min) == IF loaded THEN used ELSE used \cup Active(file, min)

OfUser(S, u) == {m \in S : m.user = u}

\* T holds the newest markers of S, no more than are tracked.
IsNewest(T, S) ==
    /\ T \subseteq S
    /\ Cardinality(T) = IF Cardinality(S) <= MaxTracked THEN Cardinality(S)
                                                        ELSE MaxTracked
    /\ \A m \in T, n \in S \ T : n.step <= m.step

Replayed(m, S) == m \in S

\* _register_code_usage: the lock is taken, the state is loaded and the
\* marker is entered, unless it is there.
Register(w) ==
    LET m      == marker[w]
        known  == Load(MinStep(w))
        mine   == Active(OfUser(known, m.user), MinStep(w))
        others == known \ OfUser(known, m.user)
    IN  /\ phase[w] = "resolved"
        /\ lock = Nobody
        /\ lock' = w
        /\ loaded' = TRUE
        /\ \/ /\ Replayed(m, mine)
              /\ used' = others \cup mine
              /\ Goto(w, "refusing")
              /\ UNCHANGED seen
           \/ /\ ~Replayed(m, mine)
              /\ \E kept \in SUBSET (mine \cup {m}) :
                   /\ IsNewest(kept, mine \cup {m})
                   /\ used' = others \cup kept
              /\ Goto(w, "granting")
              /\ seen' = seen \cup {m}
        /\ UNCHANGED <<now, read, marker, file, granted, again, failed>>

\* _persist_replay_state_locked: it gives up when there is no directory;
\* otherwise it prunes the markers of all users and replaces the file, or
\* leaves the old one if that fails.  The lock is released.
Persist(w) ==
    LET active == Active(used, MinStep(w))
    IN  /\ lock = w
        /\ lock' = Nobody
        /\ \/ phase[w] = "granting" /\ Goto(w, "granted") /\ UNCHANGED <<read, marker>>
           \/ phase[w] = "refusing" /\ Finish(w)
        /\ \/ used' = active /\ file' = active /\ failed' = FALSE
           \/ used' \in {used, active} /\ UNCHANGED file /\ failed' = TRUE
        /\ UNCHANGED <<now, loaded, granted, again, seen>>

\* verify_totp_code answers yes.
Grant(w) ==
    /\ phase[w] = "granted"
    /\ granted' = granted \cup {marker[w]}
    /\ again' = again \cup (granted \cap {marker[w]})
    /\ Finish(w)
    /\ UNCHANGED <<now, lock, memory, seen, failed>>

\* The process dies at any point and is started again: the file stays, and
\* a temporary file that was not yet renamed is of no account.  A file that
\* the new process cannot read, or that is malformed, is as good as none, and
\* the next write replaces it.  If the last write failed or the file was lost,
\* what is not in the file is forgotten, by the history too.
Crash ==
    /\ phase' = [w \in Workers |-> "idle"]
    /\ read' = [w \in Workers |-> 0]
    /\ marker' = [w \in Workers |-> NoMarker]
    /\ lock' = Nobody
    /\ used' = {}
    /\ loaded' = FALSE
    /\ file' \in {file, {}}
    /\ LET lossy == failed \/ file' # file
       IN  /\ granted' = IF lossy THEN granted \cap file' ELSE granted
           /\ seen' = IF lossy THEN seen \cap file' ELSE seen
    /\ failed' = FALSE
    /\ UNCHANGED <<now, again>>

Tick ==
    /\ now < MaxTime
    /\ \A w \in Workers : phase[w] = "resolved" => now - read[w] < MaxLag
    /\ now' = now + 1
    /\ UNCHANGED <<phase, read, marker, lock, memory, history>>

----------------------------------------------------------------------------
Init ==
    /\ now = 0
    /\ phase = [w \in Workers |-> "idle"]
    /\ read = [w \in Workers |-> 0]
    /\ marker = [w \in Workers |-> NoMarker]
    /\ lock = Nobody
    /\ used = {} /\ loaded = FALSE /\ file = {}
    /\ granted = {} /\ again = {} /\ seen = {} /\ failed = FALSE

Verify(w) == (\E u \in Users, c \in Codes : Resolve(w, u, c))
                \/ Register(w) \/ Persist(w) \/ Grant(w)

Next == (\E w \in Workers : Verify(w)) \/ Crash \/ Tick

Spec == Init /\ [][Next]_vars

----------------------------------------------------------------------------
(* The verification as the ledger of CodeLedger sees it: what is spent is   *)
(* what the next verification would find, as far as it matters still.       *)
Genuine == {m \in Marker : m.code = CodeOf(m.user, m.step)}

Memory == IF loaded THEN used ELSE file

InWindow(m) == m.step >= now - WindowSteps

LedgerVerdict == [w \in Workers |->
                    CASE phase[w] = "granting" -> "accepted"
                      [] phase[w] = "granted" -> "ready"
                      [] phase[w] = "refusing" -> "refused"
                      [] OTHER -> "none"]

LedgerHeld == [w \in Workers |->
                 IF phase[w] \in {"idle", "resolved"} THEN NoMarker ELSE marker[w]]

Ledger == INSTANCE CodeLedger WITH
            Markers <- Genuine, Window <- WindowSteps, Lag <- MaxLag, clock <- now,
            verdict <- LedgerVerdict, held <- LedgerHeld,
            spent <- {m \in Memory : InWindow(m)}, saved <- {m \in file : InWindow(m)},
            unsaved <- failed, opened <- granted

(* The verification implements the ledger: whatever workers interleave, and *)
(* however often writes fail and the process restarts, each code is spent   *)
(* at one moment, while it is fresh, opens a login only if it was not spent *)
(* before and is saved or known to be unsaved, and is refused only if spent.*)
(* A restart forgets what it finds no readable file for.                    *)
CodesAreSpent == Ledger!Spec

----------------------------------------------------------------------------
(* The code of a step opens at most one login of its user, whatever the     *)
(* workers interleave and however often the process restarts, unless a      *)
(* restart came before a failed write was made good or could not read the   *)
(* state file.                                                              *)
AcceptedOnce == again = {}

(* Only replays are refused: a code that is refused was entered before for  *)
(* the same step.                                                           *)
OnlyReplaysRefused ==
    \A w \in Workers : phase[w] = "refusing" => marker[w] \in seen

(* Both: a code works once, and it does work once.                          *)
CodesWorkOnce == AcceptedOnce /\ OnlyReplaysRefused

(* A granted code is on disk before the answer is given, unless the write   *)
(* failed, as long as the code is in the window.                            *)
DurableBeforeAnswer ==
    \A w \in Workers :
      phase[w] = "granted" /\ marker[w].step >= now - WindowSteps
        => failed \/ marker[w] \in file
=============================================================================
