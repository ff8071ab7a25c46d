----------------------------- MODULE MCMessages -----------------------------
(* What must not count twice: a one-time code that is entered again, an     *)
(* update that is delivered again, and a request beyond the limit.  The     *)
(* replay protection and the middlewares share no state: a behaviour runs   *)
(* one of them.  The codes of the first steps collide, as two in a million  *)
(* do.                                                                      *)
EXTENDS TotpReplay, TLC

CONSTANTS
    Keys, Sender(_), None,
    Ttl, MaxEntries, Limit, Period, MaxDelay, Horizon

VARIABLES
    part,  \* "codes" or "updates"
    entries, queue, requests, clock, stage, update, opened, entered, pushed, repeated, passes

SomeCodes == 0 .. 4
SomeCodeOf(u, s) == IF s <= 1 THEN 0 ELSE (s - 1) % 5
OneSender(k) == CHOOSE u \in Users : TRUE
MCSymmetry == Permutations(Workers) \cup Permutations(Keys)

Updates == INSTANCE Intake WITH
    MaxLag <- MaxDelay, MaxTime <- Horizon,
    now <- clock, phase <- stage, read <- opened

ASSUME MessageConstants == Updates!IntakeConstants

updateVars == <<entries, queue, requests, clock, stage, update, opened, entered, pushed,
                repeated, passes>>
allVars == <<part, vars, updateVars>>

MCInit == part \in {"codes", "updates"} /\ Init /\ Updates!Init

CodesStep == part = "codes" /\ Next /\ UNCHANGED <<part, updateVars>>
UpdatesStep == part = "updates" /\ Updates!Next /\ UNCHANGED <<part, vars>>

MCSpec == MCInit /\ [][CodesStep \/ UpdatesStep]_allVars

----------------------------------------------------------------------------
(* An update is handled again only when its entry is over or made room for  *)
(* newer ones, and the queue keeps no more than one superseded place per    *)
(* worker that is held up.                                                  *)
HandledOnce == Updates!HandledOnce

(* No user gets more than the limit through in a period, and nobody is      *)
(* refused below it, up to the delay of a worker between clock and lock.    *)
LimitIsExact == Updates!LimitIsExact
=============================================================================
