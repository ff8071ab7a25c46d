--------------------------- MODULE MCGuards_proofs ---------------------------
(***************************************************************************)
(* What stands in front of the handlers, for every number of callers,      *)
(* workers and updates, every limit and every period: the access control   *)
(* blocks at the limit exactly, lets fewer set-up commands than the limit  *)
(* pass and does not flood the administrator, and the credential the       *)
(* webhook server takes for its own never expires.                         *)
(***************************************************************************)
EXTENDS MCGuards, FiniteSetTheorems, TLAPS

----------------------------------------------------------------------------
(* The access control.                                                      *)

InFlight(w) == phase[w] \in {"counted", "stamped"}

\* The workers about to let a set-up command of u pass.
Passing(u) == {w \in Workers : InFlight(w) /\ update[w].user = u /\ update[w].setup}

Age == 0 .. Access!Old

AccessTypeOK ==
    /\ attempts \in [Callers -> Nat] /\ passed \in [Callers -> Nat]
    /\ blocked \in [Callers -> 0 .. Blocking \cup {None}]
    /\ notified \in [Callers -> Age \cup {None}] /\ quiet \in [Callers -> Age \cup {None}]
    /\ phase \in [Workers -> {"idle", "checked", "counted", "stamped"}]
    /\ update \in [Workers -> [user : Callers \cup {None}, setup : BOOLEAN]]
    /\ lag \in [Workers -> 0 .. MaxLag] /\ stamp \in [Workers -> 0 .. MaxLag]

\* A worker that is not idle has a user; it is in flight for as long as its
\* lag says, and holds no time before it has read the clock.
RequestInv == \A w \in Workers :
    /\ phase[w] # "idle" => update[w].user \in Callers
    /\ phase[w] = "idle" => update[w].user = None
    /\ ~InFlight(w) => lag[w] = 0
    /\ phase[w] # "stamped" => stamp[w] = 0
    /\ stamp[w] <= lag[w]

\* Who was counted before a block was set is done before it ends.
BlockInv == \A w \in Workers : InFlight(w) =>
    LET u == update[w].user
    IN  blocked[u] # None => blocked[u] + lag[w] >= Blocking

\* What has passed and what is about to was counted, below the limit.
CountInv == \A u \in Callers :
    /\ passed[u] + Cardinality(Passing(u)) <= attempts[u]
    /\ passed[u] + Cardinality(Passing(u)) <= MaxAttempts - 1

\* The middleware knows when the administrator was tells last, unless it has
\* forgotten, and then the suppression time is over for all who could tell.
QuietInv == \A u \in Callers : quiet[u] # None =>
    /\ notified[u] # None => notified[u] = quiet[u]
    /\ blocked[u] # None => quiet[u] + blocked[u] >= Suppression
    /\ notified[u] = None =>
         /\ quiet[u] >= Suppression
         /\ \A w \in Workers : update[w].user = u => quiet[u] - stamp[w] >= Suppression

ToldInv == \A u \in Callers : quiet[u] = None => notified[u] = None

AccessInv ==
    /\ AccessTypeOK /\ RequestInv /\ Access!BlockedAtLimit /\ BlockInv /\ CountInv
    /\ QuietInv /\ ToldInv /\ Access!AdminNotFlooded

LEMMA AccessInit == ASSUME Access!AccessConstants, Access!Init PROVE AccessInv
<1>1. \A u \in Callers : Passing(u) = {}
  BY DEF Access!Init, Passing, InFlight
<1>2. Access!Old \in Nat /\ MaxAttempts - 1 \in Nat
  BY DEF Access!AccessConstants, Access!Old
<1>3. CountInv
  <2>1. \A u \in Callers : passed[u] = 0 /\ attempts[u] = 0 /\ Cardinality(Passing(u)) = 0
    BY <1>1, FS_EmptySet DEF Access!Init
  <2> QED
    BY <1>2, <2>1 DEF CountInv
<1>4. AccessTypeOK /\ RequestInv /\ Access!BlockedAtLimit
  BY <1>2 DEF Access!Init, Access!AccessConstants, AccessTypeOK, RequestInv,
              Access!BlockedAtLimit, Access!NoUpdate,
              InFlight, Age
<1>5. BlockInv /\ QuietInv /\ ToldInv /\ Access!AdminNotFlooded
  BY DEF Access!Init, BlockInv, QuietInv, ToldInv, Access!AdminNotFlooded, InFlight
<1> QED
  BY <1>3, <1>4, <1>5 DEF AccessInv

\* Nobody is in flight for a user whose block is over.
LEMMA ExpiredIsIdle ==
  ASSUME Access!AccessConstants, AccessInv, NEW u \in Access!Expired, NEW w \in Workers,
         InFlight(w)
  PROVE  update[w].user # u
BY DEF Access!AccessConstants, AccessInv, AccessTypeOK, BlockInv, Access!Expired

LEMMA PassingType ==
  ASSUME Access!AccessConstants, NEW u
  PROVE  IsFiniteSet(Passing(u)) /\ Cardinality(Passing(u)) \in Nat
<1>1. Passing(u) \subseteq Workers
  BY DEF Passing
<1>2. IsFiniteSet(Workers)
  BY DEF Access!AccessConstants, Access!IsFiniteSet, IsFiniteSet
<1> QED
  BY <1>1, <1>2, FS_Subset, FS_CardinalityType

\* Who is in flight for whom stays: so does what is about to pass.
SameFlights ==
    \A w \in Workers : /\ InFlight(w)' <=> InFlight(w)
                       /\ InFlight(w) => update'[w] = update[w]

LEMMA PassingStays ==
  ASSUME SameFlights, NEW u
  PROVE  Passing(u)' = Passing(u)
BY DEF SameFlights, Passing

\* Forgetting users whose block is over, while workers may take up updates.
LEMMA ForgetEffect ==
  ASSUME Access!AccessConstants, AccessInv, NEW S \in SUBSET Access!Expired,
         Access!Forget(S), SameFlights,
         UNCHANGED <<lag, stamp, quiet, flooded>>,
         phase' \in [Workers -> {"idle", "checked", "counted", "stamped"}],
         update' \in [Workers -> [user : Callers \cup {None}, setup : BOOLEAN]],
         \A w \in Workers : /\ phase'[w] # "idle" => update'[w].user \in Callers
                            /\ phase'[w] = "idle" => update'[w].user = None
                            /\ phase'[w] # "stamped" => stamp[w] = 0
  PROVE  AccessInv'
<1>1. \A u \in S : blocked[u] = 0 /\ u \in Callers
  BY DEF Access!Expired
<1>2. \A u \in S, w \in Workers : InFlight(w) => update[w].user # u
  BY ExpiredIsIdle
<1>3. AccessTypeOK'
  BY DEF AccessInv, AccessTypeOK, Access!Forget, Age
<1>4. RequestInv'
  BY DEF AccessInv, RequestInv, SameFlights
<1>5. Access!BlockedAtLimit'
  BY DEF AccessInv, Access!AccessConstants, Access!BlockedAtLimit, Access!Forget
<1>6. BlockInv'
  BY <1>2 DEF AccessInv, BlockInv, SameFlights, Access!Forget, RequestInv, InFlight
<1>7. CountInv'
  <2> SUFFICES ASSUME NEW u \in Callers
               PROVE  /\ passed'[u] + Cardinality(Passing(u)) <= attempts'[u]
                      /\ passed'[u] + Cardinality(Passing(u)) <= MaxAttempts - 1
    BY PassingStays DEF CountInv
  <2>1. CASE u \in S
    <3>1. Passing(u) = {}
      BY <1>2, <2>1 DEF Passing
    <3> QED
      BY <2>1, <3>1, FS_EmptySet DEF Access!Forget, Access!AccessConstants
  <2>2. CASE u \notin S
    BY <2>2 DEF Access!Forget, AccessInv, CountInv
  <2> QED
    BY <2>1, <2>2
<1>8. QuietInv'
  <2> SUFFICES ASSUME NEW u \in Callers, quiet[u] # None
               PROVE  /\ notified'[u] # None => notified'[u] = quiet[u]
                      /\ blocked'[u] # None => quiet[u] + blocked'[u] >= Suppression
                      /\ notified'[u] = None =>
                           /\ quiet[u] >= Suppression
                           /\ \A w \in Workers : update'[w].user = u =>
                                quiet[u] - stamp[w] >= Suppression
    BY DEF QuietInv
  <2>1. quiet[u] \in Nat
    BY DEF AccessInv, AccessTypeOK, Age
  <2>2. \A w \in Workers : update'[w].user = u =>
          \/ InFlight(w) /\ update[w].user = u
          \/ stamp[w] = 0
    BY DEF SameFlights, AccessInv, RequestInv, InFlight
  <2>3. CASE u \in S
    BY <1>1, <1>2, <2>1, <2>2, <2>3
       DEF Access!Forget, AccessInv, QuietInv, Access!AccessConstants
  <2>4. CASE u \notin S
    <3>1. notified'[u] = notified[u] /\ blocked'[u] = blocked[u]
      BY <2>4 DEF Access!Forget
    <3> QED
      BY <2>1, <2>2, <3>1 DEF AccessInv, QuietInv
  <2> QED
    BY <2>3, <2>4
<1>9. ToldInv' /\ Access!AdminNotFlooded'
  BY DEF ToldInv, Access!AdminNotFlooded, AccessInv, Access!Forget
<1> QED
  BY <1>3, <1>4, <1>5, <1>6, <1>7, <1>8, <1>9 DEF AccessInv

LEMMA CheckStep ==
  ASSUME Access!AccessConstants, AccessInv, NEW w \in Workers, NEW u \in Callers,
         NEW setup \in BOOLEAN, Access!Check(w, u, setup)
  PROVE  AccessInv'
<1>1. SameFlights
  BY DEF Access!Check, Access!Goto, SameFlights, InFlight, AccessInv, AccessTypeOK
<1>2. {u} \cap Access!Expired \in SUBSET Access!Expired
  OBVIOUS
<1>3. /\ phase' \in [Workers -> {"idle", "checked", "counted", "stamped"}]
      /\ update' \in [Workers -> [user : Callers \cup {None}, setup : BOOLEAN]]
      /\ \A v \in Workers : /\ phase'[v] # "idle" => update'[v].user \in Callers
                            /\ phase'[v] = "idle" => update'[v].user = None
                            /\ phase'[v] # "stamped" => stamp[v] = 0
  <2>1. CASE u \in Allowed
    BY <2>1 DEF Access!Check, AccessInv, AccessTypeOK, RequestInv
  <2>2. CASE u \notin Allowed
    <3>1. /\ phase[w] = "idle" /\ phase' = [phase EXCEPT ![w] = "checked"]
          /\ update' = [update EXCEPT ![w] = [user |-> u, setup |-> setup]]
      BY <2>2 DEF Access!Check, Access!Goto
    <3> QED
      BY <3>1 DEF AccessInv, AccessTypeOK, RequestInv
  <2> QED
    BY <2>1, <2>2
<1> QED
  BY <1>1, <1>2, <1>3, ForgetEffect DEF Access!Check, Access!cleaner

LEMMA CleanStep == ASSUME Access!AccessConstants, AccessInv, Access!Clean PROVE AccessInv'
<1>1. SameFlights /\ UNCHANGED <<phase, update, lag, stamp, quiet, flooded>>
  BY DEF Access!Clean, Access!request, SameFlights, InFlight
<1>2. due \cap Access!Expired \in SUBSET Access!Expired
  OBVIOUS
<1> QED
  BY <1>1, <1>2, ForgetEffect DEF Access!Clean, AccessInv, AccessTypeOK, RequestInv

\* The attempt that reaches the limit blocks; any other is in flight.
LEMMA AttemptStep ==
  ASSUME Access!AccessConstants, AccessInv, NEW w \in Workers, Access!Attempt(w)
  PROVE  AccessInv'
<1> DEFINE u == update[w].user
           n == attempts[u] + 1
<1>1. /\ phase[w] = "checked" /\ u \in Callers /\ attempts' = [attempts EXCEPT ![u] = n]
      /\ UNCHANGED <<notified, passed, quiet, flooded>>
      /\ lag[w] = 0 /\ stamp[w] = 0 /\ attempts[u] \in Nat /\ ~InFlight(w)
  BY DEF Access!Attempt, Access!history, AccessInv, RequestInv, AccessTypeOK, InFlight
<1>2. CASE /\ n >= MaxAttempts /\ Access!Finish(w)
           /\ blocked' = [blocked EXCEPT ![u] = Blocking]
  <2>1. /\ phase' = [phase EXCEPT ![w] = "idle"]
        /\ update' = [update EXCEPT ![w] = Access!NoUpdate]
        /\ lag' = [lag EXCEPT ![w] = 0] /\ stamp' = [stamp EXCEPT ![w] = 0]
    BY <1>2 DEF Access!Finish, Access!Goto
  <2>2. SameFlights
    BY <1>1, <2>1 DEF SameFlights, InFlight, AccessInv, AccessTypeOK
  <2>3. AccessTypeOK'
    BY <1>1, <1>2, <2>1 DEF AccessInv, AccessTypeOK, Access!NoUpdate, Access!AccessConstants
  <2>4. RequestInv'
    BY <1>1, <2>1 DEF AccessInv, RequestInv, InFlight, Access!NoUpdate, AccessTypeOK
  <2>5. Access!BlockedAtLimit'
    BY <1>1, <1>2 DEF AccessInv, Access!BlockedAtLimit, AccessTypeOK, Access!AccessConstants
  <2>6. BlockInv'
    BY <1>1, <1>2, <2>1
       DEF AccessInv, BlockInv, InFlight, AccessTypeOK, Access!AccessConstants
  <2>7. CountInv'
    <3> SUFFICES ASSUME NEW v \in Callers
                 PROVE  /\ passed[v] + Cardinality(Passing(v)) <= attempts'[v]
                        /\ passed[v] + Cardinality(Passing(v)) <= MaxAttempts - 1
      BY <1>1, <2>2, PassingStays DEF CountInv
    <3>1. attempts'[v] >= attempts[v] /\ attempts[v] \in Nat /\ attempts'[v] \in Nat
      BY <1>1 DEF AccessInv, AccessTypeOK
    <3>2. passed[v] \in Nat /\ Cardinality(Passing(v)) \in Nat
      BY PassingType DEF AccessInv, AccessTypeOK
    <3> QED
      BY <3>1, <3>2 DEF AccessInv, CountInv
  <2>8. QuietInv' /\ ToldInv' /\ Access!AdminNotFlooded'
    BY <1>1, <1>2, <2>1
       DEF AccessInv, QuietInv, ToldInv, Access!AdminNotFlooded, AccessTypeOK,
           Access!AccessConstants,
           Access!NoUpdate, Age
  <2> QED
    BY <2>3, <2>4, <2>5, <2>6, <2>7, <2>8 DEF AccessInv
<1>3. CASE /\ n < MaxAttempts /\ Access!Goto(w, "counted")
           /\ UNCHANGED <<blocked, update, lag, stamp>>
  <2>1. phase' = [phase EXCEPT ![w] = "counted"]
    BY <1>3 DEF Access!Goto
  <2>2. blocked[u] = None
    BY <1>1, <1>3 DEF AccessInv, Access!BlockedAtLimit, Access!AccessConstants
  <2>3. AccessTypeOK' /\ RequestInv'
    BY <1>1, <1>3, <2>1 DEF AccessInv, AccessTypeOK, RequestInv, InFlight
  <2>4. Access!BlockedAtLimit'
    BY <1>1, <1>3, <2>2
       DEF AccessInv, Access!BlockedAtLimit, AccessTypeOK, Access!AccessConstants
  <2>5. BlockInv'
    BY <1>3, <2>1, <2>2 DEF AccessInv, BlockInv, InFlight, AccessTypeOK
  <2>6. CountInv'
    <3> SUFFICES ASSUME NEW v \in Callers
                 PROVE  /\ passed[v] + Cardinality(Passing(v)') <= attempts'[v]
                        /\ passed[v] + Cardinality(Passing(v)') <= MaxAttempts - 1
      BY <1>1 DEF CountInv
    <3>1. passed[v] \in Nat /\ Cardinality(Passing(v)) \in Nat /\ attempts[v] \in Nat
      BY PassingType DEF AccessInv, AccessTypeOK
    <3>2. CASE v = u
      <4>1. Passing(v)' \in {Passing(v), Passing(v) \cup {w}} /\ w \notin Passing(v)
        BY <1>1, <1>3, <2>1, <3>2 DEF Passing, InFlight, AccessInv, AccessTypeOK
      <4>2. Cardinality(Passing(v)') <= Cardinality(Passing(v)) + 1
            /\ Cardinality(Passing(v)') \in Nat
        BY <3>1, <4>1, PassingType, FS_AddElement
      <4>3. passed[v] + Cardinality(Passing(v)) <= attempts[v]
        BY DEF AccessInv, CountInv
      <4> QED
        BY <1>1, <1>3, <3>1, <3>2, <4>2, <4>3
           DEF AccessInv, AccessTypeOK, Access!AccessConstants
    <3>3. CASE v # u
      <4>1. Passing(v)' = Passing(v)
        BY <1>3, <2>1, <3>3 DEF Passing, InFlight, AccessInv, AccessTypeOK
      <4>2. attempts'[v] = attempts[v]
        BY <1>1, <3>3 DEF AccessInv, AccessTypeOK
      <4> QED
        BY <4>1, <4>2 DEF AccessInv, CountInv
    <3> QED
      BY <3>2, <3>3
  <2>7. QuietInv' /\ ToldInv' /\ Access!AdminNotFlooded'
    BY <1>1, <1>3 DEF AccessInv, QuietInv, ToldInv, Access!AdminNotFlooded
  <2> QED
    BY <2>3, <2>4, <2>5, <2>6, <2>7 DEF AccessInv
<1> QED
  BY <1>2, <1>3 DEF Access!Attempt

LEMMA StampStep ==
  ASSUME Access!AccessConstants, AccessInv, NEW w \in Workers, Access!Stamp(w)
  PROVE  AccessInv'
<1>1. /\ phase[w] = "counted" /\ phase' = [phase EXCEPT ![w] = "stamped"]
      /\ UNCHANGED <<Access!memory, update, lag, stamp, Access!history>>
  BY DEF Access!Stamp, Access!Goto
<1>2. SameFlights
  BY <1>1 DEF SameFlights, InFlight, AccessInv, AccessTypeOK
<1>3. AccessTypeOK' /\ RequestInv' /\ BlockInv'
  BY <1>1 DEF Access!memory, Access!history, AccessInv, AccessTypeOK, RequestInv, BlockInv,
              InFlight
<1>4. CountInv'
  BY <1>1, <1>2, PassingStays DEF Access!memory, Access!history, AccessInv, CountInv
<1>5. Access!BlockedAtLimit' /\ QuietInv' /\ ToldInv' /\ Access!AdminNotFlooded'
  BY <1>1 DEF Access!memory, Access!history, AccessInv, Access!BlockedAtLimit, QuietInv,
              ToldInv, Access!AdminNotFlooded
<1> QED
  BY <1>3, <1>4, <1>5 DEF AccessInv

\* A set-up command that passes is no longer about to, and the administrator
\* is tells only when the last time is long enough ago.
LEMMA NotifyStep ==
  ASSUME Access!AccessConstants, AccessInv, NEW w \in Workers, Access!Notify(w)
  PROVE  AccessInv'
<1> DEFINE u == update[w].user
           tells == ~Access!Suppressed(u, w)
<1>1. /\ phase[w] = "stamped" /\ u \in Callers /\ UNCHANGED <<attempts, blocked>> /\ InFlight(w)
      /\ phase' = [phase EXCEPT ![w] = "idle"] /\ lag' = [lag EXCEPT ![w] = 0]
      /\ update' = [update EXCEPT ![w] = Access!NoUpdate] /\ stamp' = [stamp EXCEPT ![w] = 0]
      /\ passed' = [passed EXCEPT ![u] = @ + IF update[w].setup THEN 1 ELSE 0]
  BY DEF Access!Notify, Access!Finish, Access!Goto, AccessInv, RequestInv, InFlight
<1>2. stamp[w] \in 0 .. MaxLag /\ stamp[w] <= lag[w] /\ lag[w] \in 0 .. MaxLag
      /\ stamp[w] \in Age /\ None \notin Nat
  BY DEF AccessInv, AccessTypeOK, RequestInv, Age, Access!Old, Access!AccessConstants
<1>3. tells /\ quiet[u] # None => quiet[u] - stamp[w] >= Suppression
  <2> SUFFICES ASSUME tells, quiet[u] # None PROVE quiet[u] - stamp[w] >= Suppression
    OBVIOUS
  <2>1. quiet[u] \in Nat /\ Suppression \in Nat /\ stamp[w] \in Nat
    BY <1>1, <1>2 DEF AccessInv, AccessTypeOK, Access!AccessConstants, Age
  <2>2. CASE notified[u] = None
    BY <1>1, <2>2 DEF AccessInv, QuietInv
  <2>3. CASE notified[u] # None
    BY <1>1, <2>1, <2>3 DEF AccessInv, QuietInv, Access!Suppressed
  <2> QED
    BY <2>2, <2>3
<1>4. \/ UNCHANGED <<notified, quiet, flooded>>
      \/ /\ notified' = [notified EXCEPT ![u] = stamp[w]]
         /\ quiet' = [quiet EXCEPT ![u] = stamp[w]]
         /\ flooded' = flooded
  <2>1. CASE tells
    <3>1. ~(quiet[u] # None /\ quiet[u] - stamp[w] < Suppression)
      BY <1>1, <1>2, <1>3, <2>1 DEF AccessInv, AccessTypeOK, Access!AccessConstants, Age
    <3> QED
      BY <2>1, <3>1 DEF Access!Notify
  <2>2. CASE ~tells
    BY <2>2 DEF Access!Notify
  <2> QED
    BY <2>1, <2>2
<1>5. AccessTypeOK'
  <2>1. passed' \in [Callers -> Nat]
    BY <1>1 DEF AccessInv, AccessTypeOK
  <2>2. notified' \in [Callers -> Age \cup {None}] /\ quiet' \in [Callers -> Age \cup {None}]
    BY <1>1, <1>2, <1>4 DEF AccessInv, AccessTypeOK
  <2> QED
    BY <1>1, <2>1, <2>2 DEF AccessInv, AccessTypeOK, Access!NoUpdate, Access!AccessConstants
<1>6. RequestInv' /\ BlockInv' /\ Access!BlockedAtLimit'
  BY <1>1 DEF AccessInv, AccessTypeOK, RequestInv, BlockInv, Access!BlockedAtLimit,
              InFlight, Access!NoUpdate
<1>7. CountInv'
  <2> SUFFICES ASSUME NEW v \in Callers
               PROVE  passed'[v] + Cardinality(Passing(v)')
                        = passed[v] + Cardinality(Passing(v))
    BY <1>1 DEF AccessInv, CountInv
  <2>1. passed[v] \in Nat /\ IsFiniteSet(Passing(v)) /\ Cardinality(Passing(v)) \in Nat
    BY PassingType DEF AccessInv, AccessTypeOK
  <2>2. CASE v = u /\ update[w].setup
    <3>1. Passing(v)' = Passing(v) \ {w} /\ w \in Passing(v)
      BY <1>1, <2>2 DEF Passing, InFlight, AccessInv, AccessTypeOK
    <3>2. Cardinality(Passing(v)') = Cardinality(Passing(v)) - 1
      BY <2>1, <3>1, FS_RemoveElement
    <3>3. passed'[v] = passed[v] + 1
      BY <1>1, <2>2 DEF AccessInv, AccessTypeOK
    <3> QED
      BY <2>1, <3>2, <3>3
  <2>3. CASE ~(v = u /\ update[w].setup)
    <3>1. Passing(v)' = Passing(v)
      BY <1>1, <2>3 DEF Passing, InFlight, AccessInv, AccessTypeOK
    <3>2. passed'[v] = passed[v]
      BY <1>1, <2>1, <2>3 DEF AccessInv, AccessTypeOK
    <3> QED
      BY <3>1, <3>2
  <2> QED
    BY <2>2, <2>3
<1>8. QuietInv'
  <2> SUFFICES ASSUME NEW v \in Callers, quiet'[v] # None
               PROVE  /\ notified'[v] # None => notified'[v] = quiet'[v]
                      /\ blocked[v] # None => quiet'[v] + blocked[v] >= Suppression
                      /\ notified'[v] = None =>
                           /\ quiet'[v] >= Suppression
                           /\ \A x \in Workers : update'[x].user = v =>
                                quiet'[v] - stamp'[x] >= Suppression
    BY <1>1 DEF QuietInv
  <2>1. CASE notified'[v] = notified[v] /\ quiet'[v] = quiet[v]
    <3>1. \A x \in Workers : update'[x].user = v => update[x].user = v /\ stamp'[x] = stamp[x]
      BY <1>1 DEF AccessInv, AccessTypeOK, Access!NoUpdate, Access!AccessConstants
    <3> QED
      BY <2>1, <3>1 DEF AccessInv, QuietInv
  <2>2. CASE v = u /\ notified'[v] = stamp[w] /\ quiet'[v] = stamp[w]
    <3>1. blocked[v] # None => blocked[v] + lag[w] >= Blocking
      BY <1>1, <2>2 DEF AccessInv, BlockInv
    <3>2. blocked[v] # None => blocked[v] \in Nat
      BY DEF AccessInv, AccessTypeOK
    <3> QED
      BY <1>2, <2>2, <3>1, <3>2 DEF Access!AccessConstants
  <2> QED
    BY <1>1, <1>4, <2>1, <2>2 DEF AccessInv, AccessTypeOK
<1>9. ToldInv' /\ Access!AdminNotFlooded'
  BY <1>1, <1>2, <1>4 DEF AccessInv, ToldInv, Access!AdminNotFlooded, AccessTypeOK
<1> QED
  BY <1>5, <1>6, <1>7, <1>8, <1>9 DEF AccessInv

\* Time passes for blocks, notifications and workers alike.
LEMMA TickStep == ASSUME Access!AccessConstants, AccessInv, Access!Tick PROVE AccessInv'
<1>1. /\ UNCHANGED <<attempts, phase, update, passed, flooded>>
      /\ \A w \in Workers : InFlight(w) => lag[w] < MaxLag
      /\ \A w \in Workers : lag'[w] = IF InFlight(w) THEN lag[w] + 1 ELSE lag[w]
      /\ \A w \in Workers : stamp'[w] = IF phase[w] = "stamped" THEN stamp[w] + 1 ELSE stamp[w]
  BY DEF Access!Tick, InFlight
<1>2. /\ Access!Old \in Nat /\ Access!Old = Suppression + MaxLag
      /\ None \notin Nat /\ Suppression \in Nat /\ MaxLag \in Nat /\ Blocking \in Nat
  BY DEF Access!AccessConstants, Access!Old
<1>3. \A u \in Callers : \/ blocked[u] = None /\ blocked'[u] = None
                         \/ blocked[u] = 0 /\ blocked'[u] = 0
                         \/ blocked[u] \in 1 .. Blocking /\ blocked'[u] = blocked[u] - 1
  BY <1>2 DEF Access!Tick, Access!Active, AccessInv, AccessTypeOK
<1>4. \A u \in Callers :
        /\ \/ notified[u] = None /\ notified'[u] = None
           \/ notified[u] = Access!Old /\ notified'[u] = Access!Old
           \/ notified[u] \in 0 .. Access!Old - 1 /\ notified'[u] = notified[u] + 1
        /\ \/ quiet[u] = None /\ quiet'[u] = None
           \/ quiet[u] = Access!Old /\ quiet'[u] = Access!Old
           \/ quiet[u] \in 0 .. Access!Old - 1 /\ quiet'[u] = quiet[u] + 1
        /\ notified[u] = quiet[u] => notified'[u] = quiet'[u]
  <2>1. \A a \in Age \cup {None} : \/ a = None /\ Access!Older(a) = None
                                   \/ a = Access!Old /\ Access!Older(a) = Access!Old
                                   \/ a \in 0 .. Access!Old - 1 /\ Access!Older(a) = a + 1
    BY <1>2 DEF Access!Older, Age
  <2>2. \A u \in Callers : /\ notified'[u] = Access!Older(notified[u])
                           /\ quiet'[u] = Access!Older(quiet[u])
    BY Zenon DEF Access!Tick
  <2>3. \A u \in Callers : notified[u] \in Age \cup {None} /\ quiet[u] \in Age \cup {None}
    BY DEF AccessInv, AccessTypeOK
  <2> QED
    BY <2>1, <2>2, <2>3
<1>5. AccessTypeOK' /\ RequestInv'
  <2>1. \A w \in Workers : /\ lag'[w] \in 0 .. MaxLag /\ stamp'[w] <= lag'[w]
                           /\ stamp'[w] \in 0 .. MaxLag
                           /\ ~InFlight(w) => lag'[w] = 0
                           /\ phase[w] # "stamped" => stamp'[w] = 0
    BY <1>1, <1>2 DEF AccessInv, AccessTypeOK, RequestInv, InFlight
  <2>2. lag' \in [Workers -> 0 .. MaxLag] /\ stamp' \in [Workers -> 0 .. MaxLag]
    BY <2>1 DEF Access!Tick
  <2>3. \A u \in Callers : /\ blocked'[u] \in 0 .. Blocking \cup {None}
                           /\ notified'[u] \in Age \cup {None} /\ quiet'[u] \in Age \cup {None}
    BY <1>2, <1>3, <1>4 DEF Age
  <2>4. /\ blocked' \in [Callers -> 0 .. Blocking \cup {None}]
        /\ notified' \in [Callers -> Age \cup {None}] /\ quiet' \in [Callers -> Age \cup {None}]
    BY <2>3 DEF Access!Tick
  <2> QED
    BY <1>1, <2>1, <2>2, <2>4 DEF AccessInv, AccessTypeOK, RequestInv, InFlight, Age
<1>6. Access!BlockedAtLimit'
  BY <1>1, <1>2, <1>3 DEF AccessInv, Access!BlockedAtLimit
<1>7. BlockInv'
  BY <1>1, <1>2, <1>3 DEF AccessInv, AccessTypeOK, BlockInv, RequestInv, InFlight
<1>8. CountInv'
  <2>1. SameFlights
    BY <1>1 DEF SameFlights, InFlight
  <2> QED
    BY <1>1, <2>1, PassingStays DEF AccessInv, CountInv
<1>9. QuietInv'
  <2> SUFFICES ASSUME NEW u \in Callers, quiet'[u] # None
               PROVE  /\ notified'[u] # None => notified'[u] = quiet'[u]
                      /\ blocked'[u] # None => quiet'[u] + blocked'[u] >= Suppression
                      /\ notified'[u] = None =>
                           /\ quiet'[u] >= Suppression
                           /\ \A w \in Workers : update[w].user = u =>
                                quiet'[u] - stamp'[w] >= Suppression
    BY <1>1 DEF QuietInv
  <2>1. quiet[u] # None
    BY <1>2, <1>4
  <2>2. notified'[u] # None => notified'[u] = quiet'[u]
    BY <1>2, <1>4, <2>1 DEF AccessInv, QuietInv
  <2>3. blocked'[u] # None => quiet'[u] + blocked'[u] >= Suppression
    BY <1>2, <1>3, <1>4, <2>1 DEF AccessInv, QuietInv
  <2>4. ASSUME notified'[u] = None
        PROVE  /\ quiet'[u] >= Suppression
               /\ \A w \in Workers : update[w].user = u => quiet'[u] - stamp'[w] >= Suppression
    <3>1. notified[u] = None
      BY <1>2, <1>4, <2>4
    <3>2. quiet[u] >= Suppression
      BY <2>1, <3>1 DEF AccessInv, QuietInv
    <3>3. ASSUME NEW w \in Workers, update[w].user = u
          PROVE  quiet'[u] - stamp'[w] >= Suppression
      <4>1. quiet[u] - stamp[w] >= Suppression /\ stamp[w] \in Nat
        BY <2>1, <3>1, <3>3 DEF AccessInv, QuietInv, AccessTypeOK
      <4>2. stamp'[w] \in 0 .. MaxLag
        BY <1>5 DEF AccessTypeOK
      <4> QED
        BY <1>1, <1>2, <1>4, <2>1, <4>1, <4>2
    <3> QED
      BY <1>2, <1>4, <2>1, <3>2, <3>3
  <2> QED
    BY <2>2, <2>3, <2>4
<1>10. ToldInv' /\ Access!AdminNotFlooded'
  BY <1>1, <1>2, <1>4 DEF AccessInv, ToldInv, Access!AdminNotFlooded
<1> QED
  BY <1>5, <1>6, <1>7, <1>8, <1>9, <1>10 DEF AccessInv

LEMMA AccessNext ==
  ASSUME Access!AccessConstants, AccessInv, [Access!Next]_accessVars
  PROVE  AccessInv'
<1>1. CASE Access!Wake \/ UNCHANGED accessVars
  <2>1. UNCHANGED <<attempts, blocked, notified, phase, update, lag, stamp, passed, quiet,
                    flooded>>
    BY <1>1 DEF Access!Wake, accessVars, Access!memory, Access!request, Access!history
  <2> QED
    BY <2>1 DEF AccessInv, AccessTypeOK, RequestInv, Access!BlockedAtLimit, BlockInv,
                CountInv, Passing,
                QuietInv, ToldInv, Access!AdminNotFlooded, InFlight
<1> QED
  BY <1>1, CheckStep, CleanStep, AttemptStep, StampStep, NotifyStep, TickStep
     DEF Access!Next, Access!Receive, Access!Handle

LEMMA AccessInvImplies == AccessInv => LimitsHold
<1> SUFFICES ASSUME AccessInv PROVE LimitsHold
  OBVIOUS
<1>1. ASSUME NEW u \in Callers PROVE passed[u] <= MaxAttempts - 1
  <2>1. passed[u] \in Nat /\ Cardinality(Passing(u)) \in Nat
    BY GuardConstants, PassingType DEF AccessInv, AccessTypeOK
  <2> QED
    BY <2>1, GuardConstants DEF AccessInv, CountInv, Access!AccessConstants
<1> QED
  BY <1>1 DEF AccessInv, LimitsHold, Access!LimitsHold, Access!SetupWithinLimit

\* Block, set-up limit and suppression hold for every number of users and
\* workers, however their checks, counts and notifications interleave with
\* the clean-up.
THEOREM AccessIsLimited == Spec => []LimitsHold
<1>1. Init => AccessInv
  BY GuardConstants, AccessInit DEF Init
<1>2. AccessInv /\ [StoreStep \/ AccessStep \/ WebhookStep]_vars => AccessInv'
  BY GuardConstants, AccessNext DEF StoreStep, AccessStep, WebhookStep, vars, accessVars
<1> QED
  BY <1>1, <1>2, AccessInvImplies, PTL DEF Spec

\* What lifts a block is over, and what sets one sets it to the full time.
LEMMA BlockStep ==
  ASSUME Access!AccessConstants, AccessInv, [Access!Next]_accessVars,
         NEW u \in Callers, Access!Active(u)
  PROVE  blocked'[u] # None /\ blocked'[u] >= blocked[u] - 1
<1>1. blocked[u] \in 1 .. Blocking /\ Blocking \in Nat /\ None \notin Nat
  BY DEF AccessInv, AccessTypeOK, Access!Active, Access!AccessConstants
<1>2. u \notin Access!Expired
  BY DEF Access!Active, Access!Expired
<1>3. ASSUME NEW S \in SUBSET Access!Expired, Access!Forget(S) PROVE blocked'[u] = blocked[u]
  BY <1>2, <1>3 DEF Access!Forget
<1>4. CASE Access!Clean
  BY <1>1, <1>3, <1>4 DEF Access!Clean
<1>5. CASE \E w \in Workers : Access!Receive(w)
  BY <1>1, <1>3, <1>5 DEF Access!Receive, Access!Check
<1>6. CASE \E w \in Workers : Access!Attempt(w)
  <2>1. PICK w \in Workers : Access!Attempt(w)
    BY <1>6
  <2>2. \/ blocked' = [blocked EXCEPT ![update[w].user] = Blocking]
        \/ blocked' = blocked
    BY <2>1 DEF Access!Attempt
  <2> QED
    BY <1>1, <2>2 DEF AccessInv, AccessTypeOK
<1>7. CASE \E w \in Workers : Access!Stamp(w) \/ Access!Notify(w)
  BY <1>1, <1>7 DEF Access!Stamp, Access!Notify, Access!memory
<1>8. CASE Access!Tick
  BY <1>1, <1>8 DEF Access!Tick
<1>9. CASE Access!Wake \/ UNCHANGED accessVars
  BY <1>1, <1>9 DEF Access!Wake, Access!memory, accessVars
<1> QED
  BY <1>4, <1>5, <1>6, <1>7, <1>8, <1>9 DEF Access!Next, Access!Handle

\* A block is lifted when it is over, and until then it can only grow, for
\* every number of users and workers (the part of CleanersClean about it).
THEOREM BlocksOnlyGrow == Spec => Access!BlockHolds
<1> DEFINE Holds == \A u \in Callers : Access!Active(u) =>
                      /\ blocked'[u] # None
                      /\ blocked'[u] >= blocked[u] - 1
<1>1. Init => AccessInv
  BY GuardConstants, AccessInit DEF Init
<1>2. [StoreStep \/ AccessStep \/ WebhookStep]_vars => [Access!Next]_accessVars
  BY DEF StoreStep, AccessStep, WebhookStep, vars, accessVars
<1>3. AccessInv /\ [Access!Next]_accessVars => AccessInv'
  BY GuardConstants, AccessNext
<1>4. AccessInv /\ [Access!Next]_accessVars => [Holds]_(Access!vars)
  BY GuardConstants, BlockStep DEF accessVars, Access!vars
<1> QED
  BY <1>1, <1>2, <1>3, <1>4, PTL DEF Spec, Access!BlockHolds

----------------------------------------------------------------------------
(* The rotation of the credentials of the webhook server.                   *)

\* Credentials are numbered upwards, so that a rotation replaces an older
\* one, and only what replaces the current credential makes it expire.
RotationInv ==
    /\ clock \in 0..Horizon
    /\ rotation \in [phase : {"idle", "started", "telling", "told", "ending"},
                     old : Nat, new : Nat]
    /\ current \in Nat /\ current <= rotation.new
    /\ rotation.phase \in {"telling", "told"} =>
         rotation.old = current /\ current < rotation.new
    /\ Webhook!CurrentAccepted

LEMMA RotationInit == ASSUME Webhook!RotationConstants PROVE Webhook!Init => RotationInv
BY DEF Webhook!Init, RotationInv, Webhook!RotationConstants, Webhook!CurrentAccepted

LEMMA RotationNext ==
  ASSUME Webhook!RotationConstants, RotationInv, [Webhook!Next]_webhookVars
  PROVE  RotationInv'
<1>1. /\ clock \in Nat /\ Horizon \in Nat /\ Grace \in Nat /\ clock <= Horizon
      /\ current \in Nat /\ rotation.new \in Nat
  BY DEF RotationInv, Webhook!RotationConstants
<1>2. CASE UNCHANGED <<accepted, current, rotation, clock>>
  BY <1>2 DEF RotationInv, Webhook!CurrentAccepted
<1>3. CASE \E u \in Updates : Webhook!Resolve(u)
  <2>1. /\ accepted' = [c \in Webhook!Valid |-> accepted[c]]
        /\ UNCHANGED <<current, rotation, clock>>
    BY <1>3 DEF Webhook!Resolve
  <2>2. current \in Webhook!Valid
    BY <1>1 DEF RotationInv, Webhook!CurrentAccepted, Webhook!Valid, Webhook!Expired,
                Webhook!Never
  <2>3. Webhook!CurrentAccepted'
    BY <2>1, <2>2 DEF RotationInv, Webhook!CurrentAccepted
  <2> QED
    BY <2>1, <2>3 DEF RotationInv
<1>4. CASE \E u \in Updates : Webhook!Send(u) \/ Webhook!Count(u) \/ Webhook!Mishap(u)
  BY <1>2, <1>4 DEF Webhook!Send, Webhook!Count, Webhook!Mishap, Webhook!serverVars
<1>5. CASE \E u \in Updates : Webhook!Answer(u)
  <2>1. /\ UNCHANGED <<accepted, current, clock>>
        /\ rotation' = rotation \/ rotation' = [rotation EXCEPT !.phase = "started"]
    BY <1>5 DEF Webhook!Answer
  <2>2. /\ rotation'.new = rotation.new
        /\ rotation' = rotation \/ rotation'.phase = "started"
        /\ rotation' \in [phase : {"idle", "started", "telling", "told", "ending"},
                          old : Nat, new : Nat]
    BY <2>1 DEF RotationInv
  <2> QED
    BY <2>1, <2>2 DEF RotationInv, Webhook!CurrentAccepted
<1>6. CASE Webhook!Generate
  <2>1. /\ UNCHANGED <<accepted, current, clock>>
        /\ rotation' = [phase |-> "telling", old |-> current, new |-> rotation.new + 1]
    BY <1>6 DEF Webhook!Generate
  <2> QED
    BY <1>1, <2>1 DEF RotationInv, Webhook!CurrentAccepted
<1>7. CASE Webhook!Tell \/ Webhook!TellFails \/ Webhook!EndRotation
  <2>1. /\ UNCHANGED <<accepted, current, clock>>
        /\ \/ rotation.phase = "telling" /\ rotation' = [rotation EXCEPT !.phase = "told"]
           \/ rotation' = [rotation EXCEPT !.phase = "ending"]
           \/ rotation' = [rotation EXCEPT !.phase = "idle"]
    BY <1>7 DEF Webhook!Tell, Webhook!TellFails, Webhook!EndRotation, Webhook!Rotate
  <2>2. /\ rotation' \in [phase : {"idle", "started", "telling", "told", "ending"},
                          old : Nat, new : Nat]
        /\ rotation'.old = rotation.old /\ rotation'.new = rotation.new
        /\ rotation'.phase \in {"telling", "told"} => rotation.phase = "telling"
    BY <2>1 DEF RotationInv
  <2> QED
    BY <2>1, <2>2 DEF RotationInv, Webhook!CurrentAccepted
<1>8. CASE Webhook!Accept
  <2>1. /\ current' = rotation.new /\ UNCHANGED clock /\ rotation.phase = "told"
        /\ rotation' = [rotation EXCEPT !.phase = "ending"]
        /\ accepted' = [c \in DOMAIN accepted \cup {rotation.old, rotation.new} |->
                          IF c = rotation.old THEN clock + Grace
                          ELSE IF c = rotation.new THEN Webhook!Never ELSE accepted[c]]
    BY <1>8 DEF Webhook!Accept, Webhook!Rotate
  <2>2. rotation.old # rotation.new
    BY <1>1, <2>1 DEF RotationInv
  <2>3. Webhook!CurrentAccepted'
    BY <2>1, <2>2 DEF Webhook!CurrentAccepted, Webhook!Never
  <2>4. /\ rotation' \in [phase : {"idle", "started", "telling", "told", "ending"},
                          old : Nat, new : Nat]
        /\ rotation'.phase = "ending" /\ rotation'.new = rotation.new
    BY <2>1 DEF RotationInv
  <2> QED
    BY <1>1, <2>1, <2>3, <2>4 DEF RotationInv
<1>9. CASE Webhook!Tick
  <2>1. clock < Horizon /\ clock' = clock + 1 /\ UNCHANGED <<accepted, current, rotation>>
    BY <1>9 DEF Webhook!Tick, Webhook!serverVars
  <2> QED
    BY <1>1, <2>1 DEF RotationInv, Webhook!CurrentAccepted
<1>10. CASE UNCHANGED webhookVars
  BY <1>2, <1>10 DEF webhookVars
<1> QED
  BY <1>3, <1>4, <1>5, <1>6, <1>7, <1>8, <1>9, <1>10
     DEF Webhook!Next, Webhook!Handle, Webhook!RotationStep

\* The credential the server takes for its own never expires, for every
\* threshold, period of grace and number of failed and successful rotations.
THEOREM CurrentNeverExpires == Spec => []CurrentAccepted
<1>1. Init => RotationInv
  BY GuardConstants, RotationInit DEF Init
<1>2. RotationInv /\ [StoreStep \/ AccessStep \/ WebhookStep]_vars => RotationInv'
  BY GuardConstants, RotationNext DEF StoreStep, AccessStep, WebhookStep, vars, webhookVars
<1>3. RotationInv => CurrentAccepted
  BY DEF RotationInv, CurrentAccepted
<1> QED
  BY <1>1, <1>2, <1>3, PTL DEF Spec

\* What the server accepted once is told to Telegram only while it is the
\* current credential, and is accepted for the period of grace from the time
\* it was told no more.
Refusable(c) == clock >= left[c] + Grace

GraceInv ==
    /\ request \in [Updates -> [phase : {"pending", "sent", "known", "counted", "answered"},
                                with : Nat]]
    /\ accepted \in [DOMAIN accepted -> Nat]
    /\ told \in Nat
    /\ rotation.phase = "told" => told = rotation.new
    /\ \A c \in DOMAIN left :
         /\ c \in Nat /\ c <= rotation.new
         /\ rotation.phase \in {"telling", "told"} => c < rotation.new
         /\ \/ left[c] = Webhook!Never /\ c = current /\ c = told
            \/ /\ left[c] \in Nat /\ left[c] <= clock /\ c # told
               /\ \/ c = current
                  \/ c \in DOMAIN accepted /\ accepted[c] >= left[c] + Grace
                  \/ Refusable(c)

LEMMA GraceInit == ASSUME Webhook!RotationConstants, Webhook!Init PROVE GraceInv
BY DEF Webhook!Init, Webhook!RotationConstants, GraceInv, Webhook!Never

\* Requests change nothing but themselves, and rotations when they start.
LEMMA GraceOfRequests ==
  ASSUME Webhook!RotationConstants, RotationInv, GraceInv, NEW u \in Updates,
         Webhook!Handle(u) \/ Webhook!Mishap(u)
  PROVE  GraceInv'
<1> DEFINE Phases == {"pending", "sent", "known", "counted", "answered"}
<1>1. /\ clock \in Nat /\ Grace \in Nat /\ rotation.new \in Nat
      /\ UNCHANGED <<told, clock, current, left>>
  BY DEF RotationInv, Webhook!RotationConstants, Webhook!Handle, Webhook!Send,
         Webhook!Resolve,
         Webhook!Count, Webhook!Answer, Webhook!Mishap, Webhook!serverVars
<1>2. request' \in [Updates -> [phase : Phases, with : Nat]]
  <2>1. CASE Webhook!Send(u)
    BY <2>1 DEF Webhook!Send, GraceInv
  <2>2. CASE \E p \in Phases : Webhook!Become(u, p)
    BY <2>2 DEF Webhook!Become, GraceInv
  <2> QED
    BY <2>1, <2>2 DEF Webhook!Handle, Webhook!Resolve, Webhook!Count, Webhook!Answer,
                      Webhook!Mishap
<1>3. /\ rotation' = rotation \/ rotation' = [rotation EXCEPT !.phase = "started"]
      /\ rotation'.new = rotation.new
      /\ rotation'.phase = rotation.phase \/ rotation'.phase = "started"
  <2>1. rotation' = rotation \/ rotation' = [rotation EXCEPT !.phase = "started"]
    BY DEF Webhook!Handle, Webhook!Send, Webhook!Resolve, Webhook!Count, Webhook!Answer,
           Webhook!Mishap, Webhook!serverVars
  <2> QED
    BY <2>1 DEF RotationInv
<1>4. \/ accepted' = accepted
      \/ accepted' = [c \in Webhook!Valid |-> accepted[c]]
  BY DEF Webhook!Handle, Webhook!Send, Webhook!Resolve, Webhook!Count, Webhook!Answer,
         Webhook!Mishap, Webhook!serverVars
<1>5. /\ accepted' \in [DOMAIN accepted' -> Nat]
      /\ \A c \in DOMAIN accepted : \/ c \in DOMAIN accepted' /\ accepted'[c] = accepted[c]
                                    \/ clock >= accepted[c]
  BY <1>4 DEF GraceInv, Webhook!Valid, Webhook!Expired
<1>6. ASSUME NEW c \in DOMAIN left, left[c] \in Nat, c \in DOMAIN accepted,
             accepted[c] >= left[c] + Grace
      PROVE  \/ c \in DOMAIN accepted' /\ accepted'[c] >= left[c] + Grace
             \/ clock >= left[c] + Grace
  <2>1. accepted[c] \in Nat
    BY <1>6 DEF GraceInv
  <2> QED
    BY <1>1, <1>5, <1>6, <2>1
<1> QED
  BY <1>1, <1>2, <1>3, <1>5, <1>6 DEF GraceInv, Refusable

LEMMA GraceNext ==
  ASSUME Webhook!RotationConstants, RotationInv, GraceInv, [Webhook!Next]_webhookVars
  PROVE  GraceInv'
<1>1. /\ clock \in Nat /\ Horizon \in Nat /\ Grace \in Nat /\ clock <= Horizon
      /\ current \in Nat /\ rotation.new \in Nat
  BY DEF RotationInv, Webhook!RotationConstants
<1>2. ASSUME UNCHANGED <<request, accepted, told, current, clock, left>>,
             rotation'.new = rotation.new,
             rotation'.phase \in {"telling", "told"} => rotation'.phase = rotation.phase
      PROVE  GraceInv'
  BY <1>2 DEF GraceInv, Refusable
<1>3. CASE \E u \in Updates : Webhook!Handle(u) \/ Webhook!Mishap(u)
  BY <1>3, GraceOfRequests
<1>4. CASE Webhook!Generate
  <2>1. /\ UNCHANGED <<request, accepted, told, current, clock, left>>
        /\ rotation' = [phase |-> "telling", old |-> current, new |-> rotation.new + 1]
    BY <1>4 DEF Webhook!Generate
  <2>2. rotation'.new = rotation.new + 1 /\ rotation'.phase = "telling"
    BY <2>1
  <2>3. \A c \in DOMAIN left : c < rotation'.new /\ c <= rotation'.new
    BY <1>1, <2>2 DEF GraceInv
  <2> QED
    BY <2>1, <2>2, <2>3 DEF GraceInv, Refusable
<1>5. CASE Webhook!TellFails \/ Webhook!EndRotation
  <2>1. /\ UNCHANGED <<request, accepted, told, current, clock, left>>
        /\ \/ rotation' = [rotation EXCEPT !.phase = "ending"]
           \/ rotation' = [rotation EXCEPT !.phase = "idle"]
    BY <1>5 DEF Webhook!TellFails, Webhook!EndRotation, Webhook!Rotate
  <2>2. rotation'.new = rotation.new /\ rotation'.phase \notin {"telling", "told"}
    BY <2>1 DEF RotationInv
  <2> QED
    BY <1>2, <2>1, <2>2
<1>6. CASE Webhook!Tell
  <2>1. /\ UNCHANGED <<request, accepted, current, clock>>
        /\ rotation.phase = "telling" /\ rotation' = [rotation EXCEPT !.phase = "told"]
        /\ told' = rotation.new
        /\ left' = [c \in DOMAIN left |-> IF c = told THEN clock ELSE left[c]]
    BY <1>6 DEF Webhook!Tell, Webhook!Rotate
  <2>2. rotation'.new = rotation.new /\ rotation'.phase = "told"
    BY <2>1 DEF RotationInv
  <2>3. ASSUME NEW c \in DOMAIN left
        PROVE  /\ left'[c] \in Nat /\ left'[c] <= clock /\ c # told'
               /\ \/ c = current
                  \/ c \in DOMAIN accepted /\ accepted[c] >= left'[c] + Grace
                  \/ clock >= left'[c] + Grace
    <3>1. c \in Nat /\ c < rotation.new
      BY <2>1 DEF GraceInv
    <3>2. c # told'
      BY <1>1, <2>1, <3>1
    <3>3. CASE c = told
      BY <1>1, <2>1, <3>2, <3>3 DEF GraceInv
    <3>4. CASE c # told
      BY <2>1, <3>2, <3>4 DEF GraceInv, Refusable
    <3> QED
      BY <3>3, <3>4
  <2>4. \A c \in DOMAIN left : c \in Nat /\ c < rotation.new /\ c <= rotation.new
    BY <2>1 DEF GraceInv
  <2>5. DOMAIN left' = DOMAIN left
    BY <2>1
  <2> QED
    BY <1>1, <2>1, <2>2, <2>3, <2>4, <2>5 DEF GraceInv, Refusable
<1>7. CASE Webhook!Accept
  <2> DEFINE old == rotation.old
             new == rotation.new
  <2>1. /\ UNCHANGED <<request, told, clock>> /\ current' = new /\ rotation.phase = "told"
        /\ rotation' = [rotation EXCEPT !.phase = "ending"]
        /\ accepted' = [c \in DOMAIN accepted \cup {old, new} |->
                          IF c = old THEN clock + Grace
                          ELSE IF c = new THEN Webhook!Never ELSE accepted[c]]
        /\ left' = [c \in DOMAIN left \cup {new} |->
                      IF c = new THEN Webhook!Never ELSE left[c]]
    BY <1>7 DEF Webhook!Accept, Webhook!Rotate, Webhook!Taken
  <2>2. /\ rotation'.new = new /\ rotation'.phase = "ending"
        /\ old = current /\ current < new /\ told = new /\ old \in Nat /\ old # new
    BY <1>1, <2>1 DEF RotationInv, GraceInv
  <2>3. accepted' \in [DOMAIN accepted' -> Nat]
    BY <1>1, <2>1 DEF GraceInv, Webhook!Never
  <2>4. ASSUME NEW c \in DOMAIN left, c # new
        PROVE  /\ left'[c] \in Nat /\ left'[c] <= clock /\ c # told
               /\ \/ c \in DOMAIN accepted' /\ accepted'[c] >= left'[c] + Grace
                  \/ clock >= left'[c] + Grace
    <3>1. /\ left'[c] = left[c] /\ left[c] \in Nat /\ left[c] <= clock /\ c # told
          /\ \/ c = current
             \/ c \in DOMAIN accepted /\ accepted[c] >= left[c] + Grace
             \/ clock >= left[c] + Grace
      BY <2>1, <2>2, <2>4 DEF GraceInv, Refusable
    <3>2. CASE c = current
      <4>1. c \in DOMAIN accepted' /\ accepted'[c] = clock + Grace
        BY <2>1, <2>2, <3>2
      <4> QED
        BY <1>1, <3>1, <4>1
    <3>3. CASE c # current
      BY <2>1, <2>2, <2>4, <3>1, <3>3
    <3> QED
      BY <3>2, <3>3
  <2>5. left'[new] = Webhook!Never /\ DOMAIN left' = DOMAIN left \cup {new}
    BY <2>1
  <2>6. \A c \in DOMAIN left : c \in Nat /\ c <= new
    BY DEF GraceInv
  <2> QED
    BY <1>1, <2>1, <2>2, <2>3, <2>4, <2>5, <2>6 DEF GraceInv, Refusable
<1>8. CASE Webhook!Tick
  <2>1. clock' = clock + 1 /\ UNCHANGED <<request, accepted, told, current, rotation, left>>
    BY <1>8 DEF Webhook!Tick, Webhook!serverVars
  <2> QED
    BY <1>1, <2>1 DEF GraceInv, Refusable
<1>9. CASE UNCHANGED webhookVars
  BY <1>2, <1>9 DEF webhookVars
<1> QED
  BY <1>3, <1>4, <1>5, <1>6, <1>7, <1>8, <1>9 DEF Webhook!Next, Webhook!RotationStep

\* Only the look-up of a credential refuses, and only what has expired.
LEMMA RefusalStep ==
  ASSUME Webhook!RotationConstants, RotationInv, GraceInv, [Webhook!Next]_webhookVars,
         NEW u \in Updates, request[u].phase = "sent", request'[u].phase = "pending",
         request[u].with \in DOMAIN left
  PROVE  clock >= left[request[u].with] + Grace
<1> DEFINE c == request[u].with
<1>1. Webhook!Resolve(u)
  <2>1. ASSUME NEW v \in Updates, NEW r, request' = [request EXCEPT ![v] = r],
               v = u => r.phase # "pending"
        PROVE  FALSE
    BY <2>1 DEF GraceInv
  <2>2. \A v \in Updates : ~Webhook!Send(v)
    BY <2>1 DEF Webhook!Send
  <2>3. ASSUME NEW v \in Updates, NEW p, Webhook!Become(v, p) PROVE v = u /\ p = "pending"
    BY <2>3 DEF Webhook!Become, GraceInv
  <2>4. \A v \in Updates : ~Webhook!Count(v) /\ ~Webhook!Answer(v) /\ ~Webhook!Mishap(v)
    BY <2>3 DEF Webhook!Count, Webhook!Answer, Webhook!Mishap
  <2>5. request' # request
    OBVIOUS
  <2>6. \A v \in Updates : Webhook!Resolve(v) => v = u
    BY <2>3 DEF Webhook!Resolve
  <2> QED
    BY <2>2, <2>4, <2>5, <2>6
       DEF Webhook!Next, Webhook!Handle, Webhook!RotationStep, Webhook!Generate,
           Webhook!Tell,
           Webhook!TellFails, Webhook!Accept, Webhook!EndRotation, Webhook!Rotate,
           Webhook!Tick, webhookVars
<1>2. c \notin Webhook!Valid
  BY <1>1 DEF Webhook!Resolve, Webhook!Become, GraceInv
<1>3. /\ clock \in Nat /\ Horizon \in Nat /\ Grace \in Nat /\ clock <= Horizon
  BY DEF RotationInv, Webhook!RotationConstants
<1>4. current \in Webhook!Valid
  BY <1>3 DEF RotationInv, Webhook!CurrentAccepted, Webhook!Valid, Webhook!Expired,
              Webhook!Never
<1>5. /\ left[c] \in Nat
      /\ \/ c \in DOMAIN accepted /\ accepted[c] >= left[c] + Grace
         \/ clock >= left[c] + Grace
  BY <1>2, <1>4 DEF GraceInv, Refusable
<1>6. CASE c \in DOMAIN accepted /\ accepted[c] >= left[c] + Grace
  <2>1. clock >= accepted[c]
    BY <1>2, <1>6 DEF Webhook!Valid, Webhook!Expired
  <2>2. accepted[c] \in Nat
    BY <1>6 DEF GraceInv
  <2> QED
    BY <1>3, <1>5, <1>6, <2>1, <2>2
<1> QED
  BY <1>5, <1>6

\* A request is refused only a period of grace after Telegram stopped using
\* its credential, for every threshold, period and pattern of failures (the
\* part of UpdatesGetThrough that is not about time to come).
THEOREM RefusedOnlyLate == Spec => Webhook!RefusedOutsideGrace
<1> DEFINE Late == \A u \in Updates :
                     request[u].phase = "sent" /\ request'[u].phase = "pending" =>
                       \/ request[u].with \notin DOMAIN left
                       \/ clock >= left[request[u].with] + Grace
<1>1. Init => RotationInv /\ GraceInv
  BY GuardConstants, RotationInit, GraceInit DEF Init
<1>2. [StoreStep \/ AccessStep \/ WebhookStep]_vars => [Webhook!Next]_webhookVars
  BY DEF StoreStep, AccessStep, WebhookStep, vars, webhookVars
<1>3. RotationInv /\ GraceInv /\ [Webhook!Next]_webhookVars => (RotationInv /\ GraceInv)'
  BY GuardConstants, RotationNext, GraceNext
<1>4. RotationInv /\ GraceInv /\ [Webhook!Next]_webhookVars => [Late]_(Webhook!vars)
  BY GuardConstants, RefusalStep DEF webhookVars, Webhook!vars
<1> QED
  BY <1>1, <1>2, <1>3, <1>4, PTL DEF Spec, Webhook!RefusedOutsideGrace
=============================================================================
