-------------------------- MODULE MCMessages_proofs --------------------------
(***************************************************************************)
(* What must not count twice.  The code of a step opens one login at most, *)
(* only replays are refused, and what is granted is on disk: for every     *)
(* number of workers and users, every code function (codes of different    *)
(* steps may collide), and crashes and failed writes at any point.  An     *)
(* update is handled once while its entry lasts and the rate limit is      *)
(* exact up to the delay: for every number of workers, every capacity,     *)
(* limit and period.  The assumptions on timing are ReplayConstants and    *)
(* MessageConstants.                                                       *)
(***************************************************************************)
EXTENDS MCMessages, FiniteSetTheorems, SequenceTheorems, TLAPS

----------------------------------------------------------------------------
(* The replay protection of one-time codes.                                 *)

Pending(w) == phase[w] \in {"granting", "granted"}

WorkersOK ==
    /\ phase \in [Workers -> {"idle", "resolved", "granting", "refusing", "granted"}]
    /\ read \in [Workers -> Nat]
    /\ marker \in [Workers -> Marker \cup {NoMarker}]
    /\ \A w \in Workers : phase[w] # "idle" =>
         /\ marker[w] \in Genuine
         /\ read[w] <= now
         /\ marker[w].step \in (read[w] - 1) .. (read[w] + 1)
    /\ \A w \in Workers : phase[w] = "resolved" => now - read[w] <= MaxLag
    /\ \A w \in Workers : phase[w] \in {"granting", "refusing"} <=> lock = w

MemoryOK ==
    /\ now \in Nat
    /\ loaded \in BOOLEAN /\ failed \in BOOLEAN
    /\ used \subseteq Genuine /\ file \subseteq Genuine /\ granted \subseteq Genuine
    /\ \A m \in used \cup file : m.step <= now + 1
    /\ lock # Nobody => loaded
    /\ ~loaded => used = {} /\ ~failed

\* What was granted, or is about to be, is remembered as long as its code
\* can match, and no two workers are about to grant the same.
Remembered ==
    /\ \A m \in granted : InWindow(m) => m \in Memory
    /\ \A w \in Workers : Pending(w) /\ InWindow(marker[w]) => marker[w] \in Memory
    /\ \A w \in Workers : Pending(w) => marker[w] \notin granted
    /\ \A v, w \in Workers : Pending(v) /\ Pending(w) /\ marker[v] = marker[w] => v = w
    /\ again = {}

Durable ==
    ~failed =>
      /\ \A m \in granted : InWindow(m) => m \in file
      /\ \A w \in Workers : phase[w] = "granted" /\ InWindow(marker[w]) => marker[w] \in file

Noted ==
    /\ used \cup file \subseteq seen
    /\ \A w \in Workers : phase[w] = "refusing" => marker[w] \in seen

ReplayInv == WorkersOK /\ MemoryOK /\ Remembered /\ Durable /\ Noted

\* The numbers the assumption speaks of.
LEMMA Numbers ==
  /\ WindowSteps \in Nat /\ MaxTracked \in Nat /\ MaxLag \in Nat /\ MaxTime \in Nat
  /\ MaxLag + 1 <= WindowSteps
  /\ WindowSteps + MaxLag + 2 <= MaxTracked
  /\ Nobody \notin Workers
  /\ Steps \subseteq Nat
BY ReplayConstants DEF Steps

LEMMA MarkerFields ==
  ASSUME NEW m \in Genuine
  PROVE  /\ m \in Marker /\ m.user \in Users /\ m.step \in Nat
         /\ m.code = CodeOf(m.user, m.step)
BY Numbers DEF Genuine, Marker

LEMMA ReplayInit == Init => ReplayInv
<1> SUFFICES ASSUME Init PROVE ReplayInv
  OBVIOUS
<1>1. \A w \in Workers : phase[w] = "idle"
  BY DEF Init
<1>2. WorkersOK
  BY <1>1, Numbers DEF Init, WorkersOK
<1>3. MemoryOK
  BY DEF Init, MemoryOK
<1>4. Remembered /\ Durable /\ Noted
  BY <1>1 DEF Init, Remembered, Durable, Noted, Pending
<1> QED
  BY <1>2, <1>3, <1>4 DEF ReplayInv

\* A user has one genuine marker per step, so that as many as a window holds
\* are never cut down.
LEMMA NothingIsDropped ==
  ASSUME NEW u, NEW S \in SUBSET Genuine, NEW a \in Int, NEW b \in Int,
         \A m \in S : m.user = u /\ m.step \in a .. b,
         a <= b + 1, b - a + 1 <= MaxTracked,
         NEW T, IsNewest(T, S)
  PROVE  T = S
<1> DEFINE f == [m \in S |-> m.step]
<1>1. f \in [S -> a .. b]
  OBVIOUS
<1>2. \A m, n \in S : f[m] = f[n] => m = n
  <2> SUFFICES ASSUME NEW m \in S, NEW n \in S, f[m] = f[n] PROVE m = n
    OBVIOUS
  <2>1. m.step = n.step /\ m.user = n.user
    OBVIOUS
  <2>2. m.code = n.code
    BY <2>1, MarkerFields
  <2>3. m \in Marker /\ n \in Marker
    BY MarkerFields
  <2> QED
    BY <2>1, <2>2, <2>3 DEF Marker
<1>3. f \in Injection(S, a .. b)
  BY <1>1, <1>2 DEF Injection, IsInjective
<1>4. IsFiniteSet(a .. b) /\ Cardinality(a .. b) <= MaxTracked
  <2>1. IsFiniteSet(a .. b) /\ Cardinality(a .. b) = IF a > b THEN 0 ELSE b - a + 1
    BY FS_Interval
  <2> QED
    BY <2>1, Numbers
<1>5. IsFiniteSet(S) /\ Cardinality(S) <= Cardinality(a .. b)
  BY <1>3, <1>4, FS_Injection
<1>6. Cardinality(S) <= MaxTracked
  BY <1>4, <1>5, FS_CardinalityType, Numbers
<1>7. T \in SUBSET S /\ Cardinality(T) = Cardinality(S)
  BY <1>6 DEF IsNewest
<1> QED
  BY <1>5, <1>7, FS_Subset

----------------------------------------------------------------------------
\* A code is looked up: the worker is not about to grant anything.
LEMMA ResolveKeeps ==
  ASSUME ReplayInv, NEW w \in Workers, NEW u \in Users, NEW c \in Codes, Resolve(w, u, c)
  PROVE  ReplayInv'
<1>1. PICK s \in Steps :
        /\ IsFirst(s, Matching(u, c, now))
        /\ marker' = [marker EXCEPT ![w] = [user |-> u, code |-> c, step |-> s]]
  BY DEF Resolve
<1>2. s \in (now - 1) .. (now + 1) /\ CodeOf(u, s) = c /\ s \in Nat
  BY <1>1, Numbers DEF IsFirst, Matching, ReplayInv, MemoryOK
<1> DEFINE m == [user |-> u, code |-> c, step |-> s]
<1>3. m \in Genuine /\ m \in Marker /\ m.step = s
  BY <1>1, <1>2 DEF Genuine, Marker
<1>4. /\ phase[w] = "idle" /\ phase'[w] = "resolved" /\ read'[w] = now /\ marker'[w] = m
      /\ \A v \in Workers \ {w} : /\ phase'[v] = phase[v] /\ read'[v] = read[v]
                                  /\ marker'[v] = marker[v]
      /\ phase' \in [Workers -> {"idle", "resolved", "granting", "refusing", "granted"}]
      /\ read' \in [Workers -> Nat]
      /\ marker' \in [Workers -> Marker \cup {NoMarker}]
      /\ UNCHANGED <<now, lock, used, loaded, file, granted, again, seen, failed>>
  BY <1>1, <1>3 DEF Resolve, Goto, memory, history, ReplayInv, WorkersOK, MemoryOK
<1> HIDE DEF m
<1>5. WorkersOK'
  BY <1>2, <1>3, <1>4, Numbers DEF ReplayInv, WorkersOK, MemoryOK
<1>6. MemoryOK' /\ Memory' = Memory
  BY <1>4 DEF ReplayInv, MemoryOK, Memory
<1>7. Remembered'
  BY <1>4, <1>6 DEF ReplayInv, Remembered, Pending, InWindow
<1>8. Durable' /\ Noted'
  BY <1>4 DEF ReplayInv, Durable, Noted, InWindow
<1> QED
  BY <1>5, <1>6, <1>7, <1>8 DEF ReplayInv

\* A marker is entered or found.  Nothing in the window is dropped from the
\* memory, so that a marker that is not found was not granted.
\* Registering: a marker that is remembered is refused, one that is not is
\* remembered from now on, and what is in the window stays remembered.
LEMMA RegisterEffect ==
  ASSUME ReplayInv, NEW w \in Workers, Register(w)
  PROVE  /\ phase[w] = "resolved" /\ lock = Nobody /\ lock' = w /\ loaded' = TRUE
         /\ UNCHANGED <<now, read, marker, file, granted, again, failed>>
         /\ marker[w] \in Genuine /\ InWindow(marker[w]) /\ marker[w].step <= now + 1
         /\ \A x \in Memory : InWindow(x) => x \in used'
         /\ \/ /\ marker[w] \in Memory /\ used' \subseteq Memory
               /\ Goto(w, "refusing") /\ UNCHANGED seen
            \/ /\ marker[w] \notin Memory /\ marker[w] \in used'
               /\ used' \subseteq Memory \cup {marker[w]}
               /\ Goto(w, "granting") /\ seen' = seen \cup {marker[w]}
<1> DEFINE m      == marker[w]
           min    == MinStep(w)
           known  == Load(min)
           mine   == Active(OfUser(known, m.user), min)
           others == known \ OfUser(known, m.user)
<1>1. /\ phase[w] = "resolved" /\ lock = Nobody /\ lock' = w /\ loaded' = TRUE
      /\ UNCHANGED <<now, read, marker, file, granted, again, failed>>
  BY DEF Register
<1>2. /\ m \in Genuine /\ m.step \in Nat /\ read[w] \in Nat /\ now \in Nat
      /\ m.step \in (read[w] - 1) .. (read[w] + 1)
      /\ read[w] <= now /\ now - read[w] <= MaxLag
      /\ min = read[w] - WindowSteps /\ min \in Int
  BY <1>1, MarkerFields, Numbers DEF ReplayInv, WorkersOK, MemoryOK, MinStep
<1>3. m.step >= min /\ m.step <= now + 1 /\ min <= now - WindowSteps /\ InWindow(m)
  BY <1>2, Numbers DEF InWindow
<1>4. known \subseteq Genuine /\ known \subseteq Memory
  BY DEF ReplayInv, MemoryOK, Load, Active, Memory
<1>5. \A x \in Memory : InWindow(x) => x \in known
  <2> SUFFICES ASSUME NEW x \in Memory, InWindow(x) PROVE x \in known
    OBVIOUS
  <2>1. x \in Genuine
    BY DEF Memory, ReplayInv, MemoryOK
  <2>2. x.step >= min
    BY <1>2, <1>3, <2>1, MarkerFields, Numbers DEF InWindow
  <2> QED
    BY <2>2 DEF Memory, Load, Active
<1>6. \A x \in known : InWindow(x) => x \in others \cup mine
  <2> SUFFICES ASSUME NEW x \in known, InWindow(x), x \in OfUser(known, m.user)
               PROVE  x \in mine
    OBVIOUS
  <2>1. x.step >= min
    BY <1>2, <1>3, <1>4, MarkerFields, Numbers DEF InWindow
  <2> QED
    BY <2>1 DEF Active
<1>7. m \in known => m \in mine
  BY <1>3 DEF OfUser, Active
<1>8. others \cup mine \subseteq known
  BY DEF OfUser, Active
<1>9. ASSUME NEW kept, IsNewest(kept, mine \cup {m}) PROVE kept = mine \cup {m}
  <2> DEFINE S == mine \cup {m}
  <2>1. S \in SUBSET Genuine
    BY <1>2, <1>4 DEF Active, OfUser
  <2>2. \A x \in S : x.user = m.user
    BY DEF Active, OfUser
  <2>3. \A x \in S : x.step >= min /\ x.step <= now + 1 /\ x.step \in Nat
    BY <1>2, <1>3, <1>4, <2>1, MarkerFields DEF Active, OfUser, ReplayInv, MemoryOK, Memory
  <2>4. \A x \in S : x.user = m.user /\ x.step \in min .. (now + 1)
    BY <1>2, <2>2, <2>3
  <2>5. /\ now + 1 \in Int /\ min <= now + 1 + 1
        /\ now + 1 - min + 1 <= MaxTracked
    BY <1>2, Numbers
  <2>6. IsNewest(kept, S) /\ min \in Int
    BY <1>2, <1>9
  <2> HIDE DEF S, m, min
  <2> DEFINE last == now + 1
  <2>7. /\ last \in Int /\ min <= last + 1 /\ last - min + 1 <= MaxTracked
        /\ \A x \in S : x.user = m.user /\ x.step \in min .. last
    BY <1>2, <2>4, <2>5, Numbers
  <2> HIDE DEF last
  <2>8. kept = S
    BY <2>1, <2>6, <2>7, NothingIsDropped
  <2> QED
    BY <2>8 DEF S
<1> HIDE DEF mine, others, known, min, m
<1>10. \/ Replayed(m, mine) /\ used' = others \cup mine /\ Goto(w, "refusing") /\ UNCHANGED seen
       \/ /\ ~Replayed(m, mine)
          /\ \E kept \in SUBSET (mine \cup {m}) :
               IsNewest(kept, mine \cup {m}) /\ used' = others \cup kept
          /\ Goto(w, "granting") /\ seen' = seen \cup {m}
  BY DEF Register, mine, others, known, min, m
<1>11. CASE Replayed(m, mine) /\ used' = others \cup mine /\ Goto(w, "refusing")
            /\ UNCHANGED seen
  BY <1>1, <1>2, <1>3, <1>4, <1>5, <1>6, <1>8, <1>11 DEF Replayed, m
<1>12. CASE ~Replayed(m, mine) /\ used' = others \cup (mine \cup {m}) /\ Goto(w, "granting")
            /\ seen' = seen \cup {m}
  <2>1. m \notin Memory
    BY <1>3, <1>5, <1>7, <1>12 DEF Replayed
  <2>2. \A x \in Memory : InWindow(x) => x \in used'
    BY <1>5, <1>6, <1>12
  <2> QED
    BY <1>1, <1>2, <1>3, <1>4, <1>8, <1>12, <2>1, <2>2 DEF m
<1> QED
  BY <1>9, <1>10, <1>11, <1>12

LEMMA RegisterKeeps ==
  ASSUME ReplayInv, NEW w \in Workers, Register(w)
  PROVE  ReplayInv'
<1> DEFINE m == marker[w]
<1>1. /\ phase[w] = "resolved" /\ lock = Nobody /\ lock' = w /\ loaded' = TRUE
      /\ UNCHANGED <<now, read, marker, file, granted, again, failed>>
      /\ m \in Genuine /\ InWindow(m) /\ m.step <= now + 1
  BY RegisterEffect
<1>2. \A x \in Memory : InWindow(x) => x \in Memory'
  BY RegisterEffect DEF Memory
<1>3. Memory \subseteq used \cup file /\ Memory' = used'
  BY <1>1 DEF Memory
<1>4. /\ phase \in [Workers -> {"idle", "resolved", "granting", "refusing", "granted"}]
      /\ \A v \in Workers : phase[v] \notin {"granting", "refusing"}
  BY <1>1, Numbers DEF ReplayInv, WorkersOK
<1>5. CASE m \in Memory /\ used' \subseteq Memory /\ Goto(w, "refusing") /\ UNCHANGED seen
  <2>1. /\ phase'[w] = "refusing"
        /\ \A v \in Workers \ {w} : phase'[v] = phase[v]
        /\ phase' \in [Workers -> {"idle", "resolved", "granting", "refusing", "granted"}]
    BY <1>4, <1>5 DEF Goto
  <2>2. WorkersOK'
    BY <1>1, <1>4, <2>1, Numbers DEF ReplayInv, WorkersOK
  <2>3. MemoryOK'
    BY <1>1, <1>3, <1>5 DEF ReplayInv, MemoryOK
  <2>4. Remembered'
    BY <1>1, <1>2, <1>4, <2>1 DEF ReplayInv, Remembered, Pending, InWindow
  <2>5. Durable'
    BY <1>1, <2>1 DEF ReplayInv, Durable, InWindow
  <2>6. Noted'
    BY <1>1, <1>3, <1>5, <2>1 DEF ReplayInv, Noted
  <2> QED
    BY <2>2, <2>3, <2>4, <2>5, <2>6 DEF ReplayInv
<1>6. CASE /\ m \notin Memory /\ m \in used' /\ used' \subseteq Memory \cup {m}
           /\ Goto(w, "granting") /\ seen' = seen \cup {m}
  <2>1. /\ phase'[w] = "granting"
        /\ \A v \in Workers \ {w} : phase'[v] = phase[v]
        /\ phase' \in [Workers -> {"idle", "resolved", "granting", "refusing", "granted"}]
    BY <1>4, <1>6 DEF Goto
  <2>2. WorkersOK'
    BY <1>1, <1>4, <2>1, Numbers DEF ReplayInv, WorkersOK
  <2>3. MemoryOK'
    BY <1>1, <1>3, <1>6 DEF ReplayInv, MemoryOK
  <2>4. m \in Memory' /\ m \notin granted
    BY <1>1, <1>3, <1>6 DEF ReplayInv, Remembered
  <2>5. \A v \in Workers : Pending(v) => marker[v] # m
    BY <1>1, <1>6 DEF ReplayInv, Remembered
  <2>6. \A v \in Workers : Pending(v)' <=> Pending(v) \/ v = w
    BY <1>1, <2>1 DEF Pending
  <2>7. Remembered'
    BY <1>1, <1>2, <2>4, <2>5, <2>6 DEF ReplayInv, Remembered, InWindow
  <2>8. Durable'
    BY <1>1, <2>1 DEF ReplayInv, Durable, InWindow
  <2>9. Noted'
    BY <1>1, <1>3, <1>6, <2>1 DEF ReplayInv, Noted
  <2> QED
    BY <2>2, <2>3, <2>7, <2>8, <2>9 DEF ReplayInv
<1> QED
  BY <1>5, <1>6, RegisterEffect

----------------------------------------------------------------------------
\* The file is written, with all that is in the window, or the failure is
\* known.
LEMMA PersistKeeps ==
  ASSUME ReplayInv, NEW w \in Workers, Persist(w)
  PROVE  ReplayInv'
<1> DEFINE active == Active(used, MinStep(w))
<1>1. /\ lock = w /\ lock' = Nobody /\ loaded = TRUE
      /\ UNCHANGED <<now, loaded, granted, again, seen>>
      /\ phase[w] \in {"granting", "refusing"}
  BY Numbers DEF Persist, ReplayInv, WorkersOK, MemoryOK
<1>2. /\ read[w] \in Nat /\ now \in Nat /\ read[w] <= now
      /\ MinStep(w) <= now - WindowSteps /\ MinStep(w) \in Int
  BY <1>1, Numbers DEF ReplayInv, WorkersOK, MemoryOK, MinStep
<1>3. active \subseteq used /\ \A x \in used : InWindow(x) => x \in active
  <2> SUFFICES ASSUME NEW x \in used, InWindow(x) PROVE x.step >= MinStep(w)
    BY DEF Active
  <2>1. x.step \in Nat
    BY MarkerFields DEF ReplayInv, MemoryOK
  <2> QED
    BY <1>2, <2>1, Numbers DEF InWindow
<1>4. /\ \A v \in Workers \ {w} : /\ phase'[v] = phase[v] /\ read'[v] = read[v]
                                  /\ marker'[v] = marker[v]
                                  /\ phase[v] \notin {"granting", "refusing"}
      /\ phase' \in [Workers -> {"idle", "resolved", "granting", "refusing", "granted"}]
      /\ read' \in [Workers -> Nat]
      /\ marker' \in [Workers -> Marker \cup {NoMarker}]
      /\ \/ phase[w] = "granting" /\ phase'[w] = "granted" /\ marker'[w] = marker[w]
            /\ read'[w] = read[w]
         \/ phase[w] = "refusing" /\ phase'[w] = "idle"
  <2>1. \A v \in Workers \ {w} : phase[v] \notin {"granting", "refusing"}
    BY <1>1 DEF ReplayInv, WorkersOK
  <2>2. CASE phase[w] = "granting" /\ Goto(w, "granted") /\ UNCHANGED <<read, marker>>
    BY <2>1, <2>2 DEF Goto, ReplayInv, WorkersOK
  <2>3. CASE phase[w] = "refusing" /\ Finish(w)
    BY <2>1, <2>3 DEF Finish, Goto, ReplayInv, WorkersOK
  <2> QED
    BY <2>2, <2>3 DEF Persist
<1>5. \/ used' = active /\ file' = active /\ failed' = FALSE
      \/ used' \in {used, active} /\ file' = file /\ failed' = TRUE
  BY DEF Persist
<1> HIDE DEF active
<1>6. WorkersOK'
  BY <1>1, <1>4, Numbers DEF ReplayInv, WorkersOK
<1>7. used' \subseteq used /\ file' \subseteq used \cup file /\ failed' \in BOOLEAN
  BY <1>3, <1>5
<1>8. MemoryOK'
  BY <1>1, <1>7 DEF ReplayInv, MemoryOK
<1>9. \A x \in used : InWindow(x) => x \in used'
  BY <1>3, <1>5
<1>10. Memory = used /\ Memory' = used'
  BY <1>1 DEF Memory
<1>11. \A v \in Workers : Pending(v)' => Pending(v) /\ marker'[v] = marker[v]
  BY <1>1, <1>4 DEF Pending
<1>12. Remembered'
  BY <1>1, <1>9, <1>10, <1>11 DEF ReplayInv, Remembered, InWindow
<1>13. Durable'
  <2>1. CASE file' = active
    <3>1. \A x \in Memory : InWindow(x) => x \in file'
      BY <1>3, <1>10, <2>1
    <3>2. \A v \in Workers : phase'[v] = "granted" => Pending(v) /\ marker'[v] = marker[v]
      BY <1>1, <1>4 DEF Pending
    <3> QED
      BY <1>1, <3>1, <3>2 DEF ReplayInv, Remembered, Durable, InWindow
  <2>2. CASE failed' = TRUE
    BY <2>2 DEF Durable
  <2> QED
    BY <1>5, <2>1, <2>2
<1>14. Noted'
  BY <1>1, <1>4, <1>7 DEF ReplayInv, Noted
<1> QED
  BY <1>6, <1>8, <1>12, <1>13, <1>14 DEF ReplayInv

LEMMA GrantKeeps ==
  ASSUME ReplayInv, NEW w \in Workers, Grant(w)
  PROVE  ReplayInv'
<1>1. /\ phase[w] = "granted" /\ phase'[w] = "idle"
      /\ \A v \in Workers \ {w} : /\ phase'[v] = phase[v] /\ read'[v] = read[v]
                                  /\ marker'[v] = marker[v]
      /\ phase' \in [Workers -> {"idle", "resolved", "granting", "refusing", "granted"}]
      /\ read' \in [Workers -> Nat]
      /\ marker' \in [Workers -> Marker \cup {NoMarker}]
  BY DEF Grant, Finish, Goto, ReplayInv, WorkersOK
<1>2. /\ granted' = granted \cup {marker[w]}
      /\ again' = again \cup (granted \cap {marker[w]})
      /\ UNCHANGED <<now, lock, used, loaded, file, seen, failed>>
  BY DEF Grant, memory
<1>3. marker[w] \in Genuine /\ marker[w] \notin granted /\ Pending(w)
  BY <1>1 DEF ReplayInv, WorkersOK, Remembered, Pending
<1>4. WorkersOK'
  BY <1>1, <1>2 DEF ReplayInv, WorkersOK
<1>5. MemoryOK' /\ Memory' = Memory
  BY <1>2, <1>3 DEF ReplayInv, MemoryOK, Memory
<1>6. \A v \in Workers : Pending(v)' => v # w /\ Pending(v) /\ marker'[v] = marker[v]
  BY <1>1 DEF Pending
<1>7. again' = {}
  BY <1>2, <1>3 DEF ReplayInv, Remembered
<1>8. Remembered'
  BY <1>2, <1>3, <1>5, <1>6, <1>7 DEF ReplayInv, Remembered, InWindow
<1>9. Durable'
  BY <1>1, <1>2 DEF ReplayInv, Durable, InWindow
<1>10. Noted'
  BY <1>1, <1>2 DEF ReplayInv, Noted
<1> QED
  BY <1>4, <1>5, <1>8, <1>9, <1>10 DEF ReplayInv

\* After a crash the file, if it can be read, is the memory: what was granted
\* and is not forgotten is in it.
LEMMA CrashKeeps ==
  ASSUME ReplayInv, Crash
  PROVE  ReplayInv'
<1>1. /\ \A v \in Workers : phase'[v] = "idle"
      /\ lock' = Nobody /\ used' = {} /\ loaded' = FALSE /\ failed' = FALSE
      /\ file' \in {file, {}}
      /\ granted' = IF failed \/ file' # file THEN granted \cap file' ELSE granted
      /\ seen' = IF failed \/ file' # file THEN seen \cap file' ELSE seen
      /\ UNCHANGED <<now, again>>
  BY DEF Crash
<1>2. WorkersOK'
  BY <1>1, Numbers DEF Crash, WorkersOK
<1>3. MemoryOK'
  BY <1>1 DEF ReplayInv, MemoryOK
<1>4. \A x \in granted' : InWindow(x) => x \in file'
  BY <1>1 DEF ReplayInv, Durable, MemoryOK
<1>5. Remembered' /\ Durable'
  BY <1>1, <1>4 DEF ReplayInv, Remembered, Durable, Pending, InWindow, Memory
<1>6. Noted'
  BY <1>1 DEF ReplayInv, Noted
<1> QED
  BY <1>2, <1>3, <1>5, <1>6 DEF ReplayInv

LEMMA TickKeeps ==
  ASSUME ReplayInv, Tick
  PROVE  ReplayInv'
<1>1. /\ now' = now + 1 /\ now \in Nat
      /\ \A w \in Workers : phase[w] = "resolved" => now - read[w] < MaxLag
      /\ UNCHANGED <<phase, read, marker, lock, used, loaded, file, granted, again, seen, failed>>
  BY DEF Tick, memory, history, ReplayInv, MemoryOK
<1>2. \A x \in Genuine : InWindow(x)' => InWindow(x)
  <2> SUFFICES ASSUME NEW x \in Genuine, InWindow(x)' PROVE InWindow(x)
    OBVIOUS
  <2> QED
    BY <1>1, MarkerFields, Numbers DEF InWindow
<1>3. WorkersOK'
  BY <1>1, Numbers DEF ReplayInv, WorkersOK
<1>4. MemoryOK' /\ Memory' = Memory
  <2>1. \A x \in used \cup file : x.step <= now' + 1
    BY <1>1, MarkerFields DEF ReplayInv, MemoryOK
  <2> QED
    BY <1>1, <2>1 DEF ReplayInv, MemoryOK, Memory
<1>5. \A v \in Workers : Pending(v) \/ phase[v] = "granted" => marker[v] \in Genuine
  BY DEF ReplayInv, WorkersOK, Pending
<1>6. granted \subseteq Genuine
  BY DEF ReplayInv, MemoryOK
<1>7. \A v \in Workers : Pending(v)' <=> Pending(v)
  BY <1>1 DEF Pending
<1>8. /\ \A x \in granted : InWindow(x)' => InWindow(x)
      /\ \A v \in Workers : Pending(v) \/ phase[v] = "granted" =>
           (InWindow(marker[v])' => InWindow(marker[v]))
  BY <1>1, <1>2, <1>5, <1>6 DEF InWindow
<1>9. Remembered'
  BY <1>1, <1>4, <1>7, <1>8 DEF ReplayInv, Remembered
<1>10. Durable'
  BY <1>1, <1>8 DEF ReplayInv, Durable
<1>11. Noted'
  BY <1>1 DEF ReplayInv, Noted
<1> QED
  BY <1>3, <1>4, <1>9, <1>10, <1>11 DEF ReplayInv

LEMMA ReplayNext == ReplayInv /\ [Next]_vars => ReplayInv'
<1> SUFFICES ASSUME ReplayInv, [Next]_vars PROVE ReplayInv'
  OBVIOUS
<1>1. CASE \E w \in Workers : Verify(w)
  BY <1>1, ResolveKeeps, RegisterKeeps, PersistKeeps, GrantKeeps DEF Verify
<1>2. CASE UNCHANGED vars
  BY <1>2 DEF vars, ReplayInv, WorkersOK, MemoryOK, Remembered, Durable, Noted, Pending,
              InWindow, Memory
<1> QED
  BY <1>1, <1>2, CrashKeeps, TickKeeps DEF Next

\* The code of a step opens one login of its user at most, and only a code
\* that was entered before is refused as a replay, across workers, crashes
\* and restarts.
THEOREM ACodeWorksOnce == Spec => []CodesWorkOnce
<1>1. ReplayInv => CodesWorkOnce
  BY DEF ReplayInv, Remembered, Noted, CodesWorkOnce, AcceptedOnce, OnlyReplaysRefused
<1> QED
  BY <1>1, ReplayInit, ReplayNext, PTL DEF Spec

\* A granted code is in the state file before the answer is given, unless
\* the file could not be written.
THEOREM GrantsAreDurable == Spec => []DurableBeforeAnswer
<1>1. ReplayInv => DurableBeforeAnswer
  BY DEF ReplayInv, MemoryOK, Durable, DurableBeforeAnswer, InWindow
<1> QED
  BY <1>1, ReplayInit, ReplayNext, PTL DEF Spec


----------------------------------------------------------------------------
(* The verification implements the ledger of spent codes.                   *)

\* What the ledger shows of worker w.
Verdict(w) ==
    IF phase[w] = "granting" THEN "accepted"
    ELSE IF phase[w] = "granted" THEN "ready"
    ELSE IF phase[w] = "refusing" THEN "refused" ELSE "none"

Held(w) == IF phase[w] \in {"idle", "resolved"} THEN NoMarker ELSE marker[w]

Spent == {m \in Memory : InWindow(m)}
Saved == {m \in file : InWindow(m)}

LEMMA LedgerShows ==
  /\ LedgerVerdict = [w \in Workers |-> Verdict(w)]
  /\ LedgerHeld = [w \in Workers |-> Held(w)]
  /\ LedgerVerdict' = [w \in Workers |-> Verdict(w)']
  /\ LedgerHeld' = [w \in Workers |-> Held(w)']
<1>1. ASSUME NEW p
      PROVE  (CASE p = "granting" -> "accepted" [] p = "granted" -> "ready"
                [] p = "refusing" -> "refused" [] OTHER -> "none")
             = IF p = "granting" THEN "accepted" ELSE IF p = "granted" THEN "ready"
               ELSE IF p = "refusing" THEN "refused" ELSE "none"
  OBVIOUS
<1>2. LedgerVerdict = [w \in Workers |-> Verdict(w)]
  BY <1>1 DEF LedgerVerdict, Verdict
<1>3. LedgerVerdict' = [w \in Workers |-> Verdict(w)']
  BY <1>1 DEF LedgerVerdict, Verdict
<1> QED
  BY <1>2, <1>3 DEF LedgerHeld, Held

\* The other workers show what they showed.
LEMMA LedgerBecomes ==
  ASSUME NEW w \in Workers,
         \A v \in Workers \ {w} : phase'[v] = phase[v] /\ marker'[v] = marker[v]
  PROVE  /\ LedgerVerdict' = [LedgerVerdict EXCEPT ![w] = Verdict(w)']
         /\ LedgerHeld' = [LedgerHeld EXCEPT ![w] = Held(w)']
<1>1. \A v \in Workers \ {w} : Verdict(v)' = Verdict(v) /\ Held(v)' = Held(v)
  BY DEF Verdict, Held
<1> QED
  BY <1>1, LedgerShows

\* A code is looked up: the ledger sees nothing yet.
LEMMA ResolveIsSilent ==
  ASSUME ReplayInv, NEW w \in Workers, NEW u \in Users, NEW c \in Codes, Resolve(w, u, c)
  PROVE  UNCHANGED Ledger!ledgerVars
<1>1. /\ phase[w] = "idle" /\ phase' = [phase EXCEPT ![w] = "resolved"]
      /\ UNCHANGED <<now, used, loaded, file, granted, failed>>
  BY DEF Resolve, Goto, memory, history
<1>2. \E x : marker' = [marker EXCEPT ![w] = x]
  BY DEF Resolve
<1>3. /\ \A v \in Workers \ {w} : phase'[v] = phase[v] /\ marker'[v] = marker[v]
      /\ phase'[w] = "resolved"
  BY <1>1, <1>2 DEF ReplayInv, WorkersOK
<1>4. Verdict(w)' = Verdict(w) /\ Held(w)' = Held(w)
  BY <1>1, <1>3 DEF Verdict, Held
<1>5. LedgerVerdict' = LedgerVerdict /\ LedgerHeld' = LedgerHeld
  BY <1>3, <1>4, LedgerBecomes, LedgerShows
<1>6. Memory' = Memory /\ \A m : InWindow(m)' <=> InWindow(m)
  BY <1>1 DEF Memory, InWindow
<1> QED
  BY <1>1, <1>5, <1>6 DEF Ledger!ledgerVars

\* The step under the lock: a code is spent, or found spent.
LEMMA RegisterDecides ==
  ASSUME ReplayInv, NEW w \in Workers, Register(w)
  PROVE  \E v \in {"accepted", "refused"} : Ledger!Decide(w, v)
<1> DEFINE m == marker[w]
<1>1. /\ phase[w] = "resolved" /\ loaded' = TRUE
      /\ UNCHANGED <<now, read, marker, file, granted, again, failed>>
      /\ m \in Genuine /\ InWindow(m) /\ m.step <= now + 1
      /\ \A x \in Memory : InWindow(x) => x \in used'
  BY RegisterEffect
<1>2. m.step >= now - MaxLag - 1
  <2>1. read[w] \in Nat /\ now \in Nat /\ now - read[w] <= MaxLag /\ m.step >= read[w] - 1
    BY <1>1 DEF ReplayInv, WorkersOK, MemoryOK
  <2> QED
    BY <1>1, <2>1, MarkerFields, Numbers
<1>3. phase \in [Workers -> {"idle", "resolved", "granting", "refusing", "granted"}]
  BY DEF ReplayInv, WorkersOK
<1>4. Memory' = used' /\ \A x : InWindow(x)' <=> InWindow(x)
  BY <1>1 DEF Memory, InWindow
<1>5. Verdict(w) = "none" /\ LedgerVerdict[w] = "none" /\ LedgerVerdict'[w] = Verdict(w)'
  BY <1>1, LedgerShows DEF Verdict
<1>6. ASSUME NEW p, Goto(w, p)
      PROVE  /\ phase'[w] = p
             /\ \A v \in Workers \ {w} : phase'[v] = phase[v] /\ marker'[v] = marker[v]
  BY <1>1, <1>3, <1>6 DEF Goto
<1>7. UNCHANGED {x \in file : InWindow(x)}
  BY <1>1, <1>4
<1>8. CASE /\ m \in Memory /\ used' \subseteq Memory /\ Goto(w, "refusing")
  <2>1. Verdict(w)' = "refused" /\ Held(w)' = m
    BY <1>1, <1>6, <1>8 DEF Verdict, Held
  <2>2. /\ LedgerVerdict' = [LedgerVerdict EXCEPT ![w] = "refused"]
        /\ LedgerHeld' = [LedgerHeld EXCEPT ![w] = m]
    BY <1>6, <1>8, <2>1, LedgerBecomes
  <2>3. m \in Spent /\ Spent' = Spent \cup {m}
    BY <1>1, <1>4, <1>8 DEF Spent
  <2>4. Ledger!Decide(w, "refused")
    BY <1>1, <1>2, <1>5, <1>7, <2>1, <2>2, <2>3 DEF Ledger!Decide, Ledger!Become, Spent
  <2> QED
    BY <2>4
<1>9. CASE /\ m \notin Memory /\ m \in used' /\ used' \subseteq Memory \cup {m}
           /\ Goto(w, "granting")
  <2>1. Verdict(w)' = "accepted" /\ Held(w)' = m
    BY <1>1, <1>6, <1>9 DEF Verdict, Held
  <2>2. /\ LedgerVerdict' = [LedgerVerdict EXCEPT ![w] = "accepted"]
        /\ LedgerHeld' = [LedgerHeld EXCEPT ![w] = m]
    BY <1>6, <1>9, <2>1, LedgerBecomes
  <2>3. m \notin Spent /\ Spent' = Spent \cup {m}
    BY <1>1, <1>4, <1>9 DEF Spent
  <2>4. Ledger!Decide(w, "accepted")
    BY <1>1, <1>2, <1>5, <1>7, <2>1, <2>2, <2>3 DEF Ledger!Decide, Ledger!Become, Spent
  <2> QED
    BY <2>4
<1> QED
  BY <1>8, <1>9, RegisterEffect

\* The write of the file saves what is spent, or fails and is known to.
LEMMA PersistSaves ==
  ASSUME ReplayInv, NEW w \in Workers, Persist(w)
  PROVE  Ledger!Save(w)
<1> DEFINE active == Active(used, MinStep(w))
<1>1. /\ lock = w /\ loaded = TRUE /\ UNCHANGED <<now, loaded, granted>>
  BY Numbers DEF Persist, ReplayInv, WorkersOK, MemoryOK
<1>2. \A x \in used : InWindow(x) => x \in active
  <2> SUFFICES ASSUME NEW x \in used, InWindow(x) PROVE x.step >= MinStep(w)
    BY DEF Active
  <2>1. x.step \in Nat /\ read[w] \in Nat /\ now \in Nat /\ read[w] <= now
    BY <1>1, MarkerFields, Numbers DEF ReplayInv, MemoryOK, WorkersOK, Persist
  <2> QED
    BY <2>1, Numbers DEF InWindow, MinStep
<1>3. active \subseteq used
  BY DEF Active
<1>4. \/ used' = active /\ file' = active /\ failed' = FALSE
      \/ used' \in {used, active} /\ file' = file /\ failed' = TRUE
  BY DEF Persist
<1> HIDE DEF active
<1>5. Memory = used /\ Memory' = used' /\ \A x : InWindow(x)' <=> InWindow(x)
  BY <1>1 DEF Memory, InWindow
<1>6. /\ Spent' = Spent
      /\ (Saved' = Spent /\ failed' = FALSE) \/ (Saved' = Saved /\ failed' = TRUE)
  <2>1. Spent = {x \in used : InWindow(x)} /\ Spent' = {x \in used' : InWindow(x)}
    BY <1>5 DEF Spent
  <2>2. Saved = {x \in file : InWindow(x)} /\ Saved' = {x \in file' : InWindow(x)}
    BY <1>5 DEF Saved
  <2> HIDE DEF Spent, Saved, InWindow
  <2>3. {x \in active : InWindow(x)} = {x \in used : InWindow(x)}
    BY <1>2, <1>3
  <2>4. CASE used' = active /\ file' = active /\ failed' = FALSE
    BY <2>1, <2>2, <2>3, <2>4
  <2>5. CASE used' \in {used, active} /\ file' = file /\ failed' = TRUE
    BY <2>1, <2>2, <2>3, <2>5
  <2> QED
    BY <1>4, <2>4, <2>5
<1>7. phase \in [Workers -> {"idle", "resolved", "granting", "refusing", "granted"}]
      /\ marker \in [Workers -> Marker \cup {NoMarker}]
  BY DEF ReplayInv, WorkersOK
<1>8. \/ /\ LedgerVerdict[w] = "accepted"
         /\ LedgerVerdict' = [LedgerVerdict EXCEPT ![w] = "ready"]
         /\ LedgerHeld' = [LedgerHeld EXCEPT ![w] = LedgerHeld[w]]
      \/ /\ LedgerVerdict[w] = "refused"
         /\ LedgerVerdict' = [LedgerVerdict EXCEPT ![w] = "none"]
         /\ LedgerHeld' = [LedgerHeld EXCEPT ![w] = NoMarker]
  <2>1. CASE phase[w] = "granting" /\ Goto(w, "granted") /\ UNCHANGED <<read, marker>>
    <3>1. /\ phase'[w] = "granted"
          /\ \A v \in Workers \ {w} : phase'[v] = phase[v] /\ marker'[v] = marker[v]
      BY <1>7, <2>1 DEF Goto
    <3>2. Verdict(w) = "accepted" /\ Verdict(w)' = "ready" /\ Held(w) = marker[w]
          /\ Held(w)' = marker[w]
      BY <2>1, <3>1 DEF Verdict, Held
    <3> QED
      BY <3>1, <3>2, LedgerBecomes, LedgerShows
  <2>2. CASE phase[w] = "refusing" /\ Finish(w)
    <3>1. /\ phase'[w] = "idle"
          /\ \A v \in Workers \ {w} : phase'[v] = phase[v] /\ marker'[v] = marker[v]
      BY <1>7, <2>2 DEF Finish, Goto
    <3>2. Verdict(w) = "refused" /\ Verdict(w)' = "none" /\ Held(w)' = NoMarker
      BY <2>2, <3>1 DEF Verdict, Held
    <3> QED
      BY <3>1, <3>2, LedgerBecomes, LedgerShows
  <2> QED
    BY <2>1, <2>2 DEF Persist
<1> QED
  BY <1>1, <1>6, <1>8 DEF Ledger!Save, Ledger!Become, Spent, Saved

\* The answer: a code that was accepted opens the login, once.
LEMMA GrantOpens ==
  ASSUME ReplayInv, NEW w \in Workers, Grant(w)
  PROVE  Ledger!Open(w)
<1>1. /\ phase[w] = "granted" /\ phase'[w] = "idle"
      /\ \A v \in Workers \ {w} : phase'[v] = phase[v] /\ marker'[v] = marker[v]
      /\ granted' = granted \cup {marker[w]} /\ UNCHANGED <<now, used, loaded, file, failed>>
  BY DEF Grant, Finish, Goto, memory, ReplayInv, WorkersOK
<1>2. /\ Verdict(w) = "ready" /\ Held(w) = marker[w]
      /\ Verdict(w)' = "none" /\ Held(w)' = NoMarker
  BY <1>1 DEF Verdict, Held
<1>3. /\ LedgerVerdict[w] = "ready" /\ LedgerHeld[w] = marker[w]
      /\ LedgerVerdict' = [LedgerVerdict EXCEPT ![w] = "none"]
      /\ LedgerHeld' = [LedgerHeld EXCEPT ![w] = NoMarker]
  BY <1>1, <1>2, LedgerBecomes, LedgerShows
<1>4. marker[w] \in Genuine /\ marker[w] \notin granted /\ now \in Nat /\ failed \in BOOLEAN
  BY <1>1 DEF ReplayInv, WorkersOK, Remembered, Pending, MemoryOK
<1>5. marker[w] \in Saved \/ failed \/ ~InWindow(marker[w])
  BY <1>1, <1>4 DEF ReplayInv, Durable, Saved
<1>6. InWindow(marker[w]) \/ marker[w].step < now - WindowSteps
  BY <1>4, MarkerFields, Numbers DEF InWindow
<1>7. Spent' = Spent /\ Saved' = Saved
  BY <1>1 DEF Spent, Saved, Memory, InWindow
<1> QED
  BY <1>1, <1>3, <1>4, <1>5, <1>6, <1>7
     DEF Ledger!Open, Ledger!Become, Ledger!Outdated, Spent, Saved

LEMMA CrashRestarts == ASSUME ReplayInv, Crash PROVE Ledger!Restart
<1>1. /\ phase' = [w \in Workers |-> "idle"] /\ loaded' = FALSE /\ failed' = FALSE
      /\ file' \in {file, {}}
      /\ granted' = IF failed \/ file' # file THEN granted \cap file' ELSE granted
      /\ UNCHANGED now
  BY DEF Crash
<1>2. \A w \in Workers : Verdict(w)' = "none" /\ Held(w)' = NoMarker
  BY <1>1 DEF Verdict, Held
<1>3. /\ LedgerVerdict' = [w \in Workers |-> "none"]
      /\ LedgerHeld' = [w \in Workers |-> NoMarker]
  BY <1>2, LedgerShows
<1>4. Spent' = Saved' /\ Saved' \in {Saved, {}}
  BY <1>1 DEF Spent, Saved, Memory, InWindow
<1>5. /\ granted' \subseteq granted
      /\ granted \cap Saved' \subseteq granted'
      /\ ~failed /\ Saved' # {} => granted' = granted
  BY <1>1 DEF Saved
<1> QED
  BY <1>1, <1>3, <1>4, <1>5 DEF Ledger!Restart, Spent, Saved

LEMMA TickTicks == ASSUME ReplayInv, Tick PROVE Ledger!Tick
<1>1. /\ now' = now + 1 /\ now \in Nat
      /\ UNCHANGED <<phase, marker, used, loaded, file, granted, failed>>
  BY DEF Tick, memory, history, ReplayInv, MemoryOK
<1>2. \A x \in Genuine : InWindow(x)' <=> InWindow(x) /\ ~(x.step < now' - WindowSteps)
  <2> SUFFICES ASSUME NEW x \in Genuine
               PROVE  InWindow(x)' <=> InWindow(x) /\ ~(x.step < now' - WindowSteps)
    OBVIOUS
  <2> QED
    BY <1>1, MarkerFields, Numbers DEF InWindow
<1>3. Memory' = Memory /\ Memory \subseteq Genuine /\ file \subseteq Genuine
  BY <1>1 DEF Memory, ReplayInv, MemoryOK
<1>4. /\ Spent' = {x \in Spent : ~(x.step < now' - WindowSteps)}
      /\ Saved' = {x \in Saved : ~(x.step < now' - WindowSteps)}
  BY <1>1, <1>2, <1>3 DEF Spent, Saved
<1>5. \A w \in Workers : Verdict(w)' = Verdict(w) /\ Held(w)' = Held(w)
  BY <1>1 DEF Verdict, Held
<1>6. LedgerVerdict' = LedgerVerdict /\ LedgerHeld' = LedgerHeld
  BY <1>5, LedgerShows
<1> QED
  BY <1>1, <1>4, <1>6 DEF Ledger!Tick, Ledger!Outdated, Spent, Saved

LEMMA LedgerInit == Init => Ledger!Init
<1> SUFFICES ASSUME Init PROVE Ledger!Init
  OBVIOUS
<1>1. \A w \in Workers : Verdict(w) = "none" /\ Held(w) = NoMarker
  BY DEF Init, Verdict, Held
<1>2. Memory = {} /\ file = {} /\ now = 0 /\ failed = FALSE /\ granted = {}
  BY DEF Init, Memory
<1> QED
  BY <1>1, <1>2, LedgerShows DEF Ledger!Init

LEMMA LedgerNext == ReplayInv /\ [Next]_vars => [Ledger!Next]_(Ledger!ledgerVars)
<1> SUFFICES ASSUME ReplayInv, [Next]_vars PROVE Ledger!Next \/ UNCHANGED Ledger!ledgerVars
  OBVIOUS
<1>1. CASE \E w \in Workers : Verify(w)
  BY <1>1, ResolveIsSilent, RegisterDecides, PersistSaves, GrantOpens DEF Verify, Ledger!Next
<1>2. CASE Crash \/ Tick
  BY <1>2, CrashRestarts, TickTicks DEF Ledger!Next
<1>3. CASE UNCHANGED vars
  BY <1>3 DEF vars, Ledger!ledgerVars, LedgerVerdict, LedgerHeld, Memory, InWindow
<1> QED
  BY <1>1, <1>2, <1>3 DEF Next

\* The verification of one-time codes, with its lock, its two windows, its lazy
\* load and its file, implements the ledger: each code is spent at one moment,
\* while it is fresh, opens a login only if it was not spent and is saved or
\* known to be unsaved, is refused only if spent, and a restart finds what was
\* saved.
THEOREM VerificationImplementsLedger == Spec => CodesAreSpent
  BY LedgerInit, LedgerNext, ReplayInit, ReplayNext, PTL
  DEF Spec, CodesAreSpent, Ledger!Spec

----------------------------------------------------------------------------
(* The middlewares: the inductive invariant is UpdatesInv.                  *)

\* Both middlewares hold a reading that is at most MaxDelay old.
WorkersInv ==
    /\ clock \in Nat
    /\ stage \in [Workers -> {"idle", "received", "new", "admitted"}]
    /\ update \in [Workers -> Keys \cup {None}]
    /\ opened \in [Workers -> Nat]
    /\ \A w \in Workers : stage[w] # "idle" => update[w] \in Keys
    /\ \A w \in Workers : stage[w] \in {"received", "admitted"} =>
         opened[w] <= clock /\ clock - opened[w] <= MaxDelay

\* Counted from their ends, the requests of a user and the times they passed
\* belong together; what one of them has dropped is out of the window.
RateOK(r, p, t) ==
    /\ r \in Seq(Nat) /\ p \in Seq(Nat)
    /\ Len(r) <= Limit
    /\ \A i, j \in 1 .. Len(p) : i <= j => p[i] <= p[j]
    /\ \A j \in 1 .. Len(p) : p[j] <= t
    /\ \A i \in 1 .. Len(r), j \in 1 .. Len(p) : Len(r) - i = Len(p) - j =>
         r[i] <= p[j] /\ p[j] - r[i] <= MaxDelay
    /\ \A j \in 1 .. Len(p) : j <= Len(p) - Len(r) => p[j] < t - Period + MaxDelay
    /\ \A i \in 1 .. Len(r) : i <= Len(r) - Len(p) => r[i] < t - Period - MaxDelay

RateInv ==
    /\ DOMAIN requests = Users /\ DOMAIN passes = Users
    /\ \A u \in Users : RateOK(requests[u], passes[u], clock)

\* The places of the queue and the entries belong together: the last place
\* of a key is the live one.
Place == [key : Keys, expiry : Nat]

QueueOK(e, q) ==
    /\ DOMAIN e \subseteq Keys /\ IsFiniteSet(DOMAIN e)
    /\ \A k \in DOMAIN e : e[k] \in Nat
    /\ e = [k \in DOMAIN e |-> e[k]]
    /\ q \in Seq(Place)
    /\ \A k \in DOMAIN e : \E i \in 1 .. Len(q) : q[i].key = k /\ q[i].expiry = e[k]
    /\ \A i \in 1 .. Len(q) : q[i].key \in DOMAIN e /\ q[i].expiry <= e[q[i].key]
    /\ \A i, j \in 1 .. Len(q) : i < j /\ q[i].key = q[j].key => q[i].expiry < q[j].expiry

\* The workers in P whose readings, at, give an expiry before y.
Slow(at, P, y) == {w \in P : at[w] + Ttl < y}

\* Places that expire before y come from different workers.
Waits(at, S, P, y) ==
    Cardinality({x \in S : x.expiry < y}) + Cardinality(Slow(at, P, y)) <= Cardinality(Workers) - 1

Behind(q, i) == {q[j] : j \in (i + 1) .. Len(q)}
Places(q) == {q[i] : i \in 1 .. Len(q)}
Outlived(e, q) == {x \in Places(q) : e[x.key] # x.expiry}

OrderOK(e, q, at, P, y) ==
    /\ \A i \in 1 .. Len(q) : Waits(at, Behind(q, i), P, q[i].expiry)
    /\ \A x \in Outlived(e, q) : x.expiry < y
    /\ Waits(at, Places(q), P, y)

Received == {w \in Workers : stage[w] = "received"}

QueueInv ==
    /\ QueueOK(entries, queue)
    /\ Cardinality(DOMAIN entries) <= MaxEntries
    /\ \A i \in 1 .. Len(queue) : queue[i].expiry <= clock + Ttl
    /\ \E y \in 0 .. (clock + Ttl) : OrderOK(entries, queue, opened, Received, y)

\* What passed is in the cache for as long as nothing newer pushed it out.
EnteredInv ==
    /\ repeated = {}
    /\ entered \in [Keys -> Nat \cup {None}]
    /\ \A k \in Keys : entered[k] # None /\ k \notin pushed =>
         \/ k \in DOMAIN entries /\ entries[k] >= entered[k] - MaxDelay + Ttl
         \/ clock - entered[k] >= Ttl - MaxDelay

UpdatesInv == WorkersInv /\ RateInv /\ QueueInv /\ EnteredInv


----------------------------------------------------------------------------
LEMMA IntakeNumbers ==
  /\ Ttl \in Nat \ {0} /\ MaxEntries \in Nat \ {0}
  /\ Limit \in Nat \ {0} /\ Period \in Nat \ {0}
  /\ MaxDelay \in Nat /\ MaxDelay < Ttl /\ MaxDelay < Period
  /\ \A k \in Keys : Sender(k) \in Users
  /\ None \notin Keys /\ None \notin Nat
  /\ Cardinality(Workers) \in Nat \ {0} /\ IsFiniteSet(Workers)
<1>1. IsFiniteSet(Workers) /\ Workers # {}
  BY MessageConstants DEF Updates!IntakeConstants, Updates!IsFiniteSet, IsFiniteSet
<1>2. Cardinality(Workers) \in Nat \ {0}
  BY <1>1, FS_CardinalityType, FS_EmptySet
<1> QED
  BY <1>1, <1>2, MessageConstants
  DEF Updates!IntakeConstants, Updates!DedupConstants, Updates!RateConstants

\* What each action does to the workers.
LEMMA DeliverEffect ==
  ASSUME NEW w \in Workers, NEW k \in Keys, Updates!Deliver(w, k)
  PROVE  /\ stage[w] = "idle" /\ stage' = [stage EXCEPT ![w] = "received"]
         /\ update' = [update EXCEPT ![w] = k] /\ opened' = [opened EXCEPT ![w] = clock]
         /\ UNCHANGED <<clock, entries, queue, requests, entered, pushed, repeated, passes>>
BY DEF Updates!Deliver, Updates!Goto, Updates!ReadClock, Updates!dedupVars, Updates!history

LEMMA FinishEffect ==
  ASSUME NEW w \in Workers, Updates!Finish(w)
  PROVE  /\ stage' = [stage EXCEPT ![w] = "idle"] /\ update' = [update EXCEPT ![w] = None]
         /\ opened' = [opened EXCEPT ![w] = 0]
BY DEF Updates!Finish, Updates!Goto

LEMMA DedupEffect ==
  ASSUME NEW w \in Workers, Updates!Dedup(w)
  PROVE  /\ stage[w] = "received"
         /\ Updates!Register(update[w], opened[w])
         /\ UNCHANGED <<clock, requests, passes>>
         /\ \/ /\ Updates!Known(update[w], opened[w])
               /\ Updates!Finish(w)
            \/ /\ ~Updates!Known(update[w], opened[w])
               /\ stage' = [stage EXCEPT ![w] = "new"]
               /\ UNCHANGED <<update, opened>>
BY DEF Updates!Dedup, Updates!Goto

LEMMA ScreenEffect ==
  ASSUME NEW w \in Workers, Updates!Screen(w)
  PROVE  /\ stage[w] = "new"
         /\ \/ Updates!Finish(w)
            \/ /\ stage' = [stage EXCEPT ![w] = "admitted"]
               /\ opened' = [opened EXCEPT ![w] = clock] /\ UNCHANGED update
         /\ UNCHANGED <<clock, entries, queue, requests, entered, pushed, repeated, passes>>
BY DEF Updates!Screen, Updates!Goto, Updates!ReadClock, Updates!dedupVars, Updates!history

LEMMA ThrottleEffect ==
  ASSUME NEW w \in Workers, Updates!Throttle(w)
  PROVE  /\ stage[w] = "admitted" /\ Updates!Finish(w)
         /\ Updates!Track(Sender(update[w]), opened[w])
         /\ UNCHANGED <<clock, entries, queue, entered, pushed, repeated>>
BY DEF Updates!Throttle, Updates!dedupVars

LEMMA TickEffect ==
  ASSUME Updates!Tick
  PROVE  /\ \A w \in Workers : stage[w] \in {"received", "admitted"} =>
              clock - opened[w] < MaxDelay
         /\ clock' = clock + 1
         /\ UNCHANGED <<entries, queue, requests, stage, update, opened, pushed, repeated>>
BY DEF Updates!Tick, Updates!dedupVars, Updates!chain

LEMMA UpdateSteps ==
  ASSUME [Updates!Next]_updateVars
  PROVE  \/ \E w \in Workers, k \in Keys : Updates!Deliver(w, k)
         \/ \E w \in Workers : Updates!Dedup(w)
         \/ \E w \in Workers : Updates!Screen(w)
         \/ \E w \in Workers : Updates!Throttle(w)
         \/ Updates!Tick
         \/ UNCHANGED updateVars
BY DEF Updates!Next

\* A worker goes on to a place where its reading is new or no longer matters.
LEMMA WorkerMoves ==
  ASSUME WorkersInv, NEW w \in Workers, NEW p \in {"idle", "received", "new", "admitted"},
         NEW k \in Keys \cup {None}, NEW t \in Nat,
         stage' = [stage EXCEPT ![w] = p], update' = [update EXCEPT ![w] = k],
         opened' = [opened EXCEPT ![w] = t], clock' = clock,
         p # "idle" => k \in Keys,
         p \in {"received", "admitted"} => t = clock
  PROVE  WorkersInv'
<1>1. /\ stage' \in [Workers -> {"idle", "received", "new", "admitted"}]
      /\ update' \in [Workers -> Keys \cup {None}] /\ opened' \in [Workers -> Nat]
      /\ clock' \in Nat
  BY DEF WorkersInv
<1>2. ASSUME NEW v \in Workers
      PROVE  /\ stage'[v] # "idle" => update'[v] \in Keys
             /\ stage'[v] \in {"received", "admitted"} =>
                  opened'[v] <= clock /\ clock - opened'[v] <= MaxDelay
  <2>1. CASE v = w
    <3>1. stage'[v] = p /\ update'[v] = k /\ opened'[v] = t
      BY <2>1 DEF WorkersInv
    <3> QED
      BY <3>1, IntakeNumbers DEF WorkersInv
  <2>2. CASE v # w
    <3>1. stage'[v] = stage[v] /\ update'[v] = update[v] /\ opened'[v] = opened[v]
      BY <2>2 DEF WorkersInv
    <3> QED
      BY <3>1 DEF WorkersInv
  <2> QED
    BY <2>1, <2>2
<1> QED
  BY <1>1, <1>2 DEF WorkersInv

LEMMA FinishKeepsWorkers ==
  ASSUME WorkersInv, NEW w \in Workers, Updates!Finish(w), clock' = clock
  PROVE  WorkersInv'
BY FinishEffect, WorkerMoves, Zenon DEF WorkersInv

LEMMA WorkersKeep ==
  ASSUME WorkersInv, [Updates!Next]_updateVars
  PROVE  WorkersInv'
<1> USE DEF WorkersInv
<1>1. ASSUME NEW w \in Workers, NEW k \in Keys, Updates!Deliver(w, k)
      PROVE  WorkersInv'
  BY <1>1, DeliverEffect, WorkerMoves
<1>2. ASSUME NEW w \in Workers, Updates!Dedup(w)
      PROVE  WorkersInv'
  <2>1. CASE Updates!Finish(w)
    BY <1>2, <2>1, DedupEffect, FinishKeepsWorkers
  <2>2. CASE stage' = [stage EXCEPT ![w] = "new"] /\ UNCHANGED <<update, opened>>
    <3>1. update' = [update EXCEPT ![w] = update[w]] /\ opened' = [opened EXCEPT ![w] = opened[w]]
      BY <2>2
    <3>2. update[w] \in Keys /\ opened[w] \in Nat /\ clock' = clock
      BY <1>2, DedupEffect
    <3> QED
      BY <2>2, <3>1, <3>2, WorkerMoves
  <2> QED
    BY <1>2, <2>1, <2>2, DedupEffect
<1>3. ASSUME NEW w \in Workers, Updates!Screen(w)
      PROVE  WorkersInv'
  <2>1. CASE Updates!Finish(w)
    BY <1>3, <2>1, ScreenEffect, FinishKeepsWorkers
  <2>2. CASE /\ stage' = [stage EXCEPT ![w] = "admitted"]
             /\ opened' = [opened EXCEPT ![w] = clock] /\ UNCHANGED update
    <3>1. update' = [update EXCEPT ![w] = update[w]]
      BY <2>2
    <3>2. update[w] \in Keys /\ clock \in Nat /\ clock' = clock
      BY <1>3, ScreenEffect
    <3> QED
      BY <2>2, <3>1, <3>2, WorkerMoves
  <2> QED
    BY <1>3, <2>1, <2>2, ScreenEffect
<1>4. ASSUME NEW w \in Workers, Updates!Throttle(w)
      PROVE  WorkersInv'
  BY <1>4, ThrottleEffect, FinishKeepsWorkers
<1>5. CASE Updates!Tick
  <2>1. /\ clock' = clock + 1 /\ UNCHANGED <<stage, update, opened>>
        /\ \A w \in Workers : stage[w] \in {"received", "admitted"} =>
              clock - opened[w] < MaxDelay
    BY <1>5, TickEffect
  <2> QED
    BY <2>1, IntakeNumbers
<1>6. CASE UNCHANGED updateVars
  BY <1>6 DEF updateVars
<1> QED
  BY <1>1, <1>2, <1>3, <1>4, <1>5, <1>6, UpdateSteps

----------------------------------------------------------------------------
LEMMA SameCount ==
  ASSUME NEW S
  PROVE  Updates!Cardinality(S) = Cardinality(S)
BY DEF Updates!Cardinality, Cardinality

LEMMA UpToIsCounted ==
  ASSUME NEW n \in Nat
  PROVE  IsFiniteSet(1 .. n) /\ Cardinality(1 .. n) = n
BY FS_Interval

\* A set of positions that holds every position before one of its own.
LEMMA InitialSegment ==
  ASSUME NEW l \in Nat, NEW S \in SUBSET (1 .. l), \A i \in S : 1 .. i \subseteq S
  PROVE  Cardinality(S) \in 0 .. l /\ S = 1 .. Cardinality(S)
<1> DEFINE n == Cardinality(S)
<1>1. IsFiniteSet(1 .. l) /\ Cardinality(1 .. l) = l
  BY FS_Interval
<1>2. IsFiniteSet(S) /\ n \in 0 .. l
  <2>1. IsFiniteSet(S) /\ n <= l
    BY <1>1, FS_Subset
  <2>2. n \in Nat
    BY <2>1, FS_CardinalityType
  <2> QED
    BY <2>1, <2>2
<1>3. ASSUME NEW i \in S PROVE i \in 1 .. n
  <2>1. i \in 1 .. l /\ Cardinality(1 .. i) = i
    BY FS_Interval
  <2>2. Cardinality(1 .. i) <= n
    BY <1>2, FS_Subset
  <2> QED
    BY <2>1, <2>2
<1>4. IsFiniteSet(1 .. n) /\ Cardinality(1 .. n) = n
  BY <1>2, FS_Interval
<1>5. S \subseteq 1 .. n
  BY <1>3
<1>6. S = 1 .. n
  BY <1>4, <1>5, FS_Subset
<1> QED
  BY <1>2, <1>6

LEMMA CutSequence ==
  ASSUME NEW T, NEW s \in Seq(T), NEW n \in 0 .. Len(s)
  PROVE  /\ SubSeq(s, n + 1, Len(s)) \in Seq(T)
         /\ Len(SubSeq(s, n + 1, Len(s))) = Len(s) - n
         /\ \A i \in 1 .. Len(s) - n : SubSeq(s, n + 1, Len(s))[i] = s[i + n]
<1>1. Len(s) \in Nat /\ \A i \in n + 1 .. Len(s) : s[i] \in T
  BY LenProperties, ElementOfSeq
<1>2. /\ SubSeq(s, n + 1, Len(s)) \in Seq(T)
      /\ Len(SubSeq(s, n + 1, Len(s))) = IF n + 1 <= Len(s) THEN Len(s) - (n + 1) + 1 ELSE 0
      /\ \A i \in 1 .. Len(s) - (n + 1) + 1 : SubSeq(s, n + 1, Len(s))[i] = s[n + 1 + i - 1]
  BY <1>1, SubSeqProperties
<1> QED
  BY <1>1, <1>2

----------------------------------------------------------------------------
(* The rate limit.                                                          *)
LEMMA RecentIsCut ==
  ASSUME NEW s \in Seq(Nat), NEW t \in Nat
  PROVE  \E n \in 0 .. Len(s) :
           /\ Updates!Recent(s, t) = SubSeq(s, n + 1, Len(s))
           /\ \A i \in 1 .. n : s[i] < t - Period
           /\ n < Len(s) => s[n + 1] >= t - Period
<1> DEFINE old == {i \in DOMAIN s : \A j \in 1 .. i : s[j] < t - Period}
           n == Cardinality(old)
<1>1. Len(s) \in Nat /\ DOMAIN s = 1 .. Len(s) /\ \A i \in 1 .. Len(s) : s[i] \in Nat
  BY LenProperties, ElementOfSeq
<1>2. old \in SUBSET (1 .. Len(s)) /\ \A i \in old : 1 .. i \subseteq old
  BY <1>1
<1>3. n \in 0 .. Len(s) /\ old = 1 .. n
  BY <1>1, <1>2, InitialSegment
<1>4. Updates!Recent(s, t) = SubSeq(s, n + 1, Len(s))
  BY SameCount DEF Updates!Recent
<1>5. \A i \in 1 .. n : s[i] < t - Period
  BY <1>3
<1>6. n < Len(s) => s[n + 1] >= t - Period
  <2> SUFFICES ASSUME n < Len(s), ~(s[n + 1] >= t - Period) PROVE FALSE
    OBVIOUS
  <2>1. n + 1 \in 1 .. Len(s) /\ s[n + 1] < t - Period
    BY <1>1, <1>3, IntakeNumbers
  <2>2. \A j \in 1 .. n + 1 : s[j] < t - Period
    BY <1>3, <1>5, <2>1
  <2>3. n + 1 \in old
    BY <1>1, <2>1, <2>2
  <2>4. QED
    <3> HIDE DEF n, old
    <3> QED
      BY <1>1, <1>3, <2>3
<1> QED
  BY <1>3, <1>4, <1>5, <1>6

\* A request that is let through.
LEMMA PassKeepsRate ==
  ASSUME NEW r, NEW p, NEW time \in Nat, RateOK(r, p, time),
         NEW t \in Nat, t <= time, time - t <= MaxDelay,
         NEW n \in 0 .. Len(r), Len(r) - n < Limit,
         \A i \in 1 .. n : r[i] < t - Period
  PROVE  RateOK(Append(SubSeq(r, n + 1, Len(r)), t), Append(p, time), time)
<1> DEFINE l == Len(r)
           m == Len(p)
           c == SubSeq(r, n + 1, l)
           q == Append(c, t)
           a == Append(p, time)
<1>0. r \in Seq(Nat) /\ p \in Seq(Nat)
  BY DEF RateOK
<1>1. l \in Nat /\ m \in Nat /\ n \in Nat /\ n <= l
  BY <1>0, LenProperties
<1>2. c \in Seq(Nat) /\ Len(c) = l - n /\ \A i \in 1 .. l - n : c[i] = r[i + n]
  BY <1>0, CutSequence
<1>3. /\ q \in Seq(Nat) /\ Len(q) = l - n + 1 /\ q[l - n + 1] = t
      /\ \A i \in 1 .. l - n : q[i] = r[i + n]
  BY <1>2, AppendProperties
<1>4. /\ a \in Seq(Nat) /\ Len(a) = m + 1 /\ a[m + 1] = time
      /\ \A j \in 1 .. m : a[j] = p[j]
  BY <1>0, AppendProperties
<1>5. \A i \in 1 .. l : r[i] \in Nat
  BY <1>0, ElementOfSeq
<1>6. \A j \in 1 .. m : p[j] \in Nat /\ p[j] <= time
  BY <1>0, ElementOfSeq DEF RateOK
<1> HIDE DEF q, a, c, l, m
<1>7. Len(q) <= Limit
  BY <1>1, <1>3, IntakeNumbers DEF l
<1>8. ASSUME NEW i \in 1 .. m + 1, NEW j \in 1 .. m + 1, i <= j PROVE a[i] <= a[j]
  <2>1. CASE j = m + 1
    <3>1. a[j] = time
      BY <1>4, <2>1
    <3>2. CASE i = m + 1
      BY <1>4, <3>1, <3>2
    <3>3. CASE i # m + 1
      <4>1. i \in 1 .. m
        BY <1>1, <3>3
      <4> QED
        BY <1>4, <1>6, <3>1, <4>1
    <3> QED
      BY <3>2, <3>3
  <2>2. CASE j # m + 1
    <3>1. i \in 1 .. m /\ j \in 1 .. m
      BY <1>1, <1>8, <2>2
    <3> QED
      BY <1>4, <1>8, <3>1 DEF RateOK, m
  <2> QED
    BY <2>1, <2>2
<1>9. ASSUME NEW j \in 1 .. m + 1 PROVE a[j] <= time
  <2>1. CASE j = m + 1
    BY <1>4, <2>1
  <2>2. CASE j # m + 1
    <3>1. j \in 1 .. m
      BY <1>1, <2>2
    <3> QED
      BY <1>4, <1>6, <3>1
  <2> QED
    BY <2>1, <2>2
<1>10. ASSUME NEW i \in 1 .. l - n + 1, NEW j \in 1 .. m + 1, l - n + 1 - i = m + 1 - j
       PROVE  q[i] <= a[j] /\ a[j] - q[i] <= MaxDelay
  <2>1. CASE j = m + 1
    <3>1. i = l - n + 1
      BY <1>1, <1>10, <2>1
    <3> QED
      BY <1>3, <1>4, <2>1, <3>1
  <2>2. CASE j # m + 1
    <3>1. j \in 1 .. m /\ i \in 1 .. l - n /\ i + n \in 1 .. l /\ l - (i + n) = m - j
      BY <1>1, <1>10, <2>2
    <3>2. r[i + n] <= p[j] /\ p[j] - r[i + n] <= MaxDelay
      BY <3>1 DEF RateOK, l, m
    <3> QED
      BY <1>3, <1>4, <3>1, <3>2
  <2> QED
    BY <2>1, <2>2
<1>11. ASSUME NEW j \in 1 .. m + 1, j <= m + 1 - (l - n + 1)
       PROVE  a[j] < time - Period + MaxDelay
  <2>1. j \in 1 .. m /\ j <= m - l + n
    BY <1>1, <1>11
  <2>2. CASE j <= m - l
    BY <1>4, <2>1, <2>2 DEF RateOK, l, m
  <2>3. CASE j > m - l
    <3>1. j - (m - l) \in 1 .. n /\ j - (m - l) \in 1 .. l /\ l - (j - (m - l)) = m - j
      BY <1>1, <2>1, <2>3
    <3>2. p[j] - r[j - (m - l)] <= MaxDelay
      BY <2>1, <3>1 DEF RateOK, l, m
    <3>3. r[j - (m - l)] < t - Period
      BY <3>1
    <3>4. r[j - (m - l)] \in Nat /\ p[j] \in Nat
      BY <1>5, <1>6, <2>1, <3>1
    <3> HIDE DEF RateOK
    <3>5. p[j] < time - Period + MaxDelay
      BY <3>2, <3>3, <3>4, IntakeNumbers
    <3> QED
      BY <1>4, <2>1, <3>5
  <2> QED
    BY <1>1, <2>1, <2>2, <2>3
<1>12. ASSUME NEW i \in 1 .. l - n + 1, i <= l - n + 1 - (m + 1)
       PROVE  q[i] < time - Period - MaxDelay
  <2>1. i \in 1 .. l - n /\ i + n \in 1 .. l /\ i + n <= l - m
    BY <1>1, <1>12
  <2> QED
    BY <1>3, <2>1 DEF RateOK, l, m
<1> QED
  <2>1. q \in Seq(Nat) /\ a \in Seq(Nat) /\ Len(q) = l - n + 1 /\ Len(a) = m + 1
    BY <1>3, <1>4
  <2>2. RateOK(q, a, time)
    <3>1. \A i, j \in 1 .. Len(a) : i <= j => a[i] <= a[j]
      BY <2>1, <1>8
    <3>2. \A j \in 1 .. Len(a) : a[j] <= time
      BY <2>1, <1>9
    <3>3. ASSUME NEW i \in 1 .. Len(q), NEW j \in 1 .. Len(a), Len(q) - i = Len(a) - j
          PROVE  q[i] <= a[j] /\ a[j] - q[i] <= MaxDelay
      <4>1. i \in 1 .. l - n + 1 /\ j \in 1 .. m + 1 /\ l - n + 1 - i = m + 1 - j
        <5>1. i \in 1 .. l - n + 1 /\ j \in 1 .. m + 1
          BY <2>1, <3>3
        <5>2. l - n + 1 - i = m + 1 - j
          BY <1>1, <2>1, <3>3
        <5> QED
          BY <5>1, <5>2
      <4> QED
        BY <1>10, <4>1
    <3>4. \A j \in 1 .. Len(a) : j <= Len(a) - Len(q) => a[j] < time - Period + MaxDelay
      BY <1>1, <2>1, <1>11
    <3>5. \A i \in 1 .. Len(q) : i <= Len(q) - Len(a) => q[i] < time - Period - MaxDelay
      BY <1>1, <2>1, <1>12
    <3> QED
      BY <2>1, <1>7, <3>1, <3>2, <3>3, <3>4, <3>5 DEF RateOK
  <2> QED
    BY <2>2 DEF q, a, c, l

\* Time goes on and old passes are forgotten.
LEMMA TickKeepsRate ==
  ASSUME NEW r, NEW p, NEW time \in Nat, RateOK(r, p, time), NEW next, next = time + 1
  PROVE  RateOK(r, Updates!Remembered(p, next), next)
<1> DEFINE old == {i \in DOMAIN p : p[i] < next - Period - MaxDelay}
           n == Cardinality(old)
           l == Len(r)
           m == Len(p)
           a == SubSeq(p, n + 1, m)
<1>0. r \in Seq(Nat) /\ p \in Seq(Nat)
  BY DEF RateOK
<1>1. l \in Nat /\ m \in Nat /\ DOMAIN p = 1 .. m
  BY <1>0, LenProperties
<1>2. /\ \A i \in 1 .. l : r[i] \in Nat
      /\ \A j \in 1 .. m : p[j] \in Nat /\ p[j] <= time
  BY <1>0, ElementOfSeq DEF RateOK
<1>3. old \in SUBSET (1 .. m) /\ \A i \in old : 1 .. i \subseteq old
  <2>1. \A i \in 1 .. m : \A j \in 1 .. i : j \in 1 .. m /\ p[j] <= p[i]
    BY <1>1 DEF RateOK
  <2> QED
    BY <1>1, <1>2, <2>1, IntakeNumbers
<1>4. n \in 0 .. m /\ old = 1 .. n
  BY <1>1, <1>3, InitialSegment
<1>5. Updates!Remembered(p, next) = a
  <2>1. Updates!Cardinality(old) = n
    BY SameCount
  <2>2. Updates!Remembered(p, next) = SubSeq(p, Updates!Cardinality(old) + 1, Len(p))
    BY DEF Updates!Remembered
  <2> QED
    BY <2>1, <2>2
<1>6. a \in Seq(Nat) /\ Len(a) = m - n /\ \A i \in 1 .. m - n : a[i] = p[i + n]
  BY <1>0, <1>4, CutSequence
<1>7. \A i \in 1 .. n : p[i] < next - Period - MaxDelay
  BY <1>4
<1> HIDE DEF a, n, l, m, old
<1>8. n \in Nat /\ n <= m
  BY <1>1, <1>4
<1>9. \A i, j \in 1 .. m - n : i <= j => a[i] <= a[j]
  <2>1. \A i, j \in 1 .. m - n : i <= j =>
           i + n \in 1 .. m /\ j + n \in 1 .. m /\ i + n <= j + n
    BY <1>1, <1>8
  <2> QED
    BY <1>6, <2>1 DEF RateOK, m
<1>10. \A j \in 1 .. m - n : j + n \in 1 .. m /\ a[j] = p[j + n] /\ a[j] \in Nat /\ a[j] <= next
  <2>1. \A j \in 1 .. m - n : j + n \in 1 .. m
    BY <1>1, <1>8
  <2> QED
    BY <1>2, <1>6, <2>1
<1>11. ASSUME NEW i \in 1 .. l, NEW j \in 1 .. m - n, l - i = m - n - j
       PROVE  r[i] <= a[j] /\ a[j] - r[i] <= MaxDelay
  <2>1. j + n \in 1 .. m /\ a[j] = p[j + n] /\ l - i = m - (j + n)
    BY <1>1, <1>8, <1>10, <1>11
  <2> QED
    BY <2>1 DEF RateOK, l, m
<1>12. ASSUME NEW j \in 1 .. m - n, j <= m - n - l
       PROVE  a[j] < next - Period + MaxDelay
  <2>1. j + n \in 1 .. m /\ a[j] = p[j + n] /\ j + n <= m - l
    BY <1>1, <1>8, <1>10, <1>12
  <2>2. p[j + n] < time - Period + MaxDelay
    BY <2>1 DEF RateOK, l, m
  <2>3. p[j + n] \in Nat
    BY <1>2, <2>1
  <2> QED
    BY <2>1, <2>2, <2>3, IntakeNumbers
<1>13. ASSUME NEW i \in 1 .. l, i <= l - (m - n)
       PROVE  r[i] < next - Period - MaxDelay
  <2>0. r[i] \in Nat
    BY <1>2
  <2>1. CASE i <= l - m
    <3>1. r[i] < time - Period - MaxDelay
      BY <2>1 DEF RateOK, l, m
    <3> QED
      BY <2>0, <3>1, IntakeNumbers
  <2>2. CASE i > l - m
    <3>1. i - (l - m) \in 1 .. n /\ i - (l - m) \in 1 .. m /\ l - i = m - (i - (l - m))
      BY <1>1, <1>8, <1>13, <2>2
    <3>2. r[i] <= p[i - (l - m)]
      BY <3>1 DEF RateOK, l, m
    <3>3. p[i - (l - m)] < next - Period - MaxDelay /\ p[i - (l - m)] \in Nat
      BY <1>2, <1>7, <3>1
    <3> QED
      BY <2>0, <3>2, <3>3, IntakeNumbers
  <2> QED
    BY <1>1, <2>1, <2>2
<1> QED
  <2>1. /\ r \in Seq(Nat) /\ a \in Seq(Nat) /\ Len(a) = m - n /\ Len(r) = l
        /\ l <= Limit
    BY <1>0, <1>6 DEF l, RateOK
  <2>2. RateOK(r, a, time + 1)
    <3>1. \A i, j \in 1 .. Len(a) : i <= j => a[i] <= a[j]
      BY <2>1, <1>9
    <3>2. \A j \in 1 .. Len(a) : a[j] <= next
      BY <1>1, <2>1, <1>10
    <3>3. \A i \in 1 .. Len(r), j \in 1 .. Len(a) : Len(r) - i = Len(a) - j =>
             r[i] <= a[j] /\ a[j] - r[i] <= MaxDelay
      BY <1>1, <2>1, <1>11
    <3>4. \A j \in 1 .. Len(a) : j <= Len(a) - Len(r) => a[j] < next - Period + MaxDelay
      BY <1>1, <2>1, <1>12
    <3>5. \A i \in 1 .. Len(r) : i <= Len(r) - Len(a) => r[i] < next - Period - MaxDelay
      BY <2>1, <1>13
    <3> QED
      BY <2>1, <3>1, <3>2, <3>3, <3>4, <3>5 DEF RateOK
  <2> QED
    BY <1>5, <2>2

\* Positions from j on: at least so many times since t, at most that many.
LEMMA TimesSince ==
  ASSUME NEW p \in Seq(Nat), NEW t \in Int
  PROVE  /\ \A l \in 0 .. Len(p) : (\A j \in 1 .. Len(p) : j <= Len(p) - l => p[j] < t)
              => Cardinality({i \in DOMAIN p : p[i] >= t}) <= l
         /\ \A l \in 0 .. Len(p) : (\A j \in 1 .. Len(p) : j > Len(p) - l => p[j] >= t)
              => Cardinality({i \in DOMAIN p : p[i] >= t}) >= l
<1> DEFINE S == {i \in DOMAIN p : p[i] >= t}
           m == Len(p)
<1>1. m \in Nat /\ DOMAIN p = 1 .. m /\ \A i \in 1 .. m : p[i] \in Nat
  BY LenProperties, ElementOfSeq
<1>2. IsFiniteSet(S)
  <2>1. IsFiniteSet(1 .. m) /\ S \subseteq 1 .. m
    BY <1>1, FS_Interval
  <2> QED
    BY <2>1, FS_Subset
<1>3. ASSUME NEW l \in 0 .. m, \A j \in 1 .. m : j <= m - l => p[j] < t
      PROVE  Cardinality(S) <= l
  <2>1. S \subseteq m - l + 1 .. m
    BY <1>1, <1>3
  <2>2. IsFiniteSet(m - l + 1 .. m) /\ Cardinality(m - l + 1 .. m) = l
    BY <1>1, FS_Interval
  <2>3. Cardinality(S) <= Cardinality(m - l + 1 .. m)
    BY <2>1, <2>2, FS_Subset
  <2> QED
    BY <2>2, <2>3
<1>4. ASSUME NEW l \in 0 .. m, \A j \in 1 .. m : j > m - l => p[j] >= t
      PROVE  Cardinality(S) >= l
  <2>1. m - l + 1 .. m \subseteq S
    BY <1>1, <1>4
  <2>2. Cardinality(m - l + 1 .. m) = l
    BY <1>1, FS_Interval
  <2>3. Cardinality(m - l + 1 .. m) <= Cardinality(S)
    BY <1>2, <2>1, FS_Subset
  <2>4. Cardinality(S) \in Nat
    BY <1>2, FS_CardinalityType
  <2> QED
    BY <2>2, <2>3, <2>4
<1> QED
  BY <1>3, <1>4

LEMMA PassesAreCounted ==
  ASSUME NEW u, NEW t
  PROVE  Updates!PassesSince(u, t) = Cardinality({i \in DOMAIN passes[u] : passes[u][i] >= t})
BY SameCount DEF Updates!PassesSince

\* No more passes in the window than there are requests.
LEMMA WindowIsKept ==
  ASSUME RateInv, clock \in Nat
  PROVE  Updates!WindowHolds
<1> SUFFICES ASSUME NEW u \in Users
             PROVE  Updates!PassesSince(u, clock - (Period - MaxDelay)) <= Limit
  BY DEF Updates!WindowHolds
<1> DEFINE r == requests[u]
           p == passes[u]
           t == clock - (Period - MaxDelay)
<1>1. RateOK(r, p, clock)
  BY DEF RateInv
<1>2. Len(r) \in Nat /\ Len(p) \in Nat /\ p \in Seq(Nat) /\ Len(r) <= Limit
  BY <1>1, LenProperties DEF RateOK
<1>3. t \in Int /\ t = clock - Period + MaxDelay
  BY IntakeNumbers
<1>4. \A j \in 1 .. Len(p) : j <= Len(p) - Len(r) => p[j] < t
  BY <1>1, <1>3 DEF RateOK
<1>5. \E l \in 0 .. Len(p) : l <= Limit /\ \A j \in 1 .. Len(p) : j <= Len(p) - l => p[j] < t
  <2>1. CASE Len(r) <= Len(p)
    BY <1>2, <1>4, <2>1
  <2>2. CASE Len(r) > Len(p)
    <3>1. Len(p) \in 0 .. Len(p) /\ Len(p) <= Limit
      BY <1>2, <2>2, IntakeNumbers
    <3>2. \A j \in 1 .. Len(p) : ~(j <= Len(p) - Len(p))
      BY <1>2
    <3> QED
      BY <3>1, <3>2
  <2> QED
    BY <1>2, <2>1, <2>2
<1>6. PICK l \in 0 .. Len(p) : l <= Limit /\ \A j \in 1 .. Len(p) : j <= Len(p) - l => p[j] < t
  BY <1>5
<1> HIDE DEF p, t
<1>7. Cardinality({i \in DOMAIN p : p[i] >= t}) <= l
  BY <1>2, <1>3, <1>6, TimesSince
<1>8. Cardinality({i \in DOMAIN p : p[i] >= t}) <= Limit
  <2>1. Cardinality({i \in DOMAIN p : p[i] >= t}) \in Nat
    <3>1. IsFiniteSet(DOMAIN p)
      BY <1>2, LenProperties, FS_Interval
    <3>2. IsFiniteSet({i \in DOMAIN p : p[i] >= t})
      BY <3>1, FS_Subset
    <3> QED
      BY <3>2, FS_CardinalityType
  <2> QED
    BY <1>2, <1>6, <1>7, <2>1, IntakeNumbers
<1> QED
  BY <1>8, PassesAreCounted DEF p, t

\* When a request is refused nothing was dropped, and the oldest request is
\* in the window: the passes since are as many as the limit.
LEMMA RefusalHasReason ==
  ASSUME RateInv, clock \in Nat, NEW u \in Users, NEW t \in Nat,
         t <= clock, clock - t <= MaxDelay, Updates!Limited(u, t)
  PROVE  /\ Updates!PassesSince(u, clock - (Period + MaxDelay)) >= Limit
         /\ Updates!Recent(requests[u], t) = requests[u]
<1> DEFINE r == requests[u]
           p == passes[u]
           s == clock - (Period + MaxDelay)
           m == Len(p)
<1>1. RateOK(r, p, clock)
  BY DEF RateInv
<1>2. /\ Len(r) \in Nat /\ m \in Nat /\ r \in Seq(Nat) /\ p \in Seq(Nat)
      /\ Len(r) <= Limit
  BY <1>1, LenProperties DEF RateOK
<1>3. PICK n \in 0 .. Len(r) :
        /\ Updates!Recent(r, t) = SubSeq(r, n + 1, Len(r))
        /\ \A i \in 1 .. n : r[i] < t - Period
        /\ n < Len(r) => r[n + 1] >= t - Period
  BY <1>2, RecentIsCut
<1>4. Len(SubSeq(r, n + 1, Len(r))) = Len(r) - n
  BY <1>2, CutSequence
<1>5. Len(r) - n >= Limit
  BY <1>3, <1>4 DEF Updates!Limited
<1>6. n = 0 /\ Len(r) = Limit
  BY <1>2, <1>5, IntakeNumbers
<1>7. Updates!Recent(r, t) = r
  BY <1>2, <1>3, <1>6, SubSeqFull
<1>8. 1 \in 1 .. Len(r) /\ r[1] \in Nat /\ r[1] >= s
  <2>1. 1 \in 1 .. Len(r)
    BY <1>6, IntakeNumbers
  <2>2. r[1] \in Nat /\ r[1] >= t - Period
    BY <1>2, <1>3, <1>6, <2>1, ElementOfSeq
  <2> QED
    BY <2>1, <2>2, IntakeNumbers
<1> HIDE DEF r, p, m
<1>9. Limit <= m
  <2>1. \A i \in 1 .. Len(r) : i <= Len(r) - m => r[i] < clock - Period - MaxDelay
    BY <1>1 DEF RateOK, m
  <2>2. ~(1 <= Len(r) - m)
    BY <1>8, <2>1, IntakeNumbers
  <2> QED
    BY <1>2, <1>6, <2>2
<1>10. m - Limit + 1 \in 1 .. m /\ Len(r) - 1 = m - (m - Limit + 1)
  BY <1>2, <1>6, <1>9, IntakeNumbers
<1>11. p[m - Limit + 1] >= r[1]
  BY <1>1, <1>8, <1>10 DEF RateOK, m
<1>12. ASSUME NEW j \in 1 .. m, j > m - Limit
       PROVE  p[j] >= s
  <2>1. m - Limit + 1 <= j
    BY <1>2, <1>12, IntakeNumbers
  <2>2. p[m - Limit + 1] <= p[j]
    BY <1>1, <1>10, <2>1 DEF RateOK, m
  <2>3. p[j] \in Nat /\ p[m - Limit + 1] \in Nat
    BY <1>2, <1>10, ElementOfSeq DEF m
  <2> QED
    BY <1>8, <1>11, <2>2, <2>3, IntakeNumbers
<1>13. s \in Int /\ Limit \in 0 .. m
  BY <1>2, <1>9, IntakeNumbers
<1> HIDE DEF s
<1>14. Cardinality({i \in DOMAIN p : p[i] >= s}) >= Limit
  BY <1>2, <1>12, <1>13, TimesSince DEF m
<1> QED
  BY <1>7, <1>14, PassesAreCounted DEF r, p, s

LEMMA ThrottleKeepsRate ==
  ASSUME WorkersInv, RateInv, NEW w \in Workers, Updates!Throttle(w)
  PROVE  RateInv'
<1> DEFINE u == Sender(update[w])
           t == opened[w]
<1>1. /\ u \in Users /\ t \in Nat /\ clock \in Nat /\ clock' = clock
      /\ t <= clock /\ clock - t <= MaxDelay
  BY ThrottleEffect, IntakeNumbers DEF WorkersInv
<1>2. /\ requests' = [requests EXCEPT ![u] =
                        IF Updates!Limited(u, t) THEN Updates!Recent(@, t)
                        ELSE Append(Updates!Recent(@, t), t)]
      /\ passes' = [passes EXCEPT ![u] = IF Updates!Limited(u, t) THEN @ ELSE Append(@, clock)]
  BY DEF Updates!Throttle, Updates!Track
<1> HIDE DEF u, t
<1>3. DOMAIN requests = Users /\ DOMAIN passes = Users
  BY DEF RateInv
<1>4. RateOK(requests'[u], passes'[u], clock)
  <2>1. CASE Updates!Limited(u, t)
    <3>1. Updates!Recent(requests[u], t) = requests[u]
      BY <1>1, <2>1, RefusalHasReason
    <3>2. requests'[u] = requests[u] /\ passes'[u] = passes[u]
      BY <1>1, <1>2, <1>3, <2>1, <3>1
    <3> QED
      BY <1>1, <3>2 DEF RateInv
  <2>2. CASE ~Updates!Limited(u, t)
    <3>1. RateOK(requests[u], passes[u], clock)
      BY <1>1 DEF RateInv
    <3>2. requests[u] \in Seq(Nat) /\ Len(requests[u]) \in Nat
      BY <3>1, LenProperties DEF RateOK
    <3>3. PICK n \in 0 .. Len(requests[u]) :
            /\ Updates!Recent(requests[u], t) = SubSeq(requests[u], n + 1, Len(requests[u]))
            /\ \A i \in 1 .. n : requests[u][i] < t - Period
      BY <1>1, <3>2, RecentIsCut
    <3>4. Len(SubSeq(requests[u], n + 1, Len(requests[u]))) = Len(requests[u]) - n
      BY <3>2, CutSequence
    <3>5. Len(requests[u]) - n < Limit
      BY <2>2, <3>2, <3>3, <3>4, IntakeNumbers DEF Updates!Limited
    <3>6. /\ requests'[u] = Append(SubSeq(requests[u], n + 1, Len(requests[u])), t)
          /\ passes'[u] = Append(passes[u], clock)
      BY <1>1, <1>2, <1>3, <2>2, <3>3
    <3>7. RateOK(Append(SubSeq(requests[u], n + 1, Len(requests[u])), t),
                 Append(passes[u], clock), clock)
      BY <1>1, <3>1, <3>3, <3>5, PassKeepsRate
    <3> QED
      BY <3>6, <3>7
  <2> QED
    BY <2>1, <2>2
<1>5. ASSUME NEW v \in Users PROVE RateOK(requests'[v], passes'[v], clock)
  <2>1. CASE v = u
    BY <1>4, <2>1
  <2>2. CASE v # u
    <3>1. requests'[v] = requests[v] /\ passes'[v] = passes[v]
      BY <1>2, <1>3, <2>2
    <3> QED
      BY <3>1 DEF RateInv
  <2> QED
    BY <2>1, <2>2
<1>6. DOMAIN requests' = Users /\ DOMAIN passes' = Users
  BY <1>2, <1>3
<1> QED
  BY <1>1, <1>5, <1>6 DEF RateInv

LEMMA TickKeepsRates ==
  ASSUME WorkersInv, RateInv, Updates!Tick
  PROVE  RateInv'
<1>1. /\ clock' = clock + 1 /\ requests' = requests /\ clock \in Nat
      /\ passes' = [u \in Users |-> Updates!Remembered(passes[u], clock')]
  BY TickEffect DEF Updates!Tick, WorkersInv
<1>2. ASSUME NEW u \in Users PROVE RateOK(requests'[u], passes'[u], clock')
  <2>1. RateOK(requests[u], passes[u], clock)
    BY DEF RateInv
  <2>2. RateOK(requests[u], Updates!Remembered(passes[u], clock'), clock')
    BY <1>1, <2>1, TickKeepsRate
  <2> QED
    BY <1>1, <2>2
<1> QED
  BY <1>1, <1>2 DEF RateInv

LEMMA RateKeeps ==
  ASSUME WorkersInv, RateInv, [Updates!Next]_updateVars
  PROVE  RateInv'
<1>1. CASE UNCHANGED <<clock, requests, passes>>
  BY <1>1 DEF RateInv
<1>2. CASE \E w \in Workers : Updates!Throttle(w)
  BY <1>2, ThrottleKeepsRate
<1>3. CASE Updates!Tick
  BY <1>3, TickKeepsRates
<1>4. \/ UNCHANGED <<clock, requests, passes>> \/ Updates!Tick
      \/ \E w \in Workers : Updates!Throttle(w)
  BY UpdateSteps, DeliverEffect, DedupEffect, ScreenEffect DEF updateVars
<1> QED
  BY <1>1, <1>2, <1>3, <1>4

\* A worker that is sent home without a pass was refused.
LEMMA RefusedWithReasonStep ==
  ASSUME WorkersInv, RateInv, [Updates!Next]_updateVars, NEW w \in Workers,
         stage[w] = "admitted", stage'[w] = "idle", UNCHANGED passes
  PROVE  Updates!PassesSince(Sender(update[w]), clock - (Period + MaxDelay)) >= Limit
<1>1. Updates!Throttle(w)
  <2>1. ASSUME NEW v \in Workers, stage' = [stage EXCEPT ![v] = "received"] PROVE FALSE
    BY <2>1 DEF WorkersInv
  <2>2. ASSUME NEW v \in Workers, stage[v] # "admitted", stage' = [stage EXCEPT ![v] = "idle"]
        PROVE  FALSE
    BY <2>2 DEF WorkersInv
  <2>3. ASSUME NEW v \in Workers, stage' = [stage EXCEPT ![v] = "new"] PROVE FALSE
    BY <2>3 DEF WorkersInv
  <2>4. ASSUME NEW v \in Workers, stage' = [stage EXCEPT ![v] = "admitted"] PROVE FALSE
    BY <2>4 DEF WorkersInv
  <2>5. ASSUME NEW v \in Workers, stage' = [stage EXCEPT ![v] = "idle"] PROVE v = w
    BY <2>5 DEF WorkersInv
  <2>6. ~ UNCHANGED updateVars /\ ~Updates!Tick
    BY TickEffect DEF updateVars
  <2>7. ASSUME NEW v \in Workers, NEW k \in Keys, Updates!Deliver(v, k) PROVE FALSE
    BY <2>1, <2>7, DeliverEffect
  <2>8. ASSUME NEW v \in Workers, Updates!Dedup(v) PROVE FALSE
    BY <2>2, <2>3, <2>8, DedupEffect, FinishEffect
  <2>9. ASSUME NEW v \in Workers, Updates!Screen(v) PROVE FALSE
    BY <2>2, <2>4, <2>9, ScreenEffect, FinishEffect
  <2>10. ASSUME NEW v \in Workers, Updates!Throttle(v) PROVE v = w
    BY <2>5, <2>10, ThrottleEffect, FinishEffect
  <2> QED
    BY <2>6, <2>7, <2>8, <2>9, <2>10, UpdateSteps
<1> DEFINE u == Sender(update[w])
           t == opened[w]
<1>2. /\ u \in Users /\ t \in Nat /\ clock \in Nat
      /\ t <= clock /\ clock - t <= MaxDelay
  BY <1>1, ThrottleEffect, IntakeNumbers DEF WorkersInv
<1>3. Updates!Limited(u, t)
  <2> SUFFICES ASSUME ~Updates!Limited(u, t) PROVE FALSE
    OBVIOUS
  <2>1. passes' = [passes EXCEPT ![u] = Append(@, clock)]
    BY <1>1 DEF Updates!Throttle
  <2>2. passes[u] = Append(passes[u], clock) /\ passes[u] \in Seq(Nat)
    BY <1>2, <2>1 DEF RateInv, RateOK
  <2>3. Len(passes[u]) \in Nat /\ Len(passes[u]) = Len(passes[u]) + 1
    BY <1>2, <2>2, LenProperties, AppendProperties
  <2> QED
    BY <2>3
<1> QED
  BY <1>2, <1>3, RefusalHasReason

----------------------------------------------------------------------------
(* The cache and its queue.                                                 *)
LEMMA QueueTypes ==
  ASSUME NEW e, NEW q, QueueOK(e, q)
  PROVE  /\ Len(q) \in Nat /\ q \in Seq(Place)
         /\ \A i \in 1 .. Len(q) : q[i] \in Place /\ q[i].key \in Keys /\ q[i].expiry \in Nat
<1>1. q \in Seq(Place)
  BY DEF QueueOK
<1>2. Len(q) \in Nat /\ \A i \in 1 .. Len(q) : q[i] \in Place
  BY <1>1, LenProperties, ElementOfSeq
<1> QED
  BY <1>1, <1>2 DEF Place

\* The keys whose live place is not among the first n.
LEMMA LeftIs ==
  ASSUME NEW e, NEW q, NEW n \in Nat, QueueOK(e, q), n <= Len(q)
  PROVE  /\ \A k : k \in DOMAIN Updates!Left(e, q, n) <=>
              /\ k \in DOMAIN e
              /\ \A i \in 1 .. n : q[i].key = k => q[i].expiry # e[k]
         /\ \A k \in DOMAIN Updates!Left(e, q, n) : Updates!Left(e, q, n)[k] = e[k]
<1>1. ASSUME NEW k \in DOMAIN e, NEW i \in 1 .. n
      PROVE  q[i] # [key |-> k, expiry |-> e[k]] <=> (q[i].key = k => q[i].expiry # e[k])
  <2>1. q[i] \in Place
    BY QueueTypes
  <2> QED
    BY <2>1 DEF Place
<1>2. {k \in DOMAIN e : \A i \in 1 .. n : q[i] # [key |-> k, expiry |-> e[k]]}
        = {k \in DOMAIN e : \A i \in 1 .. n : q[i].key = k => q[i].expiry # e[k]}
  BY <1>1
<1>3. Updates!Left(e, q, n) =
        [k \in {k \in DOMAIN e : \A i \in 1 .. n : q[i].key = k => q[i].expiry # e[k]} |-> e[k]]
  BY <1>2 DEF Updates!Left
<1> QED
  BY <1>3

\* Taking places from the front leaves a well-formed queue.
LEMMA CutQueue ==
  ASSUME NEW e, NEW q, NEW n \in 0 .. Len(q), QueueOK(e, q)
  PROVE  QueueOK(Updates!Left(e, q, n), SubSeq(q, n + 1, Len(q)))
<1> DEFINE f == Updates!Left(e, q, n)
           s == SubSeq(q, n + 1, Len(q))
<1>1. /\ Len(q) \in Nat /\ n \in Nat /\ n <= Len(q)
      /\ q \in Seq(Place)
      /\ \A i \in 1 .. Len(q) : q[i].key \in Keys /\ q[i].expiry \in Nat
  BY QueueTypes
<1>2. s \in Seq(Place) /\ Len(s) = Len(q) - n /\ \A i \in 1 .. Len(q) - n : s[i] = q[i + n]
  BY <1>1, CutSequence
<1>3. /\ \A k : k \in DOMAIN f <=>
           /\ k \in DOMAIN e
           /\ \A i \in 1 .. n : q[i].key = k => q[i].expiry # e[k]
      /\ \A k \in DOMAIN f : f[k] = e[k]
  BY <1>1, LeftIs
<1>0. f = [k \in DOMAIN f |-> f[k]]
  BY DEF Updates!Left
<1> HIDE DEF f, s
<1>4. DOMAIN f \subseteq Keys /\ IsFiniteSet(DOMAIN f) /\ \A k \in DOMAIN f : f[k] \in Nat
  <2>1. DOMAIN f \subseteq DOMAIN e
    BY <1>3
  <2> QED
    BY <1>3, <2>1, FS_Subset DEF QueueOK
<1>5. ASSUME NEW k \in DOMAIN f
      PROVE  \E i \in 1 .. Len(s) : s[i].key = k /\ s[i].expiry = f[k]
  <2>1. k \in DOMAIN e /\ f[k] = e[k]
    BY <1>3
  <2>2. PICK i \in 1 .. Len(q) : q[i].key = k /\ q[i].expiry = e[k]
    BY <2>1 DEF QueueOK
  <2>3. ~(i \in 1 .. n)
    BY <1>3, <2>2
  <2>4. i - n \in 1 .. Len(s) /\ i - n + n = i
    BY <1>1, <1>2, <2>3
  <2>5. s[i - n] = q[i]
    BY <1>2, <2>4
  <2> QED
    BY <2>1, <2>2, <2>4, <2>5
<1>6. ASSUME NEW i \in 1 .. Len(s)
      PROVE  s[i].key \in DOMAIN f /\ s[i].expiry <= f[s[i].key]
  <2>1. i + n \in 1 .. Len(q) /\ s[i] = q[i + n]
    BY <1>1, <1>2
  <2> DEFINE k == q[i + n].key
  <2>2. k \in DOMAIN e /\ q[i + n].expiry <= e[k]
    BY <2>1 DEF QueueOK
  <2>3. ASSUME NEW j \in 1 .. n, q[j].key = k, q[j].expiry = e[k] PROVE FALSE
    <3>1. j \in 1 .. Len(q) /\ j < i + n
      BY <1>1, <1>2
    <3>2. q[j].expiry < q[i + n].expiry
      BY <2>1, <2>3, <3>1 DEF QueueOK
    <3>3. q[j].expiry \in Nat /\ q[i + n].expiry \in Nat
      BY <1>1, <2>1, <3>1
    <3> HIDE DEF k
    <3> QED
      BY <2>2, <2>3, <3>2, <3>3
  <2>4. k \in DOMAIN f
    BY <1>3, <2>2, <2>3
  <2> QED
    BY <1>3, <2>1, <2>2, <2>4
<1>7. ASSUME NEW i \in 1 .. Len(s), NEW j \in 1 .. Len(s), i < j, s[i].key = s[j].key
      PROVE  s[i].expiry < s[j].expiry
  <2>1. /\ i + n \in 1 .. Len(q) /\ s[i] = q[i + n] /\ j + n \in 1 .. Len(q) /\ s[j] = q[j + n]
        /\ i + n < j + n
    BY <1>1, <1>2, <1>7
  <2>2. q[i + n].key = q[j + n].key
    BY <1>7, <2>1
  <2>3. q[i + n].expiry < q[j + n].expiry
    BY <2>1, <2>2 DEF QueueOK
  <2> QED
    BY <2>1, <2>3
<1> QED
  <2>1. QueueOK(f, s)
    BY <1>0, <1>2, <1>3, <1>4, <1>5, <1>6, <1>7 DEF QueueOK
  <2> QED
    BY <2>1 DEF f, s

\* What _prune_locked leaves: it stops at a place that may not be removed,
\* and what it took could be removed when it was in front.
LEMMA PruneIsCut ==
  ASSUME NEW e, NEW q, NEW t \in Nat, QueueOK(e, q)
  PROVE  \E n \in 0 .. Len(q) :
           /\ Updates!Prune(e, q, t) =
                [entries |-> Updates!Left(e, q, n), queue |-> SubSeq(q, n + 1, Len(q))]
           /\ \A i \in 1 .. n : Updates!Removable(Updates!Left(e, q, i - 1), q[i], t)
           /\ n < Len(q) => ~Updates!Removable(Updates!Left(e, q, n), q[n + 1], t)
<1> DEFINE Rem(i) == Updates!Removable(Updates!Left(e, q, i - 1), q[i], t)
           gone == {i \in DOMAIN q : \A j \in 1 .. i : Rem(j)}
           n == Cardinality(gone)
<1>1. Len(q) \in Nat /\ DOMAIN q = 1 .. Len(q)
  BY QueueTypes, LenProperties
<1>2. Updates!Gone(e, q, t) = gone
  BY DEF Updates!Gone
<1>11. ASSUME NEW i PROVE Rem(i) <=> Updates!Removable(Updates!Left(e, q, i - 1), q[i], t)
  OBVIOUS
<1> HIDE DEF Rem
<1>3. gone \in SUBSET (1 .. Len(q)) /\ \A i \in gone : 1 .. i \subseteq gone
  BY <1>1
<1>4. n \in 0 .. Len(q) /\ gone = 1 .. n
  BY <1>1, <1>3, InitialSegment
<1>5. Updates!Cardinality(Updates!Gone(e, q, t)) = n
  BY <1>2, SameCount
<1>6. Updates!Prune(e, q, t) =
        [entries |-> Updates!Left(e, q, n), queue |-> SubSeq(q, n + 1, Len(q))]
  BY <1>5 DEF Updates!Prune
<1>7. \A i \in 1 .. n : Rem(i)
  BY <1>4
<1>9. ASSUME n < Len(q), Updates!Removable(Updates!Left(e, q, n), q[n + 1], t) PROVE FALSE
  <2>1. n + 1 \in 1 .. Len(q) /\ \A j \in 1 .. n + 1 : j \in 1 .. n \/ j = n + 1
    <3> HIDE DEF gone, n
    <3> QED
      BY <1>1, <1>4, <1>9
  <2>2. Rem(n + 1)
    <3> HIDE DEF gone, n
    <3> DEFINE h == n + 1
    <3>2. h - 1 = n
      BY <1>1, <1>4
    <3> HIDE DEF h
    <3>3. Rem(h) <=> Updates!Removable(Updates!Left(e, q, h - 1), q[h], t)
      BY <1>11
    <3> QED
      BY <1>9, <3>2, <3>3 DEF h
  <2>3. n + 1 \in gone
    BY <1>1, <1>7, <2>1, <2>2
  <2>4. QED
    <3> HIDE DEF gone, n
    <3> QED
      BY <1>1, <1>4, <2>3
<1>10. \A i \in 1 .. n : Updates!Removable(Updates!Left(e, q, i - 1), q[i], t)
  BY <1>7, <1>11
<1> HIDE DEF gone, n
<1> QED
  BY <1>4, <1>6, <1>9, <1>10

LEMMA RemovableIs ==
  ASSUME NEW e, NEW x, NEW t
  PROVE  Updates!Removable(e, x, t) <=>
           \/ x.key \notin DOMAIN e \/ e[x.key] # x.expiry
           \/ x.expiry <= t
           \/ Cardinality(DOMAIN e) > MaxEntries
BY SameCount DEF Updates!Removable, Updates!Superseded

\* After pruning, the entries are within the capacity.
LEMMA PruneFits ==
  ASSUME NEW e, NEW q, NEW t \in Nat, NEW n \in 0 .. Len(q), QueueOK(e, q),
         n < Len(q) => ~Updates!Removable(Updates!Left(e, q, n), q[n + 1], t)
  PROVE  Cardinality(DOMAIN Updates!Left(e, q, n)) <= MaxEntries
<1> DEFINE f == Updates!Left(e, q, n)
           s == SubSeq(q, n + 1, Len(q))
<1>1. QueueOK(f, s) /\ Len(q) \in Nat /\ q \in Seq(Place)
  BY CutQueue, QueueTypes
<1>2. Cardinality(DOMAIN f) \in Nat
  BY <1>1, FS_CardinalityType DEF QueueOK
<1>3. CASE n < Len(q)
  BY <1>2, <1>3, RemovableIs, IntakeNumbers
<1>4. CASE n = Len(q)
  <2>1. Len(s) = 0
    BY <1>1, <1>4, CutSequence
  <2>2. DOMAIN f = {}
    <3> HIDE DEF f, s
    <3>1. ASSUME NEW k \in DOMAIN f PROVE \E i \in 1 .. Len(s) : TRUE
      BY <1>1 DEF QueueOK
    <3> QED
      BY <2>1, <3>1
  <2> QED
    BY <2>2, FS_EmptySet, IntakeNumbers
<1> QED
  BY <1>1, <1>3, <1>4

\* Within the capacity only entries that are over are dropped.
LEMMA PruneSpares ==
  ASSUME NEW e, NEW q, NEW t \in Nat, NEW n \in 0 .. Len(q), QueueOK(e, q),
         Cardinality(DOMAIN e) <= MaxEntries,
         \A i \in 1 .. n : Updates!Removable(Updates!Left(e, q, i - 1), q[i], t),
         NEW k \in DOMAIN e, e[k] > t
  PROVE  k \in DOMAIN Updates!Left(e, q, n) /\ Updates!Left(e, q, n)[k] = e[k]
<1>1. Len(q) \in Nat /\ n \in Nat /\ n <= Len(q)
  BY QueueTypes
<1>2. ASSUME NEW i \in 1 .. n, q[i].key = k, q[i].expiry = e[k] PROVE FALSE
  <2> DEFINE f == Updates!Left(e, q, i - 1)
  <2>1. i - 1 \in Nat /\ i - 1 <= Len(q) /\ i \in 1 .. Len(q)
    BY <1>1
  <2>2. /\ \A j : j \in DOMAIN f <=>
             /\ j \in DOMAIN e
             /\ \A g \in 1 .. i - 1 : q[g].key = j => q[g].expiry # e[j]
        /\ \A j \in DOMAIN f : f[j] = e[j]
    BY <2>1, LeftIs
  <2>3. Updates!Removable(f, q[i], t)
    OBVIOUS
  <2> HIDE DEF f
  <2>4. ASSUME NEW g \in 1 .. i - 1, q[g].key = k, q[g].expiry = e[k] PROVE FALSE
    <3>1. g \in 1 .. Len(q) /\ g < i
      BY <1>1, <2>1
    <3>2. q[g].expiry < q[i].expiry
      BY <1>2, <2>1, <2>4, <3>1 DEF QueueOK
    <3>3. e[k] \in Nat
      BY DEF QueueOK
    <3> QED
      BY <1>2, <2>4, <3>2, <3>3
  <2>5. k \in DOMAIN f /\ f[k] = e[k]
    BY <2>2, <2>4
  <2>6. Cardinality(DOMAIN f) <= Cardinality(DOMAIN e) /\ Cardinality(DOMAIN f) \in Nat
    <3>1. DOMAIN f \subseteq DOMAIN e /\ IsFiniteSet(DOMAIN e)
      BY <2>2 DEF QueueOK
    <3> QED
      BY <3>1, FS_Subset, FS_CardinalityType
  <2>7. Cardinality(DOMAIN e) \in Nat
    BY FS_CardinalityType DEF QueueOK
  <2>8. ~(Cardinality(DOMAIN f) > MaxEntries)
    BY <2>6, <2>7, IntakeNumbers
  <2>9. ~(q[i].expiry <= t)
    <3>1. e[k] \in Nat
      BY DEF QueueOK
    <3> QED
      BY <1>2, <3>1
  <2> QED
    BY <1>2, <2>3, <2>5, <2>8, <2>9, RemovableIs
<1> QED
  BY <1>1, <1>2, LeftIs

\* A new place at the end, later than any of its key.
LEMMA EnterQueue ==
  ASSUME NEW e, NEW q, QueueOK(e, q), NEW k \in Keys, NEW t \in Nat,
         k \in DOMAIN e => e[k] <= t,
         NEW r, r = Updates!Enter([entries |-> e, queue |-> q], k, t)
  PROVE  /\ QueueOK(r.entries, r.queue)
         /\ DOMAIN r.entries = DOMAIN e \cup {k}
         /\ r.entries[k] = t + Ttl
         /\ \A j \in DOMAIN e \ {k} : r.entries[j] = e[j]
         /\ Len(r.queue) = Len(q) + 1
         /\ r.queue[Len(q) + 1] = [key |-> k, expiry |-> t + Ttl]
         /\ \A i \in 1 .. Len(q) : r.queue[i] = q[i]
<1> DEFINE x == [key |-> k, expiry |-> t + Ttl]
           f == [j \in DOMAIN e \cup {k} |-> IF j = k THEN t + Ttl ELSE e[j]]
           s == Append(q, x)
<1>1. r.entries = f /\ r.queue = s
  BY DEF Updates!Enter
<1>2. x \in Place /\ x.key = k /\ x.expiry = t + Ttl /\ t + Ttl \in Nat /\ t + Ttl > t
  BY IntakeNumbers DEF Place
<1>3. /\ Len(q) \in Nat /\ q \in Seq(Place)
      /\ \A i \in 1 .. Len(q) : q[i].key \in Keys /\ q[i].expiry \in Nat
  BY QueueTypes
<1>4. /\ s \in Seq(Place) /\ Len(s) = Len(q) + 1 /\ s[Len(q) + 1] = x
      /\ \A i \in 1 .. Len(q) : s[i] = q[i]
  BY <1>2, <1>3, AppendProperties
<1>5. /\ DOMAIN f = DOMAIN e \cup {k} /\ f[k] = t + Ttl
      /\ \A j \in DOMAIN e \ {k} : f[j] = e[j]
      /\ f = [j \in DOMAIN f |-> f[j]]
  OBVIOUS
<1> HIDE DEF x, f, s
<1>6. DOMAIN f \subseteq Keys /\ IsFiniteSet(DOMAIN f) /\ \A j \in DOMAIN f : f[j] \in Nat
  <2>1. IsFiniteSet(DOMAIN f)
    BY <1>5, FS_AddElement DEF QueueOK
  <2> QED
    BY <1>2, <1>5, <2>1 DEF QueueOK
<1>7. ASSUME NEW j \in DOMAIN f
      PROVE  \E i \in 1 .. Len(s) : s[i].key = j /\ s[i].expiry = f[j]
  <2>1. CASE j = k
    BY <1>2, <1>3, <1>4, <1>5, <2>1
  <2>2. CASE j # k
    <3>1. j \in DOMAIN e /\ f[j] = e[j]
      BY <1>5, <2>2
    <3>2. PICK i \in 1 .. Len(q) : q[i].key = j /\ q[i].expiry = e[j]
      BY <3>1 DEF QueueOK
    <3>3. i \in 1 .. Len(s) /\ s[i] = q[i]
      BY <1>3, <1>4
    <3> QED
      BY <3>1, <3>2, <3>3
  <2> QED
    BY <2>1, <2>2
\* Places before the new one are earlier, if they are of its key.
<1>8. ASSUME NEW i \in 1 .. Len(q), q[i].key = k PROVE q[i].expiry < t + Ttl
  <2>1. k \in DOMAIN e /\ q[i].expiry <= e[k] /\ e[k] \in Nat
    BY <1>8 DEF QueueOK
  <2> QED
    BY <1>2, <1>3, <2>1
<1>9. ASSUME NEW i \in 1 .. Len(s)
      PROVE  s[i].key \in DOMAIN f /\ s[i].expiry <= f[s[i].key]
  <2>1. CASE i = Len(q) + 1
    BY <1>2, <1>4, <1>5, <2>1
  <2>2. CASE i # Len(q) + 1
    <3>1. i \in 1 .. Len(q) /\ s[i] = q[i]
      BY <1>3, <1>4, <2>2
    <3>2. q[i].key \in DOMAIN e /\ q[i].expiry <= e[q[i].key]
      BY <3>1 DEF QueueOK
    <3>3. CASE q[i].key = k
      BY <1>2, <1>3, <1>5, <1>8, <3>1, <3>3
    <3>4. CASE q[i].key # k
      BY <1>5, <3>1, <3>2, <3>4
    <3> QED
      BY <3>3, <3>4
  <2> QED
    BY <2>1, <2>2
<1>10. ASSUME NEW i \in 1 .. Len(s), NEW j \in 1 .. Len(s), i < j, s[i].key = s[j].key
       PROVE  s[i].expiry < s[j].expiry
  <2>1. i \in 1 .. Len(q) /\ s[i] = q[i]
    BY <1>3, <1>4, <1>10
  <2>2. CASE j = Len(q) + 1
    BY <1>2, <1>4, <1>8, <1>10, <2>1, <2>2
  <2>3. CASE j # Len(q) + 1
    <3>1. j \in 1 .. Len(q) /\ s[j] = q[j]
      BY <1>3, <1>4, <2>3
    <3> QED
      BY <1>10, <2>1, <3>1 DEF QueueOK
  <2> QED
    BY <2>2, <2>3
<1>11. QueueOK(f, s)
  BY <1>4, <1>5, <1>6, <1>7, <1>9, <1>10 DEF QueueOK
<1> QED
  BY <1>1, <1>4, <1>5, <1>11 DEF x

----------------------------------------------------------------------------
(* Places that expire before y come from workers that read the clock before *)
(* the place of y was entered and registered after: one per other worker.   *)

LEMMA SlowIsFinite ==
  ASSUME NEW at, NEW P \in SUBSET Workers, NEW y
  PROVE  IsFiniteSet(Slow(at, P, y)) /\ Cardinality(Slow(at, P, y)) \in Nat
<1>1. Slow(at, P, y) \subseteq Workers
  BY DEF Slow
<1>2. IsFiniteSet(Slow(at, P, y))
  BY <1>1, FS_Subset, IntakeNumbers
<1> QED
  BY <1>2, FS_CardinalityType

\* With fewer places and fewer workers there are no more of them.
LEMMA FewerWait ==
  ASSUME NEW at, NEW S, IsFiniteSet(S), NEW T \in SUBSET S, NEW P \in SUBSET Workers,
         NEW bt, NEW Q, NEW y, Slow(bt, Q, y) \subseteq Slow(at, P, y), Waits(at, S, P, y)
  PROVE  Waits(bt, T, Q, y)
<1> DEFINE before(X) == {x \in X : x.expiry < y}
<1>1. before(S) \subseteq S /\ before(T) \subseteq before(S)
  OBVIOUS
<1>2. IsFiniteSet(before(S)) /\ Cardinality(before(S)) \in Nat
  BY <1>1, FS_Subset, FS_CardinalityType
<1>3. /\ IsFiniteSet(before(T)) /\ Cardinality(before(T)) <= Cardinality(before(S))
      /\ Cardinality(before(T)) \in Nat
  BY <1>1, <1>2, FS_Subset, FS_CardinalityType
<1>4. Cardinality(Slow(bt, Q, y)) <= Cardinality(Slow(at, P, y))
  BY SlowIsFinite, FS_Subset
<1>5. Cardinality(Slow(bt, Q, y)) \in Nat /\ Cardinality(Slow(at, P, y)) \in Nat
  BY SlowIsFinite, FS_Subset, FS_CardinalityType
<1> HIDE DEF before
<1>6. Cardinality(before(S)) + Cardinality(Slow(at, P, y)) <= Cardinality(Workers) - 1
  BY DEF Waits, before
<1>7. Cardinality(before(T)) + Cardinality(Slow(bt, Q, y)) <= Cardinality(Workers) - 1
  BY <1>2, <1>3, <1>4, <1>5, <1>6, IntakeNumbers
<1> QED
  BY <1>7 DEF Waits, before

\* A worker enters its place.
LEMMA WorkerEnters ==
  ASSUME NEW at, NEW S, IsFiniteSet(S), NEW P \in SUBSET Workers, NEW w \in P, NEW y, Waits(at, S, P, y),
         NEW x, x.expiry = at[w] + Ttl
  PROVE  Waits(at, S \cup {x}, P \ {w}, y)
<1> DEFINE before(X) == {z \in X : z.expiry < y}
           T == S \cup {x}
           Q == P \ {w}
<1>1. IsFiniteSet(before(S)) /\ Cardinality(before(S)) \in Nat
  BY FS_Subset, FS_CardinalityType
<1>2. Cardinality(Slow(at, P, y)) \in Nat /\ IsFiniteSet(Slow(at, P, y))
  BY SlowIsFinite
<1>3. Cardinality(before(S)) + Cardinality(Slow(at, P, y)) <= Cardinality(Workers) - 1
  BY DEF Waits
<1>4. CASE at[w] + Ttl < y
  <2>1. before(T) = before(S) \cup {x} /\ Slow(at, Q, y) = Slow(at, P, y) \ {w} /\ w \in Slow(at, P, y)
    BY <1>4 DEF Slow
  <2> HIDE DEF before, T, Q
  <2>2. IsFiniteSet(before(T)) /\ Cardinality(before(T)) <= Cardinality(before(S)) + 1
    <3>1. /\ IsFiniteSet(before(S) \cup {x})
          /\ Cardinality(before(S) \cup {x}) =
               IF x \in before(S) THEN Cardinality(before(S)) ELSE Cardinality(before(S)) + 1
      BY <1>1, FS_AddElement, Zenon
    <3> QED
      BY <1>1, <2>1, <3>1
  <2>3. Cardinality(Slow(at, Q, y)) = Cardinality(Slow(at, P, y)) - 1
    <3>1. Cardinality(Slow(at, P, y) \ {w}) =
            IF w \in Slow(at, P, y) THEN Cardinality(Slow(at, P, y)) - 1 ELSE Cardinality(Slow(at, P, y))
      BY <1>2, FS_RemoveElement, Zenon
    <3> QED
      BY <2>1, <3>1
  <2>4. Cardinality(before(T)) \in Nat
    BY <2>2, FS_CardinalityType
  <2>5. Cardinality(before(T)) + Cardinality(Slow(at, Q, y)) <= Cardinality(Workers) - 1
    BY <1>1, <1>2, <1>3, <2>2, <2>3, <2>4, IntakeNumbers
  <2> QED
    BY <2>5 DEF Waits, before, T, Q
<1>5. CASE ~(at[w] + Ttl < y)
  <2>1. before(T) = before(S) /\ Slow(at, Q, y) = Slow(at, P, y)
    BY <1>5 DEF Slow
  <2> QED
    BY <1>3, <2>1 DEF Waits
<1> QED
  BY <1>4, <1>5

\* Behind the place of a worker that has just registered are the others.
LEMMA OthersWait ==
  ASSUME NEW at, NEW w \in Workers, NEW P \in SUBSET (Workers \ {w}), NEW y
  PROVE  Waits(at, {}, P, y)
<1>1. Slow(at, P, y) \subseteq Workers \ {w}
  BY DEF Slow
<1>2. IsFiniteSet(Workers \ {w}) /\ Cardinality(Workers \ {w}) = Cardinality(Workers) - 1
  BY IntakeNumbers, FS_RemoveElement
<1>3. Cardinality(Slow(at, P, y)) <= Cardinality(Workers) - 1
  BY <1>1, <1>2, FS_Subset
<1>4. {x \in {} : x.expiry < y} = {}
  OBVIOUS
<1>5. Cardinality({x \in {} : x.expiry < y}) = 0
  BY <1>4, FS_EmptySet
<1> QED
  BY <1>3, <1>5, SlowIsFinite, IntakeNumbers DEF Waits

\* Different places of a well-formed queue are different, so they can be
\* counted; live places are counted by the keys.
LEMMA PlacesCount ==
  ASSUME NEW e, NEW q, QueueOK(e, q)
  PROVE  /\ IsFiniteSet(Places(q)) /\ Cardinality(Places(q)) = Len(q)
         /\ IsFiniteSet(Outlived(e, q))
         /\ Len(q) <= Cardinality(DOMAIN e) + Cardinality(Outlived(e, q))
<1> DEFINE live == Places(q) \ Outlived(e, q)
<1>1. Len(q) \in Nat /\ \A i \in 1 .. Len(q) : q[i].expiry \in Nat
  BY QueueTypes
<1>2. \A i, j \in 1 .. Len(q) : q[i] = q[j] => i = j
  <2> SUFFICES ASSUME NEW i \in 1 .. Len(q), NEW j \in 1 .. Len(q), q[i] = q[j], i < j
               PROVE  FALSE
    BY <1>1
  <2>1. q[i].expiry < q[j].expiry
    BY DEF QueueOK
  <2> QED
    BY <1>1, <2>1
<1>3. IsFiniteSet(Places(q)) /\ Cardinality(Places(q)) = Len(q)
  <2> DEFINE f == [i \in 1 .. Len(q) |-> q[i]]
  <2>1. f \in Bijection(1 .. Len(q), Places(q))
    BY <1>2 DEF Bijection, Injection, Surjection, IsInjective, Places
  <2>2. ExistsBijection(1 .. Len(q), Places(q))
    BY <2>1 DEF ExistsBijection
  <2>3. IsFiniteSet(1 .. Len(q)) /\ Cardinality(1 .. Len(q)) = Len(q)
    BY <1>1, UpToIsCounted, Zenon
  <2> QED
    BY <2>2, <2>3, FS_Bijection
<1>4. IsFiniteSet(Outlived(e, q)) /\ Outlived(e, q) \subseteq Places(q)
  BY <1>3, FS_Subset DEF Outlived
<1>5. Cardinality(live) <= Cardinality(DOMAIN e)
  <2> DEFINE f == [x \in live |-> x.key]
  <2>1. ASSUME NEW x \in live PROVE x.key \in DOMAIN e /\ e[x.key] = x.expiry /\ x \in Place
    <3>1. PICK i \in 1 .. Len(q) : x = q[i]
      BY DEF Places
    <3>2. x.key \in DOMAIN e /\ x \in Place
      BY <3>1, QueueTypes DEF QueueOK
    <3> QED
      BY <3>2 DEF Outlived
  <2>2. ASSUME NEW x \in live, NEW z \in live, x.key = z.key PROVE x = z
    <3>1. x \in Place /\ z \in Place /\ x.expiry = z.expiry
      BY <2>1, <2>2
    <3> QED
      BY <2>2, <3>1 DEF Place
  <2> HIDE DEF live
  <2>3. f \in Injection(live, DOMAIN e)
    BY <2>1, <2>2 DEF Injection, IsInjective
  <2>4. IsFiniteSet(DOMAIN e)
    BY DEF QueueOK
  <2> QED
    BY <2>3, <2>4, FS_Injection
<1>6. Cardinality(live) = Cardinality(Places(q)) - Cardinality(Places(q) \cap Outlived(e, q))
  BY <1>3, FS_Difference
<1>7. Places(q) \cap Outlived(e, q) = Outlived(e, q)
  BY <1>4
<1>8. Cardinality(live) \in Nat /\ Cardinality(DOMAIN e) \in Nat /\ Cardinality(Outlived(e, q)) \in Nat
  <2>1. IsFiniteSet(live)
    BY <1>3, FS_Subset
  <2> QED
    BY <1>4, <2>1, FS_CardinalityType DEF QueueOK
<1> HIDE DEF live
<1>9. Len(q) <= Cardinality(DOMAIN e) + Cardinality(Outlived(e, q))
  <2>1. Cardinality(live) = Len(q) - Cardinality(Outlived(e, q)) /\ Len(q) \in Nat
    BY <1>1, <1>3, <1>6, <1>7
  <2> QED
    BY <1>5, <1>8, <2>1
<1> QED
  BY <1>3, <1>4, <1>9

\* Taking places from the front disturbs no order.
LEMMA CutKeepsOrder ==
  ASSUME NEW at, NEW e, NEW q, NEW n \in 0 .. Len(q), QueueOK(e, q),
         NEW P \in SUBSET Workers, NEW y, OrderOK(e, q, at, P, y)
  PROVE  OrderOK(Updates!Left(e, q, n), SubSeq(q, n + 1, Len(q)), at, P, y)
<1> DEFINE f == Updates!Left(e, q, n)
           s == SubSeq(q, n + 1, Len(q))
<1>1. Len(q) \in Nat /\ q \in Seq(Place) /\ n \in Nat /\ n <= Len(q)
  BY QueueTypes
<1>2. Len(s) = Len(q) - n /\ \A i \in 1 .. Len(q) - n : s[i] = q[i + n] /\ i + n \in 1 .. Len(q)
  BY <1>1, CutSequence
<1>3. QueueOK(f, s)
  BY CutQueue
<1>4. \A k \in DOMAIN f : k \in DOMAIN e /\ f[k] = e[k]
  BY <1>1, LeftIs
<1>5. IsFiniteSet(Places(q))
  BY PlacesCount
<1> HIDE DEF f, s
<1>6. Places(s) \subseteq Places(q)
  BY <1>2 DEF Places
<1>7. Waits(at, Places(s), P, y)
  BY <1>5, <1>6, FewerWait DEF OrderOK
<1>8. ASSUME NEW i \in 1 .. Len(s) PROVE Waits(at, Behind(s, i), P, s[i].expiry)
  <2>1. i + n \in 1 .. Len(q) /\ s[i] = q[i + n]
    BY <1>2
  <2>2. Behind(s, i) \subseteq Behind(q, i + n)
    <3>1. \A j \in (i + 1) .. Len(s) : j + n \in (i + n + 1) .. Len(q) /\ s[j] = q[j + n]
      BY <1>1, <1>2
    <3> QED
      BY <3>1 DEF Behind
  <2>3. IsFiniteSet(Behind(q, i + n))
    <3>1. Behind(q, i + n) \subseteq Places(q)
      BY <1>1, <2>1 DEF Behind, Places
    <3> QED
      BY <1>5, <3>1, FS_Subset
  <2>4. Waits(at, Behind(q, i + n), P, q[i + n].expiry)
    BY <2>1 DEF OrderOK
  <2> QED
    BY <2>1, <2>2, <2>3, <2>4, FewerWait
<1>9. ASSUME NEW x \in Outlived(f, s) PROVE x.expiry < y
  <2>1. x \in Places(q) /\ f[x.key] # x.expiry
    BY <1>6 DEF Outlived
  <2>2. x.key \in DOMAIN f
    BY <1>3 DEF Outlived, Places, QueueOK
  <2>3. x \in Outlived(e, q)
    BY <1>4, <2>1, <2>2 DEF Outlived
  <2> QED
    BY <2>3 DEF OrderOK
<1> QED
  BY <1>7, <1>8, <1>9 DEF OrderOK, f, s

\* The place of a worker that has waited comes to the end.
LEMMA EnterKeepsOrder ==
  ASSUME NEW at, NEW e, NEW q, QueueOK(e, q), NEW P \in SUBSET Workers, NEW w \in P, NEW k \in Keys,
         at[w] \in Nat, k \in DOMAIN e => e[k] <= at[w],
         NEW h \in Nat, \A i \in 1 .. Len(q) : q[i].expiry <= h,
         Len(q) > 0 => ~Updates!Removable(e, q[1], at[w]),
         NEW y \in 0 .. h, OrderOK(e, q, at, P, y),
         NEW r, r = Updates!Enter([entries |-> e, queue |-> q], k, at[w])
  PROVE  \E z \in 0 .. h : OrderOK(r.entries, r.queue, at, P \ {w}, z)
<1> DEFINE t == at[w]
           x == [key |-> k, expiry |-> t + Ttl]
           f == r.entries
           s == r.queue
           Q == P \ {w}
<1>1. /\ Len(q) \in Nat /\ q \in Seq(Place)
      /\ \A i \in 1 .. Len(q) : q[i].key \in Keys /\ q[i].expiry \in Nat
  BY QueueTypes
<1>2. /\ QueueOK(f, s) /\ DOMAIN f = DOMAIN e \cup {k} /\ f[k] = t + Ttl
      /\ \A j \in DOMAIN e \ {k} : f[j] = e[j]
      /\ Len(s) = Len(q) + 1 /\ s[Len(q) + 1] = x /\ \A i \in 1 .. Len(q) : s[i] = q[i]
  BY EnterQueue
<1>3. x.key = k /\ x.expiry = t + Ttl /\ w \in Workers
  OBVIOUS
<1> HIDE DEF x, f, s, t, Q
<1>4. IsFiniteSet(Places(q)) /\ Places(s) = Places(q) \cup {x}
  <2>1. /\ \A i \in 1 .. Len(s) : i \in 1 .. Len(q) \/ i = Len(q) + 1
        /\ 1 .. Len(q) \subseteq 1 .. Len(s) /\ Len(q) + 1 \in 1 .. Len(s)
    BY <1>1, <1>2
  <2>2. Places(s) = Places(q) \cup {x}
    BY <1>2, <2>1 DEF Places
  <2> QED
    BY <2>2, PlacesCount
\* Whatever place of the old queue starts a count, it goes on with the new one.
<1>5. ASSUME NEW S \in SUBSET Places(q), NEW z, Waits(at, S, P, z)
      PROVE  Waits(at, S \cup {x}, Q, z)
  <2>1. IsFiniteSet(S)
    BY <1>4, FS_Subset
  <2> QED
    BY <1>3, <1>5, <2>1, WorkerEnters DEF t, Q
<1>6. ASSUME NEW i \in 1 .. Len(s) PROVE Waits(at, Behind(s, i), Q, s[i].expiry)
  <2>1. CASE i = Len(q) + 1
    <3>1. Behind(s, i) = {}
      BY <1>1, <1>2, <2>1 DEF Behind
    <3> QED
      BY <1>3, <3>1, OthersWait DEF Q
  <2>2. CASE i # Len(q) + 1
    <3>1. i \in 1 .. Len(q) /\ s[i] = q[i]
      BY <1>1, <1>2, <2>2
    <3>2. Behind(s, i) = Behind(q, i) \cup {x} /\ Behind(q, i) \subseteq Places(q)
      <4>1. /\ \A j \in (i + 1) .. Len(s) : j \in (i + 1) .. Len(q) \/ j = Len(q) + 1
            /\ (i + 1) .. Len(q) \subseteq 1 .. Len(q)
            /\ (i + 1) .. Len(q) \subseteq (i + 1) .. Len(s) /\ Len(q) + 1 \in (i + 1) .. Len(s)
        BY <1>1, <1>2, <3>1
      <4>2. \A j \in (i + 1) .. Len(q) : s[j] = q[j]
        BY <1>2, <4>1
      <4>3. Behind(s, i) = Behind(q, i) \cup {x}
        BY <1>2, <4>1, <4>2 DEF Behind
      <4> QED
        BY <4>1, <4>3 DEF Behind, Places
    <3>3. Waits(at, Behind(q, i), P, q[i].expiry)
      BY <3>1 DEF OrderOK
    <3> QED
      BY <1>5, <3>1, <3>2, <3>3
  <2> QED
    BY <2>1, <2>2
\* Newly outlived is only the place that was live for the key.
<1>7. ASSUME NEW z \in Outlived(f, s)
      PROVE  z \in Outlived(e, q) \/ (k \in DOMAIN e /\ z.expiry <= e[k])
  <2>1. z \in Places(q)
    <3>1. z # x
      BY <1>2, <1>3 DEF Outlived
    <3> QED
      BY <1>4, <3>1 DEF Outlived
  <2>2. z.key \in DOMAIN e /\ z.expiry <= e[z.key]
    BY <2>1 DEF Places, QueueOK
  <2>3. CASE z.key = k
    BY <2>2, <2>3
  <2>4. CASE z.key # k
    BY <1>2, <2>1, <2>2, <2>4 DEF Outlived
  <2> QED
    BY <2>3, <2>4
<1>8. \E z \in 0 .. h : /\ \A v \in Outlived(f, s) : v.expiry < z
                        /\ Waits(at, Places(q), P, z)
  <2>0. \A v \in Outlived(f, s) : v.expiry \in Nat
    BY QueueTypes, <1>2 DEF Outlived, Places
  <2>1. CASE k \in DOMAIN e /\ e[k] >= y
    <3>1. e[k] \in Nat /\ e[k] <= t /\ t \in Nat
      BY <2>1 DEF QueueOK, t
    <3>2. Len(q) > 0 /\ 1 \in 1 .. Len(q)
      <4>1. PICK i \in 1 .. Len(q) : q[i].key = k
        BY <2>1 DEF QueueOK
      <4> QED
        BY <1>1, <4>1
    <3> DEFINE z == q[1].expiry
    <3>3. z > t /\ z \in 0 .. h
      <4>1. z \in Nat /\ z <= h
        BY <1>1, <3>2
      <4>2. ~(z <= t)
        BY <3>2, RemovableIs DEF t
      <4> QED
        BY <3>1, <4>1, <4>2
    <3> HIDE DEF z
    <3>4. ASSUME NEW v \in Outlived(f, s) PROVE v.expiry < z
      <4>1. CASE v \in Outlived(e, q)
        <5>1. v.expiry < y
          BY <4>1 DEF OrderOK
        <5> QED
          BY <2>0, <2>1, <3>1, <3>3, <5>1
      <4>2. CASE v.expiry <= e[k]
        BY <2>0, <3>1, <3>3, <4>2
      <4> QED
        BY <1>7, <4>1, <4>2
    <3>5. Waits(at, Places(q), P, z)
      <4>1. Waits(at, Behind(q, 1), P, z)
        BY <3>2 DEF OrderOK, z
      <4>2. {v \in Places(q) : v.expiry < z} = {v \in Behind(q, 1) : v.expiry < z}
        <5>1. \A i \in 1 .. Len(q) : i = 1 \/ i \in (1 + 1) .. Len(q)
          BY <1>1
        <5>2. (1 + 1) .. Len(q) \subseteq 1 .. Len(q)
          BY <1>1
        <5>3. ~(q[1].expiry < z)
          BY <3>3 DEF z
        <5> QED
          BY <5>1, <5>2, <5>3 DEF Places, Behind
      <4> QED
        BY <4>1, <4>2 DEF Waits
    <3> QED
      BY <3>3, <3>4, <3>5
  <2>2. CASE ~(k \in DOMAIN e /\ e[k] >= y)
    <3>1. ASSUME NEW v \in Outlived(f, s) PROVE v.expiry < y
      <4>1. CASE v \in Outlived(e, q)
        BY <4>1 DEF OrderOK
      <4>2. CASE k \in DOMAIN e /\ v.expiry <= e[k]
        <5>1. e[k] \in Nat /\ e[k] < y
          BY <2>2, <4>2 DEF QueueOK
        <5> QED
          BY <2>0, <4>2, <5>1
      <4> QED
        BY <1>7, <4>1, <4>2
    <3> QED
      BY <3>1 DEF OrderOK
  <2> QED
    BY <2>1, <2>2
<1>9. PICK z \in 0 .. h : /\ \A v \in Outlived(f, s) : v.expiry < z
                          /\ Waits(at, Places(q), P, z)
  BY <1>8
<1>10. Waits(at, Places(s), Q, z)
  BY <1>4, <1>5, <1>9
<1> QED
  BY <1>6, <1>9, <1>10 DEF OrderOK, f, s, Q

\* What pruning does to the cache.
LEMMA Pruned ==
  ASSUME NEW e, NEW q, NEW t \in Nat, QueueOK(e, q)
  PROVE  \E f, s :
           /\ Updates!Prune(e, q, t) = [entries |-> f, queue |-> s]
           /\ QueueOK(f, s)
           /\ Cardinality(DOMAIN f) <= MaxEntries
           /\ \A j \in DOMAIN f : j \in DOMAIN e /\ f[j] = e[j]
           /\ Cardinality(DOMAIN e) <= MaxEntries =>
                \A j \in DOMAIN e : e[j] > t => j \in DOMAIN f
           /\ \A j \in DOMAIN e :
                Len(q) > 0 /\ q[Len(q)].key = j /\ q[Len(q)].expiry = e[j] /\ e[j] > t
                  => j \in DOMAIN f
           /\ \A i \in 1 .. Len(s) : \E j \in 1 .. Len(q) : s[i] = q[j]
           /\ Len(s) > 0 => ~Updates!Removable(f, s[1], t)
           /\ \A at, y : \A P \in SUBSET Workers : OrderOK(e, q, at, P, y) => OrderOK(f, s, at, P, y)
<1>1. PICK n \in 0 .. Len(q) :
        /\ Updates!Prune(e, q, t) =
             [entries |-> Updates!Left(e, q, n), queue |-> SubSeq(q, n + 1, Len(q))]
        /\ \A i \in 1 .. n : Updates!Removable(Updates!Left(e, q, i - 1), q[i], t)
        /\ n < Len(q) => ~Updates!Removable(Updates!Left(e, q, n), q[n + 1], t)
  BY PruneIsCut
<1> DEFINE f == Updates!Left(e, q, n)
           s == SubSeq(q, n + 1, Len(q))
<1>2. Len(q) \in Nat /\ q \in Seq(Place) /\ n \in Nat /\ n <= Len(q)
  BY QueueTypes
<1>3. QueueOK(f, s)
  BY CutQueue
<1>4. Cardinality(DOMAIN f) <= MaxEntries
  BY <1>1, PruneFits
<1>5. \A j \in DOMAIN f : j \in DOMAIN e /\ f[j] = e[j]
  BY <1>2, LeftIs
<1>6. ASSUME Cardinality(DOMAIN e) <= MaxEntries, NEW j \in DOMAIN e, e[j] > t
      PROVE  j \in DOMAIN f
  BY <1>1, <1>6, PruneSpares
<1>7. Len(s) = Len(q) - n /\ \A i \in 1 .. Len(q) - n : s[i] = q[i + n]
  BY <1>2, CutSequence
<1>8. \A i \in 1 .. Len(s) : \E j \in 1 .. Len(q) : s[i] = q[j]
  <2>1. \A i \in 1 .. Len(q) - n : i + n \in 1 .. Len(q)
    BY <1>2
  <2> QED
    BY <1>7, <2>1
<1>9. Len(s) > 0 => ~Updates!Removable(f, s[1], t)
  <2> SUFFICES ASSUME Len(s) > 0 PROVE ~Updates!Removable(f, s[1], t)
    OBVIOUS
  <2>1. n < Len(q) /\ 1 \in 1 .. Len(q) - n /\ 1 + n = n + 1
    BY <1>2, <1>7
  <2>2. s[1] = q[n + 1]
    BY <1>7, <2>1
  <2> QED
    BY <1>1, <2>1, <2>2
<1>10. \A at, y : \A P \in SUBSET Workers : OrderOK(e, q, at, P, y) => OrderOK(f, s, at, P, y)
  BY CutKeepsOrder
\* The last place stays if it is live: it has the only entry that is left.
<1>11. ASSUME NEW j \in DOMAIN e, Len(q) > 0, q[Len(q)].key = j, q[Len(q)].expiry = e[j],
              e[j] > t, j \notin DOMAIN f
       PROVE  FALSE
  <2> DEFINE l == Len(q)
             g == Updates!Left(e, q, l - 1)
  <2>1. l \in 1 .. l /\ l - 1 \in Nat /\ l - 1 <= Len(q)
    BY <1>2, <1>11
  <2>2. ASSUME NEW i \in 1 .. l - 1, q[i].key = j, q[i].expiry = e[j] PROVE FALSE
    <3>1. i \in 1 .. l /\ i < l
      BY <1>2, <2>1
    <3>2. q[i].expiry < q[l].expiry
      BY <1>11, <2>1, <2>2, <3>1 DEF QueueOK
    <3>3. e[j] \in Nat
      BY DEF QueueOK
    <3> QED
      BY <1>11, <2>2, <3>2, <3>3
  <2>3. n = l
    <3>1. PICK i \in 1 .. n : q[i].key = j /\ q[i].expiry = e[j]
      BY <1>2, <1>11, LeftIs
    <3>2. ~(i \in 1 .. l - 1)
      BY <2>2, <3>1
    <3> QED
      BY <1>2, <3>2
  <2>4. Updates!Removable(g, q[l], t)
    BY <1>1, <2>1, <2>3
  <2>5. /\ \A i : i \in DOMAIN g <=>
             i \in DOMAIN e /\ \A h \in 1 .. l - 1 : q[h].key = i => q[h].expiry # e[i]
        /\ \A i \in DOMAIN g : g[i] = e[i]
    BY <2>1, LeftIs
  <2> HIDE DEF g
  <2>6. j \in DOMAIN g /\ g[j] = e[j]
    BY <2>2, <2>5
  <2>7. DOMAIN g \subseteq {j}
    <3> SUFFICES ASSUME NEW i \in DOMAIN g PROVE i = j
      OBVIOUS
    <3>1. i \in DOMAIN e
      BY <2>5
    <3>2. PICK h \in 1 .. l : q[h].key = i /\ q[h].expiry = e[i]
      BY <3>1 DEF QueueOK
    <3>3. ~(h \in 1 .. l - 1)
      BY <2>5, <3>2
    <3>4. h = l
      BY <1>2, <3>3
    <3> QED
      BY <1>11, <3>2, <3>4
  <2>8. Cardinality(DOMAIN g) <= 1 /\ Cardinality(DOMAIN g) \in Nat
    <3>1. IsFiniteSet({j}) /\ Cardinality({j}) = 1
      BY FS_Singleton
    <3> QED
      BY <2>7, <3>1, FS_Subset, FS_CardinalityType
  <2>9. ~(Cardinality(DOMAIN g) > MaxEntries)
    BY <2>8, IntakeNumbers
  <2>10. ~(q[l].expiry <= t)
    <3>1. e[j] \in Nat
      BY DEF QueueOK
    <3> QED
      BY <1>11, <3>1
  <2>11. q[l].key = j /\ q[l].expiry = e[j]
    BY <1>11
  <2> QED
    BY <2>4, <2>6, <2>9, <2>10, <2>11, RemovableIs
<1>12. \A j \in DOMAIN e :
         Len(q) > 0 /\ q[Len(q)].key = j /\ q[Len(q)].expiry = e[j] /\ e[j] > t
           => j \in DOMAIN f
  BY <1>11
<1> HIDE DEF f, s
<1>13. Updates!Prune(e, q, t) = [entries |-> f, queue |-> s]
  BY <1>1 DEF f, s
<1> QED
  BY <1>3, <1>4, <1>5, <1>6, <1>8, <1>9, <1>10, <1>12, <1>13

\* No reading becomes slow that was not.
LEMMA OrderOfFewer ==
  ASSUME NEW e, NEW q, QueueOK(e, q), NEW at, NEW bt, NEW P \in SUBSET Workers, NEW Q,
         NEW h \in Nat, \A i \in 1 .. Len(q) : q[i].expiry <= h,
         NEW y \in 0 .. h, OrderOK(e, q, at, P, y),
         \A z \in 0 .. h : Slow(bt, Q, z) \subseteq Slow(at, P, z)
  PROVE  OrderOK(e, q, bt, Q, y)
<1>1. IsFiniteSet(Places(q)) /\ Len(q) \in Nat
  BY PlacesCount, QueueTypes
<1>2. Waits(bt, Places(q), Q, y)
  BY <1>1, FewerWait DEF OrderOK
<1>3. ASSUME NEW i \in 1 .. Len(q) PROVE Waits(bt, Behind(q, i), Q, q[i].expiry)
  <2>1. q[i].expiry \in 0 .. h
    BY QueueTypes
  <2>2. Behind(q, i) \subseteq Places(q)
    BY <1>1 DEF Behind, Places
  <2>3. IsFiniteSet(Behind(q, i))
    BY <1>1, <2>2, FS_Subset
  <2>4. Waits(at, Behind(q, i), P, q[i].expiry)
    BY DEF OrderOK
  <2> QED
    BY <2>1, <2>3, <2>4, FewerWait
<1> QED
  BY <1>2, <1>3 DEF OrderOK

LEMMA QueueOfFewer ==
  ASSUME WorkersInv, QueueInv, UNCHANGED <<entries, queue>>, clock' \in Nat, clock <= clock',
         \A z \in 0 .. clock + Ttl : Slow(opened', Received', z) \subseteq Slow(opened, Received, z)
  PROVE  QueueInv'
<1>1. PICK y \in 0 .. clock + Ttl : OrderOK(entries, queue, opened, Received, y)
  BY DEF QueueInv
<1>2. clock + Ttl \in Nat /\ clock' + Ttl \in Nat /\ clock + Ttl <= clock' + Ttl
  <2>1. clock \in Nat /\ Ttl \in Nat
    BY IntakeNumbers DEF WorkersInv
  <2>2. \A a, b, c \in Nat : a <= b => a + c \in Nat /\ b + c \in Nat /\ a + c <= b + c
    OBVIOUS
  <2> QED
    BY <2>1, <2>2, Zenon
<1>3. OrderOK(entries, queue, opened', Received', y)
  BY <1>1, <1>2, OrderOfFewer DEF QueueInv, Received
<1>4. y \in 0 .. clock' + Ttl
  BY <1>2
<1>5. \A i \in 1 .. Len(queue) : queue[i].expiry <= clock' + Ttl
  <2>1. \A i \in 1 .. Len(queue) : queue[i].expiry \in Nat /\ queue[i].expiry <= clock + Ttl
    BY QueueTypes DEF QueueInv
  <2> QED
    BY <1>2, <2>1
<1> QED
  BY <1>3, <1>4, <1>5 DEF QueueInv

\* A worker registers: the cache stays in order, nothing but its own key gets
\* a new expiry, and that key is in the cache with the reading of the worker.
LEMMA DedupKeepsQueue ==
  ASSUME WorkersInv, QueueInv, NEW w \in Workers, Updates!Dedup(w)
  PROVE  /\ QueueInv'
         /\ \A j \in DOMAIN entries' \ {update[w]} :
              j \in DOMAIN entries /\ entries'[j] = entries[j]
         /\ Updates!Known(update[w], opened[w]) =>
              \A j \in DOMAIN entries' : j \in DOMAIN entries /\ entries'[j] = entries[j]
         /\ ~Updates!Known(update[w], opened[w]) =>
              /\ update[w] \in DOMAIN entries' /\ entries'[update[w]] = opened[w] + Ttl
              /\ update[w] \in DOMAIN entries => entries[update[w]] <= opened[w]
<1> DEFINE k == update[w]
           t == opened[w]
           P == Received
           h == clock + Ttl
<1>1. /\ k \in Keys /\ t \in Nat /\ t <= clock /\ clock \in Nat /\ clock' = clock /\ h \in Nat
      /\ w \in P /\ P \subseteq Workers /\ t + Ttl <= h
  BY DedupEffect, IntakeNumbers DEF WorkersInv, Received
<1>2. /\ Received' = P \ {w}
      /\ \A v \in Workers \ {w} : opened'[v] = opened[v]
  <2>1. \E p \in {"idle", "new"} : stage' = [stage EXCEPT ![w] = p]
    BY DedupEffect, FinishEffect
  <2>2. opened' = opened \/ opened' = [opened EXCEPT ![w] = 0]
    BY DedupEffect, FinishEffect
  <2> QED
    BY <2>1, <2>2 DEF Received, WorkersInv
<1>3. PICK y \in 0 .. h : OrderOK(entries, queue, opened, P, y)
  BY DEF QueueInv
<1>4. PICK f, s :
        /\ Updates!Prune(entries, queue, t) = [entries |-> f, queue |-> s]
        /\ QueueOK(f, s)
        /\ Cardinality(DOMAIN f) <= MaxEntries
        /\ \A j \in DOMAIN f : j \in DOMAIN entries /\ f[j] = entries[j]
        /\ Cardinality(DOMAIN entries) <= MaxEntries =>
             \A j \in DOMAIN entries : entries[j] > t => j \in DOMAIN f
        /\ \A i \in 1 .. Len(s) : \E j \in 1 .. Len(queue) : s[i] = queue[j]
        /\ Len(s) > 0 => ~Updates!Removable(f, s[1], t)
        /\ \A at, z : \A R \in SUBSET Workers : OrderOK(entries, queue, at, R, z) => OrderOK(f, s, at, R, z)
  BY <1>1, Pruned DEF QueueInv
<1>5. OrderOK(f, s, opened, P, y)
  BY <1>1, <1>3, <1>4
<1>6. \A i \in 1 .. Len(s) : s[i].expiry <= h
  BY <1>4 DEF QueueInv
<1>7. Updates!Known(k, t) <=> k \in DOMAIN f /\ f[k] > t
  BY <1>4 DEF Updates!Known, Updates!Fresh
<1> HIDE DEF P, h, k, t
\* The readings of the workers that are left are what they were.
<1>8. ASSUME NEW e, NEW q, QueueOK(e, q), \A i \in 1 .. Len(q) : q[i].expiry <= h,
             NEW R \in SUBSET Workers, P \ {w} \subseteq R, NEW z \in 0 .. h, OrderOK(e, q, opened, R, z)
      PROVE  OrderOK(e, q, opened', P \ {w}, z)
  <2>1. \A x \in 0 .. h : Slow(opened', P \ {w}, x) \subseteq Slow(opened, R, x)
    BY <1>1, <1>2, <1>8 DEF Slow
  <2> QED
    BY <1>1, <1>8, <2>1, OrderOfFewer
<1>9. CASE Updates!Known(k, t)
  <2>1. entries' = f /\ queue' = s
    <3>1. Updates!Register(k, t)
      BY DedupEffect DEF k, t
    <3> QED
      BY <1>4, <1>9, <3>1 DEF Updates!Register
  <2>2. OrderOK(f, s, opened', P \ {w}, y)
    BY <1>1, <1>4, <1>5, <1>6, <1>8
  <2>3. QueueInv'
    BY <1>1, <1>2, <1>3, <1>4, <1>6, <2>1, <2>2 DEF QueueInv, h
  <2> QED
    BY <1>4, <1>9, <2>1, <2>3 DEF k, t
<1>10. CASE ~Updates!Known(k, t)
  <2> DEFINE r == Updates!Enter([entries |-> f, queue |-> s], k, t)
  <2>1. k \in DOMAIN f => f[k] <= t
    <3>1. k \in DOMAIN f => f[k] \in Nat
      BY <1>4 DEF QueueOK
    <3> QED
      BY <1>1, <1>7, <1>10, <3>1
  <2>2. /\ QueueOK(r.entries, r.queue)
        /\ DOMAIN r.entries = DOMAIN f \cup {k} /\ r.entries[k] = t + Ttl
        /\ \A j \in DOMAIN f \ {k} : r.entries[j] = f[j]
        /\ Len(r.queue) = Len(s) + 1
        /\ r.queue[Len(s) + 1] = [key |-> k, expiry |-> t + Ttl]
        /\ \A i \in 1 .. Len(s) : r.queue[i] = s[i]
    BY <1>1, <1>4, <2>1, EnterQueue
  <2>3. PICK z \in 0 .. h : OrderOK(r.entries, r.queue, opened, P \ {w}, z)
    <3>1. opened[w] = t
      BY DEF t
    <3> QED
      BY <1>1, <1>4, <1>5, <1>6, <2>1, <3>1, EnterKeepsOrder
  <2>4. PICK g, u :
          /\ Updates!Prune(r.entries, r.queue, t) = [entries |-> g, queue |-> u]
          /\ QueueOK(g, u)
          /\ Cardinality(DOMAIN g) <= MaxEntries
          /\ \A j \in DOMAIN g : j \in DOMAIN r.entries /\ g[j] = r.entries[j]
          /\ \A j \in DOMAIN r.entries :
               Len(r.queue) > 0 /\ r.queue[Len(r.queue)].key = j
                 /\ r.queue[Len(r.queue)].expiry = r.entries[j] /\ r.entries[j] > t
                 => j \in DOMAIN g
          /\ \A i \in 1 .. Len(u) : \E j \in 1 .. Len(r.queue) : u[i] = r.queue[j]
          /\ \A at, x : \A R \in SUBSET Workers : OrderOK(r.entries, r.queue, at, R, x) => OrderOK(g, u, at, R, x)
    BY <1>1, <2>2, Pruned
  <2>5. entries' = g /\ queue' = u
    <3>1. Updates!Register(k, t)
      BY DedupEffect DEF k, t
    <3>2. Updates!Prune(r.entries, r.queue, t).entries = g /\ Updates!Prune(r.entries, r.queue, t).queue = u
      BY <2>4
    <3> HIDE DEF r
    <3>3. r = Updates!Enter(Updates!Prune(entries, queue, t), k, t)
      BY <1>4 DEF r
    <3> QED
      BY <1>10, <3>1, <3>2, <3>3 DEF Updates!Register
  <2> HIDE DEF r
  <2>6. k \in DOMAIN g /\ g[k] = t + Ttl
    <3>1. k \in DOMAIN r.entries /\ t + Ttl > t
      BY <1>1, <2>2, IntakeNumbers
    <3>2. Len(r.queue) > 0 /\ r.queue[Len(r.queue)] = [key |-> k, expiry |-> r.entries[k]]
      <4>1. Len(s) \in Nat
        BY <1>4, QueueTypes
      <4> QED
        BY <2>2, <4>1
    <3> QED
      BY <2>2, <2>4, <3>1, <3>2
  <2>7. \A i \in 1 .. Len(u) : u[i].expiry <= h
    <3>1. Len(s) \in Nat
      BY <1>4, QueueTypes
    <3>2. ASSUME NEW i \in 1 .. Len(r.queue) PROVE r.queue[i].expiry <= h
      <4>1. CASE i \in 1 .. Len(s)
        BY <1>6, <2>2, <4>1
      <4>2. CASE i = Len(s) + 1
        BY <1>1, <2>2, <4>2
      <4> QED
        BY <2>2, <3>1, <4>1, <4>2
    <3> QED
      BY <2>4, <3>2
  <2>8. OrderOK(g, u, opened, P \ {w}, z)
    BY <1>1, <2>3, <2>4
  <2>9. OrderOK(g, u, opened', P \ {w}, z)
    BY <1>1, <1>8, <2>4, <2>7, <2>8
  <2>10. QueueInv'
    BY <1>1, <1>2, <2>3, <2>4, <2>5, <2>7, <2>9 DEF QueueInv, h
  <2>11. \A j \in DOMAIN g \ {k} : j \in DOMAIN entries /\ g[j] = entries[j]
    BY <1>4, <2>2, <2>4
  <2>12. k \in DOMAIN entries => entries[k] <= t
    <3>1. Cardinality(DOMAIN entries) <= MaxEntries /\ \A j \in DOMAIN entries : entries[j] \in Nat
      BY DEF QueueInv, QueueOK
    <3> QED
      BY <1>1, <1>4, <2>1, <3>1
  <2> QED
    BY <1>10, <2>5, <2>6, <2>10, <2>11, <2>12 DEF k, t
<1> QED
  BY <1>9, <1>10

LEMMA QueueKeeps ==
  ASSUME WorkersInv, QueueInv, [Updates!Next]_updateVars
  PROVE  QueueInv'
<1>0. clock \in Nat
  BY DEF WorkersInv
<1>1. CASE \E w \in Workers : Updates!Dedup(w)
  BY <1>1, DedupKeepsQueue
<1>2. CASE UNCHANGED <<entries, queue, clock>>
           /\ \A z \in 0 .. clock + Ttl :
                Slow(opened', Received', z) \subseteq Slow(opened, Received, z)
  BY <1>0, <1>2, QueueOfFewer
<1>3. ASSUME NEW w \in Workers, NEW k \in Keys, Updates!Deliver(w, k)
      PROVE  \A z \in 0 .. clock + Ttl :
               Slow(opened', Received', z) \subseteq Slow(opened, Received, z)
  <2> SUFFICES ASSUME NEW z \in 0 .. clock + Ttl, NEW v \in Slow(opened', Received', z)
               PROVE  v \in Slow(opened, Received, z)
    OBVIOUS
  <2>1. v \in Workers /\ stage'[v] = "received" /\ opened'[v] + Ttl < z
    BY DEF Slow, Received
  <2>2. v # w
    <3>1. opened'[w] = clock /\ ~(clock + Ttl < z)
      BY <1>0, <1>3, DeliverEffect, IntakeNumbers DEF WorkersInv
    <3> QED
      BY <2>1, <3>1
  <2>3. stage'[v] = stage[v] /\ opened'[v] = opened[v]
    BY <1>3, <2>1, <2>2, DeliverEffect DEF WorkersInv
  <2> QED
    BY <2>1, <2>3 DEF Slow, Received
<1>4. ASSUME NEW w \in Workers, Updates!Screen(w) \/ Updates!Throttle(w)
      PROVE  \A z \in 0 .. clock + Ttl :
               Slow(opened', Received', z) \subseteq Slow(opened, Received, z)
  <2> SUFFICES ASSUME NEW z, NEW v \in Slow(opened', Received', z)
               PROVE  v \in Slow(opened, Received, z)
    OBVIOUS
  <2>1. \E p \in {"idle", "admitted"} : stage' = [stage EXCEPT ![w] = p]
    BY <1>4, ScreenEffect, ThrottleEffect, FinishEffect
  <2>2. \E t : opened' = [opened EXCEPT ![w] = t]
    BY <1>4, ScreenEffect, ThrottleEffect, FinishEffect
  <2>3. v \in Workers /\ stage'[v] = "received" /\ opened'[v] + Ttl < z
    BY DEF Slow, Received
  <2>4. stage'[v] = stage[v] /\ opened'[v] = opened[v]
    BY <2>1, <2>2, <2>3 DEF WorkersInv
  <2> QED
    BY <2>3, <2>4 DEF Slow, Received
<1>5. CASE Updates!Tick
  <2>1. UNCHANGED <<entries, queue, stage, opened>> /\ clock' = clock + 1
    BY <1>5, TickEffect
  <2>2. Received' = Received
    BY <2>1 DEF Received
  <2>3. clock' \in Nat /\ clock <= clock'
    BY <1>0, <2>1
  <2> QED
    BY <2>1, <2>2, <2>3, QueueOfFewer
<1>6. CASE UNCHANGED updateVars
  BY <1>6 DEF updateVars, QueueInv, Received
<1> QED
  BY <1>1, <1>2, <1>3, <1>4, <1>5, <1>6, UpdateSteps, DeliverEffect, ScreenEffect, ThrottleEffect

\* An update that comes again while its entry should be there finds it.
LEMMA EnteredKeeps ==
  ASSUME WorkersInv, QueueInv, EnteredInv, [Updates!Next]_updateVars
  PROVE  EnteredInv'
<1>1. ASSUME NEW w \in Workers, Updates!Dedup(w) PROVE EnteredInv'
  <2> DEFINE k == update[w]
             t == opened[w]
  <2>1. /\ k \in Keys /\ t \in Nat /\ t <= clock /\ clock - t <= MaxDelay
        /\ clock \in Nat /\ clock' = clock
    BY <1>1, DedupEffect, IntakeNumbers DEF WorkersInv
  <2>2. /\ \A j \in DOMAIN entries' \ {k} : j \in DOMAIN entries /\ entries'[j] = entries[j]
        /\ Updates!Known(k, t) =>
             \A j \in DOMAIN entries' : j \in DOMAIN entries /\ entries'[j] = entries[j]
        /\ ~Updates!Known(k, t) =>
             /\ k \in DOMAIN entries' /\ entries'[k] = t + Ttl
             /\ k \in DOMAIN entries => entries[k] <= t
    BY <1>1, DedupKeepsQueue
  <2>3. \/ /\ Updates!Known(k, t) /\ UNCHANGED <<entered, repeated>>
           /\ pushed' = pushed \cup Updates!PushedBy(t)
        \/ /\ ~Updates!Known(k, t) /\ entered' = [entered EXCEPT ![k] = clock]
           /\ pushed' = (pushed \cup Updates!PushedBy(t)) \ {k}
           /\ repeated' = IF entered[k] # None /\ k \notin pushed
                               /\ clock - entered[k] < Ttl - MaxDelay
                            THEN repeated \cup {k} ELSE repeated
    BY <1>1 DEF Updates!Dedup
  <2> HIDE DEF k, t
  <2>4. \A j \in DOMAIN entries : entries[j] \in Nat
    BY DEF QueueInv, QueueOK
  <2>5. \A j \in Keys : entered[j] \in Nat \cup {None}
    BY DEF EnteredInv
  \* An update other than the worker's own.
  <2>6. ASSUME NEW j \in Keys, entered[j] # None, j \notin pushed', j # k \/ Updates!Known(k, t)
        PROVE  \/ j \in DOMAIN entries' /\ entries'[j] >= entered[j] - MaxDelay + Ttl
               \/ clock - entered[j] >= Ttl - MaxDelay
    <3>1. j \notin pushed /\ j \notin Updates!PushedBy(t)
      BY <2>3, <2>6
    <3>2. \/ j \in DOMAIN entries /\ entries[j] >= entered[j] - MaxDelay + Ttl
          \/ clock - entered[j] >= Ttl - MaxDelay
      BY <2>6, <3>1 DEF EnteredInv
    <3>3. CASE j \in DOMAIN entries'
      BY <2>2, <2>6, <3>2, <3>3
    <3>4. CASE j \in DOMAIN entries /\ j \notin DOMAIN entries'
                 /\ entries[j] >= entered[j] - MaxDelay + Ttl
      <4>1. ~(entries[j] > t)
        BY <3>1, <3>4 DEF Updates!PushedBy, Updates!Cached
      <4>2. entries[j] \in Nat /\ entered[j] \in Nat
        BY <2>4, <2>5, <2>6, <3>4
      <4> QED
        BY <2>1, <3>4, <4>1, <4>2, IntakeNumbers
    <3> QED
      BY <3>2, <3>3, <3>4
  <2>7. CASE Updates!Known(k, t)
    <3>1. UNCHANGED <<entered, repeated>>
      BY <2>3, <2>7
    <3> QED
      BY <2>1, <2>6, <2>7, <3>1 DEF EnteredInv
  <2>8. CASE ~Updates!Known(k, t)
    <3>1. entered' \in [Keys -> Nat \cup {None}] /\ entered'[k] = clock
          /\ \A j \in Keys \ {k} : entered'[j] = entered[j]
      BY <2>1, <2>3, <2>8 DEF EnteredInv
    <3>2. repeated' = {}
      <4>1. SUFFICES ASSUME entered[k] # None, k \notin pushed,
                            clock - entered[k] < Ttl - MaxDelay
                     PROVE  FALSE
        BY <2>3, <2>8 DEF EnteredInv
      <4>2. entered[k] \in Nat
        BY <2>1, <2>5, <4>1
      <4>3. k \in DOMAIN entries /\ entries[k] >= entered[k] - MaxDelay + Ttl
        <5>1. ~(clock - entered[k] >= Ttl - MaxDelay)
          BY <2>1, <4>1, <4>2, IntakeNumbers
        <5> QED
          BY <2>1, <4>1, <5>1 DEF EnteredInv
      <4>4. entries[k] <= t /\ entries[k] \in Nat
        BY <2>2, <2>4, <2>8, <4>3
      <4> QED
        BY <2>1, <4>1, <4>2, <4>3, <4>4, IntakeNumbers
    <3>3. entries'[k] >= clock - MaxDelay + Ttl /\ k \in DOMAIN entries'
      BY <2>1, <2>2, <2>8, IntakeNumbers
    <3>4. ASSUME NEW j \in Keys, entered'[j] # None, j \notin pushed'
          PROVE  \/ j \in DOMAIN entries' /\ entries'[j] >= entered'[j] - MaxDelay + Ttl
                 \/ clock - entered'[j] >= Ttl - MaxDelay
      BY <2>6, <3>1, <3>3, <3>4
    <3> QED
      BY <2>1, <3>1, <3>2, <3>4 DEF EnteredInv
  <2> QED
    BY <2>7, <2>8
<1>2. CASE Updates!Tick
  <2>1. /\ UNCHANGED <<entries, pushed, repeated>> /\ clock' = clock + 1 /\ clock \in Nat
        /\ entered' = [j \in Keys |-> IF entered[j] # None /\ clock' - entered[j] >= Ttl
                                        THEN None ELSE entered[j]]
    BY <1>2, TickEffect DEF Updates!Tick, WorkersInv
  <2>2. entered' \in [Keys -> Nat \cup {None}]
    BY <2>1 DEF EnteredInv
  <2>3. ASSUME NEW j \in Keys, entered'[j] # None, j \notin pushed
        PROVE  \/ j \in DOMAIN entries /\ entries[j] >= entered'[j] - MaxDelay + Ttl
               \/ clock' - entered'[j] >= Ttl - MaxDelay
    <3>1. entered'[j] = entered[j]
      BY <2>1, <2>3
    <3>2. entered[j] \in Nat
      BY <2>3, <3>1 DEF EnteredInv
    <3>3. \/ j \in DOMAIN entries /\ entries[j] >= entered[j] - MaxDelay + Ttl
          \/ clock - entered[j] >= Ttl - MaxDelay
      BY <2>3, <3>1 DEF EnteredInv
    <3> QED
      BY <2>1, <3>1, <3>2, <3>3, IntakeNumbers
  <2> QED
    BY <2>1, <2>2, <2>3 DEF EnteredInv
<1>3. CASE UNCHANGED <<clock, entries, entered, pushed, repeated>>
  BY <1>3 DEF EnteredInv
<1>4. \/ \E w \in Workers : Updates!Dedup(w)
      \/ Updates!Tick
      \/ UNCHANGED <<clock, entries, entered, pushed, repeated>>
  BY UpdateSteps, DeliverEffect, ScreenEffect, ThrottleEffect DEF updateVars
<1> QED
  BY <1>1, <1>2, <1>3, <1>4

LEMMA UpdatesInvInit ==
  Updates!Init => UpdatesInv
<1> SUFFICES ASSUME Updates!Init PROVE UpdatesInv
  OBVIOUS
<1>1. /\ clock = 0 /\ entries = [k \in {} |-> 0] /\ queue = << >>
      /\ requests = [u \in Users |-> << >>] /\ passes = [u \in Users |-> << >>]
      /\ stage = [w \in Workers |-> "idle"] /\ update = [w \in Workers |-> None]
      /\ opened = [w \in Workers |-> 0] /\ entered = [k \in Keys |-> None]
      /\ repeated = {}
  BY DEF Updates!Init, Updates!DedupInit, Updates!RateInit
<1>2. WorkersInv
  BY <1>1 DEF WorkersInv
<1>3. /\ << >> \in Seq(Nat) /\ << >> \in Seq(Place) /\ Len(<< >>) = 0 /\ 1 .. 0 = {}
  BY EmptySeq
<1>4. RateInv
  <2>1. RateOK(<< >>, << >>, 0)
    BY <1>3, IntakeNumbers DEF RateOK
  <2> QED
    BY <1>1, <2>1 DEF RateInv
<1>5. QueueInv
  <2>1. IsFiniteSet({}) /\ Cardinality({}) = 0
    BY FS_EmptySet
  <2>2. DOMAIN entries = {} /\ entries = [k \in DOMAIN entries |-> entries[k]] /\ Len(queue) = 0
    BY <1>1, <1>3
  <2>3. QueueOK(entries, queue)
    BY <1>1, <1>3, <2>1, <2>2 DEF QueueOK
  <2>4. Received = {}
    BY <1>1 DEF Received
  <2>5. Places(queue) = {} /\ Outlived(entries, queue) = {}
    BY <2>2 DEF Places, Outlived
  <2>6. {x \in {} : x.expiry < 0} = {} /\ Slow(opened, {}, 0) = {}
    BY DEF Slow
  <2>7. Waits(opened, {}, {}, 0)
    BY <2>1, <2>6, IntakeNumbers DEF Waits
  <2>8. OrderOK(entries, queue, opened, Received, 0)
    BY <1>3, <2>2, <2>4, <2>5, <2>7 DEF OrderOK
  <2>9. 0 \in 0 .. clock + Ttl
    BY <1>1, IntakeNumbers
  <2> QED
    BY <1>3, <2>1, <2>2, <2>3, <2>8, <2>9, IntakeNumbers DEF QueueInv
<1>6. EnteredInv
  BY <1>1 DEF EnteredInv
<1> QED
  BY <1>2, <1>4, <1>5, <1>6 DEF UpdatesInv

LEMMA UpdatesStepKeeps ==
  ASSUME UpdatesInv, [CodesStep \/ UpdatesStep]_allVars
  PROVE  UpdatesInv' /\ [Updates!Next]_updateVars
<1>1. [Updates!Next]_updateVars
  BY DEF CodesStep, UpdatesStep, allVars
<1> QED
  BY <1>1, WorkersKeep, RateKeeps, QueueKeeps, EnteredKeeps DEF UpdatesInv

LEMMA QueueIsShort ==
  ASSUME UpdatesInv
  PROVE  Updates!HandledOnce
<1>1. /\ QueueOK(entries, queue) /\ Cardinality(DOMAIN entries) <= MaxEntries
      /\ IsFiniteSet(DOMAIN entries)
  BY DEF UpdatesInv, QueueInv, QueueOK
<1>2. PICK y \in 0 .. (clock + Ttl) : OrderOK(entries, queue, opened, Received, y)
  BY DEF UpdatesInv, QueueInv
<1> DEFINE out == Outlived(entries, queue)
           early == {x \in Places(queue) : x.expiry < y}
<1>3. IsFiniteSet(Places(queue)) /\ Len(queue) <= Cardinality(DOMAIN entries) + Cardinality(out)
      /\ Len(queue) \in Nat
  BY <1>1, PlacesCount, QueueTypes
<1>4. out \subseteq early /\ IsFiniteSet(early)
  <2>1. out \subseteq early
    BY <1>2 DEF OrderOK, Outlived
  <2> QED
    BY <1>3, <2>1, FS_Subset
<1>5. Cardinality(out) <= Cardinality(early)
  BY <1>4, FS_Subset
<1>6. Cardinality(early) + Cardinality(Slow(opened, Received, y)) <= Cardinality(Workers) - 1
  BY <1>2 DEF OrderOK, Waits
<1>7. /\ Cardinality(out) \in Nat /\ Cardinality(early) \in Nat
      /\ Cardinality(Slow(opened, Received, y)) \in Nat /\ Cardinality(DOMAIN entries) \in Nat
  <2>1. IsFiniteSet(out)
    BY <1>4, FS_Subset
  <2>2. Received \in SUBSET Workers
    BY DEF Received
  <2>3. Cardinality(Slow(opened, Received, y)) \in Nat
    BY <2>2, SlowIsFinite
  <2> QED
    BY <1>1, <1>4, <2>1, <2>3, FS_CardinalityType
<1> HIDE DEF out, early
<1>8. Len(queue) <= MaxEntries + Cardinality(Workers) - 1
  BY <1>1, <1>3, <1>5, <1>6, <1>7, IntakeNumbers
<1>9. Updates!Cardinality(Workers) = Cardinality(Workers)
  BY SameCount
<1> QED
  BY <1>8, <1>9 DEF Updates!HandledOnce, UpdatesInv, EnteredInv

(* An update is handled again only when its entry is over or made room for  *)
(* newer ones, whatever the number of workers, the time to live, the delay  *)
(* and the capacity, and the queue keeps no more than one outlived place    *)
(* per further worker (UpdateDedup._check_and_register, _prune_locked).     *)
THEOREM UpdatesAreHandledOnce == MCSpec => []HandledOnce
<1>1. MCInit => UpdatesInv
  BY UpdatesInvInit DEF MCInit
<1>2. UpdatesInv /\ [CodesStep \/ UpdatesStep]_allVars => UpdatesInv'
  BY UpdatesStepKeeps
<1>3. UpdatesInv => HandledOnce
  BY QueueIsShort DEF HandledOnce
<1> QED
  BY <1>1, <1>2, <1>3, PTL DEF MCSpec

(* No step lets a request too many of a user through in a period, and none  *)
(* refuses one early, up to the delay between clock and lock                *)
(* (RateLimit._check_and_track_request), for every limit and period.        *)
THEOREM RequestsAreLimited == MCSpec => LimitIsExact
<1>1. MCInit => UpdatesInv
  BY UpdatesInvInit DEF MCInit
<1>2. UpdatesInv /\ [CodesStep \/ UpdatesStep]_allVars => UpdatesInv'
  BY UpdatesStepKeeps
<1>3. UpdatesInv => Updates!WindowHolds
  BY WindowIsKept DEF UpdatesInv, WorkersInv
<1>4. UpdatesInv /\ [CodesStep \/ UpdatesStep]_allVars
        => [\A w \in Workers :
              stage[w] = "admitted" /\ stage'[w] = "idle" /\ UNCHANGED passes
                => Updates!PassesSince(Sender(update[w]), clock - (Period + MaxDelay)) >= Limit]_(Updates!vars)
  <2> SUFFICES ASSUME UpdatesInv, [CodesStep \/ UpdatesStep]_allVars, NEW w \in Workers,
                      stage[w] = "admitted", stage'[w] = "idle", UNCHANGED passes
               PROVE  Updates!PassesSince(Sender(update[w]), clock - (Period + MaxDelay)) >= Limit
    OBVIOUS
  <2>1. WorkersInv /\ RateInv /\ [Updates!Next]_updateVars
    BY UpdatesStepKeeps DEF UpdatesInv
  <2> QED
    BY <2>1, RefusedWithReasonStep
<1>5. UpdatesInv /\ UpdatesInv' /\ [CodesStep \/ UpdatesStep]_allVars
        => [Updates!WindowHolds']_(Updates!vars)
  <2>1. UpdatesInv' => Updates!WindowHolds'
    BY <1>3, PTL
  <2> QED
    BY <2>1
<1> QED
  BY <1>1, <1>2, <1>4, <1>5, PTL DEF MCSpec, LimitIsExact, Updates!LimitIsExact, Updates!RefusedWithReason
=============================================================================
