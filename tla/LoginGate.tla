------------------------------ MODULE LoginGate ------------------------------
(***************************************************************************)
(* What the second factor promises, without sessions, states or prompts:   *)
(* a protected handler starts only for an admin, only inside a login       *)
(* window of Timeout minutes, never during a lock, and every window is     *)
(* paid for by an accepted code of that user which opens no other window.  *)
(***************************************************************************)
EXTENDS Integers

CONSTANTS Users, Admins, Workers, Timeout

None == -1

VARIABLES
    clock,
    role,      \* role[w]: "none", "paid" (holds an accepted code), "running"
    client,    \* client[w]: whom w serves
    opened,    \* opened[u]: when the login window of u opened, or None
    lock       \* lock[u]: the end of the lock of u, or None

gateVars == <<clock, role, client, opened, lock>>

Init ==
    /\ clock = 0
    /\ role = [w \in Workers |-> "none"]
    /\ client \in [Workers -> Users]
    /\ opened = [u \in Users |-> None]
    /\ lock = [u \in Users |-> None]

\* Windows of the users in S may close; no other window changes.
MayClose(S) == \A u \in S : opened'[u] \in {opened[u], None}

Locked(u) == lock[u] # None /\ clock <= lock[u]
InWindow(u) == opened[u] # None /\ clock <= opened[u] + Timeout

\* A worker may take another client only while it holds nothing.
KeepsClients(w) ==
    /\ \A v \in Workers \ {w} : client'[v] = client[v] /\ role'[v] = role[v]
    /\ role[w] # "none" => client'[w] = client[w]

Pay(w) == role[w] = "none" /\ role'[w] = "paid" /\ MayClose(Users)

Open(w) ==
    /\ role[w] = "paid"
    /\ role'[w] = "none"
    /\ opened'[client[w]] = clock
    /\ MayClose(Users \ {client[w]})

Start(w) ==
    /\ role[w] = "none"
    /\ role'[w] = "running"
    /\ client'[w] \in Admins
    /\ InWindow(client'[w])
    /\ ~Locked(client'[w])
    /\ MayClose(Users)

Leave(w) == role'[w] \in {role[w], "none"} /\ MayClose(Users)

Next ==
    \/ /\ \E w \in Workers :
            KeepsClients(w) /\ (Pay(w) \/ Open(w) \/ Start(w) \/ Leave(w))
       /\ clock' = clock
    \/ /\ UNCHANGED <<role, client>>
       /\ MayClose(Users)
       /\ clock' = clock
    \/ /\ clock' > clock
       /\ UNCHANGED <<role, client, opened, lock>>

Spec == Init /\ [][Next]_gateVars
=============================================================================
