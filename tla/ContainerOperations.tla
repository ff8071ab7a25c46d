------------------------ MODULE ContainerOperations ------------------------
(***************************************************************************)
(* An admin presses start, stop or restart: handlers of several threads    *)
(* check the session, the interval between two operations and the session  *)
(* again, then run the operation on a pool thread and wait for it, over    *)
(* the session store of SessionManager.  One container; the units of time  *)
(* are those of the store.  The operation history of the manager is        *)
(* written and never read, and is left out, as is the rename, which no     *)
(* button reaches.                                                         *)
(***************************************************************************)
EXTENDS SessionManager

CONSTANTS
    Workers,      \* threads that handle a press
    Admins,       \* allowed_admins_ids
    Actions,      \* a subset of start, stop and restart
    MinInterval,  \* min_operation_interval
    RateTTL,      \* rate_limit_cache_ttl_seconds
    MaxRateUsers, \* max_rate_limited_users
    TimeLimit,    \* _max_operation_timeout
    Statuses      \* those of the container that an instance tells apart

ASSUME OperationConstants ==
    /\ Admins \subseteq Users
    /\ Actions \subseteq {"start", "stop", "restart"}
    /\ {MinInterval, RateTTL, MaxRateUsers, TimeLimit} \subseteq Nat
    /\ MinInterval <= RateTTL
    /\ Statuses \subseteq {"running", "restarting", "exited", "stopped"}

VARIABLES
    call,     \* what each worker is doing for whom
    op,       \* the operation on the pool thread of each worker
    lastOp,   \* _rate_limits of each decorated method
    status,   \* the state of the container
    admitted, \* history: when each user's last operation was admitted
    answer    \* history: the last answer of each worker

opVars == <<call, op, lastOp, status, admitted, answer>>
vars == <<sessionVars, opVars>>

Idle == [phase |-> "idle", user |-> CHOOSE u \in Admins : TRUE,
         action |-> CHOOSE a \in Actions : TRUE, since |-> 0, valid |-> FALSE]

Goto(w, p) == call' = [call EXCEPT ![w].phase = p]

Answer(w, result) ==
    /\ call' = [call EXCEPT ![w] = Idle]
    /\ answer' = [answer EXCEPT ![w] = result]

Expected(action) ==
    IF action = "stop" THEN {"exited", "stopped"} ELSE {"running", "restarting"}

LoginValid(u) ==
    /\ Lookup(u).auth = "authenticated"
    /\ ~IsExpired(Lookup(u)) /\ ~IsBlockedNow(Lookup(u))

----------------------------------------------------------------------------
(* The checks in front of an operation.                                    *)

\* The decorator of the handler.
Press(w, u, action) ==
    /\ call[w].phase = "idle"
    /\ op' = [op EXCEPT ![w] = "none"]
    /\ answer' = [answer EXCEPT ![w] = "none"]
    /\ IsAuthenticated(u)
    /\ call' = IF AuthenticatedNow(Lookup(u))
                 THEN [call EXCEPT ![w] = [Idle EXCEPT !.phase = "granted",
                                                       !.user = u, !.action = action]]
                 ELSE call
    /\ UNCHANGED <<lastOp, status, admitted>>

\* authorize_callback_request
Authorize(w) ==
    /\ call[w].phase = "granted"
    /\ IsAuthenticated(call[w].user)
    /\ IF AuthenticatedNow(Lookup(call[w].user))
         THEN Goto(w, "authorized") /\ UNCHANGED answer
         ELSE Answer(w, "refused")
    /\ UNCHANGED <<op, lastOp, status, admitted>>

\* What may be left of a table of times: stale entries go, then the oldest.
Trimmed(table) ==
    LET fresh == {u \in DOMAIN table : table[u] >= now - RateTTL}
        room  == IF Cardinality(fresh) < MaxRateUsers
                   THEN Cardinality(fresh) ELSE MaxRateUsers
    IN  IF Cardinality(DOMAIN table) <= MaxRateUsers
          THEN {DOMAIN table}
          ELSE {kept \in SUBSET fresh :
                  /\ Cardinality(kept) = room
                  /\ \A u \in kept, v \in fresh \ kept : table[v] <= table[u]}

\* Fault: the comparison the other way round.
TooSoonReversed(table, kept, u) == u \in kept /\ now - table[u] > MinInterval

TooSoon(table, kept, u) == u \in kept /\ now - table[u] < MinInterval

Recorded(table, kept, u) == [v \in kept \cup {u} |-> IF v = u THEN now ELSE table[v]]

\* The rate limit of validate_access.
Admit(w) ==
    LET u == call[w].user
        action == call[w].action
        table == lastOp[action]
    IN  /\ call[w].phase = "authorized"
        /\ \E kept \in Trimmed(table) :
             IF TooSoon(table, kept, u)
               THEN /\ lastOp' = [lastOp EXCEPT ![action] = [v \in kept |-> table[v]]]
                    /\ Answer(w, "refused")
                    /\ UNCHANGED admitted
               ELSE /\ lastOp' = [lastOp EXCEPT ![action] = Recorded(table, kept, u)]
                    /\ Goto(w, "admitted")
                    /\ admitted' = [admitted EXCEPT ![action][u] = now]
                    /\ UNCHANGED answer
        /\ UNCHANGED <<sessionVars, op, status>>

\* The session check of validate_access; its check of the age of the session
\* asks the manager for a method it does not have, and is never made.
Permit(w) ==
    LET u == call[w].user
    IN  /\ call[w].phase = "admitted"
        /\ IsAuthenticated(u)
        /\ IF AuthenticatedNow(Lookup(u))
             THEN /\ call' = [call EXCEPT ![w].phase = "permitted",
                                          ![w].valid = LoginValid(u)]
                  /\ UNCHANGED answer
             ELSE Answer(w, "refused")
        /\ UNCHANGED <<op, lastOp, status, admitted>>

----------------------------------------------------------------------------
(* _execute_lifecycle_operation and _run_with_timeout.                     *)

\* The container is found and the operation submitted to a pool of its own.
Begin(w) ==
    /\ call[w].phase = "permitted"
    /\ call' = [call EXCEPT ![w].phase = "waiting", ![w].since = now]
    /\ op' = [op EXCEPT ![w] = "running"]
    /\ UNCHANGED <<sessionVars, lastOp, status, admitted, answer>>

NotFound(w) ==
    /\ call[w].phase = "permitted"
    /\ Answer(w, "failed")
    /\ UNCHANGED <<sessionVars, op, lastOp, status, admitted>>

OperationWorks(w) ==
    /\ op[w] = "running"
    /\ op' = [op EXCEPT ![w] = "done"]
    /\ status' \in Expected(call[w].action) \cap Statuses
    /\ UNCHANGED <<sessionVars, call, lastOp, admitted, answer>>

OperationFails(w) ==
    /\ op[w] = "running"
    /\ op' = [op EXCEPT ![w] = "failed"]
    /\ UNCHANGED <<sessionVars, call, lastOp, status, admitted, answer>>

\* TimeoutError is raised inside the with block of the pool.
TimeOut(w) ==
    /\ call[w].phase = "waiting"
    /\ op[w] = "running"
    /\ now >= call[w].since + TimeLimit
    /\ Goto(w, "late")
    /\ UNCHANGED <<sessionVars, op, lastOp, status, admitted, answer>>

\* Fault: the end of the operation counts as its success.
LookAtStatusOnly(w) ==
    /\ call[w].phase = "waiting"
    /\ op[w] # "running"
    /\ Answer(w, IF status \in Expected(call[w].action) THEN "ok" ELSE "failed")
    /\ UNCHANGED <<sessionVars, op, lastOp, status, admitted>>

\* The result of the operation, then reload and the check of the state.
Look(w) ==
    /\ call[w].phase = "waiting"
    /\ op[w] # "running"
    /\ Answer(w, IF op[w] = "done" /\ status \in Expected(call[w].action)
                   THEN "ok" ELSE "failed")
    /\ UNCHANGED <<sessionVars, op, lastOp, status, admitted>>

\* Fault: an operation that failed is waited for.
LeavePoolWhenDone(w) ==
    /\ call[w].phase = "late"
    /\ op[w] = "done"
    /\ Answer(w, "timeout")
    /\ UNCHANGED <<sessionVars, op, lastOp, status, admitted>>

\* The end of the with block waits for the pool thread.
LeavePool(w) ==
    /\ call[w].phase = "late"
    /\ op[w] # "running"
    /\ Answer(w, "timeout")
    /\ UNCHANGED <<sessionVars, op, lastOp, status, admitted>>

----------------------------------------------------------------------------
Elsewhere == UNCHANGED opVars

\* A login, or a block after wrong codes, on another thread (TwoFactorLogin).
LogIn(u) ==
    /\ ~IsBlockedNow(Lookup(u))
    /\ Store(u, [NewSession EXCEPT !.auth = "authenticated", !.loginTime = now])
    /\ Elsewhere

Block(u) == SetBlockedTime(u, BlockDuration) /\ Elsewhere

Background == (ClearExpiredSessions \/ Tick) /\ Elsewhere

\* The process of the container, its restart policy, or another client of Docker.
StatusChanges ==
    /\ status' \in Statuses \ {status}
    /\ UNCHANGED <<sessionVars, call, op, lastOp, admitted, answer>>

Init ==
    /\ SessionInit
    /\ call = [w \in Workers |-> Idle]
    /\ op = [w \in Workers |-> "none"]
    /\ lastOp = [a \in Actions |-> [u \in {} |-> 0]]
    /\ status \in Statuses
    /\ admitted = [a \in Actions |-> [u \in Admins |-> None]]
    /\ answer = [w \in Workers |-> "none"]

Check(w) == Authorize(w) \/ Admit(w) \/ Permit(w)

CallStep(w) ==
    Check(w) \/ Begin(w) \/ NotFound(w) \/ TimeOut(w) \/ Look(w) \/ LeavePool(w)

OperationEnds(w) == OperationWorks(w) \/ OperationFails(w)

Next ==
    \/ \E w \in Workers :
         \/ \E u \in Admins, a \in Actions : Press(w, u, a)
         \/ CallStep(w) \/ OperationEnds(w)
    \/ \E u \in Admins : LogIn(u) \/ Block(u)
    \/ Background \/ StatusChanges

Spec == Init /\ [][Next]_vars

\* What a call waits for: its own steps, and the operation, as the Docker
\* client has a timeout of its own.
Serve(w) == CallStep(w) \/ OperationEnds(w)

----------------------------------------------------------------------------
(* An operation starts only for a user whose login was valid when the call  *)
(* last looked, however sessions expire, are blocked, cleared or evicted    *)
(* while the call makes its way through the checks.                         *)
OnlyForValidLogins ==
    \A w \in Workers : op[w] = "running" => call[w].valid

(* Two operations of one user and one kind are an interval apart, unless so *)
(* many others came in since that the table had no room for the user.       *)
RateSpaced ==
    [][\A w \in Workers :
         LET u == call[w].user
             times == admitted[call[w].action]
         IN  call[w].phase = "authorized" /\ call'[w].phase = "admitted" =>
               \/ times[u] = None
               \/ now - times[u] >= MinInterval
               \/ Cardinality({v \in Admins \ {u} : times[v] >= times[u]})
                    >= MaxRateUsers]_vars

(* An answer is honest about what was done: success only after the          *)
(* operation worked, a refusal only before anything was started.            *)
AnswersAreHonest ==
    \A w \in Workers :
      /\ answer[w] = "ok" => op[w] = "done"
      /\ answer[w] = "refused" => op[w] = "none"
      /\ answer[w] = "timeout" => op[w] \in {"done", "failed"}

(* Every press is answered, whatever sessions, other presses and the        *)
(* operation itself do.                                                     *)
EveryPressAnswered ==
    \A w \in Workers : call[w].phase # "idle" ~> call[w].phase = "idle"

=============================================================================
