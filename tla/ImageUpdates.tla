---------------------------- MODULE ImageUpdates ----------------------------
(***************************************************************************)
(* A press of "Check updates" (docker_handlers/inline/image_updates.py):   *)
(* the local images, the loop that the updater starts for the check, one   *)
(* coroutine per repository that asks Docker Hub (adapters/docker/         *)
(* updates.py), and the answer.  Every press has an updater of its own,    *)
(* with its cache, in which it finds nothing, and its back-off.            *)
(***************************************************************************)
EXTENDS Naturals, FiniteSets

CONSTANTS
    Repos,          \* repositories of local images
    Official,       \* those without a "/": two URLs are tried
    MaxConcurrent,  \* MAX_CONCURRENT_REPOS
    PerHost,        \* limit_per_host of the connector
    MaxRetries      \* MAX_RETRIES, the attempts at one URL

UpdateConstants ==
    Official \subseteq Repos /\ {MaxConcurrent, PerHost, MaxRetries} \subseteq Nat \ {0}

VARIABLES
    check,     \* where the check is, and how it was answered
    repo,      \* repository -> where its coroutine is, its URL and attempt
    limited,   \* the back-off after a 429 holds
    late       \* history: repositories that asked while it did

updateVars == <<check, repo, limited, late>>

Out == [at |-> "none", url |-> 0, attempt |-> 0]
Result(r, what) == repo' = [repo EXCEPT ![r] = [Out EXCEPT !.at = what]]

Results == {"updates", "current", "no tags", "limited", "failed"}
Local == {r \in Repos : repo[r].at # "none"}
Inside == {r \in Repos : repo[r].at \in {"queued", "asking", "asleep"}}
Asking == {r \in Repos : repo[r].at = "asking"}

UpdatesInit ==
    /\ check = "idle" /\ repo = [r \in Repos |-> Out]
    /\ limited = FALSE /\ late = {}

\* The handler makes an updater, which lists the local images and starts its
\* loop.  Docker that fails ends the handler without an answer; a loop that
\* does not start is an error that is shown.
PressCheck(local) ==
    /\ check \notin {"checking"}
    /\ repo' = [r \in Repos |-> IF r \in local THEN [Out EXCEPT !.at = "waiting"] ELSE Out]
    /\ \/ check' = IF local = {} THEN "none found" ELSE "checking"
       \/ check' \in {"unanswered", "error"}
    /\ limited' = FALSE /\ late' = {}

\* Fault: the back-off is tested only before the semaphore.
EnterUntested(r) ==
    /\ check = "checking" /\ repo[r].at = "waiting" /\ Cardinality(Inside) < MaxConcurrent
    /\ repo' = [repo EXCEPT ![r] = [at |-> "queued", url |-> 1, attempt |-> 1]]
    /\ UNCHANGED <<check, limited, late>>

\* The semaphore, and the test of the back-off.
Enter(r) ==
    /\ check = "checking" /\ repo[r].at = "waiting" /\ Cardinality(Inside) < MaxConcurrent
    /\ IF limited THEN Result(r, "no tags")
       ELSE repo' = [repo EXCEPT ![r] = [at |-> "queued", url |-> 1, attempt |-> 1]]
    /\ UNCHANGED <<check, limited, late>>

\* The connector gives a connection: the request goes out.
Send(r) ==
    /\ repo[r].at = "queued" /\ Cardinality(Asking) < PerHost
    /\ repo' = [repo EXCEPT ![r].at = "asking"]
    /\ late' = IF limited THEN late \cup {r} ELSE late
    /\ UNCHANGED <<check, limited>>

LastUrl(r) == repo[r].url = IF r \in Official THEN 2 ELSE 1
NextUrl(r) ==
    IF LastUrl(r) THEN Result(r, "no tags")
    ELSE repo' = [repo EXCEPT ![r] = [at |-> "queued", url |-> 2, attempt |-> 1]]

\* Tags: those that are updates, none that is, or a date that cannot be
\* sorted, which fails the repository.
TagsCome(r) ==
    /\ repo[r].at = "asking"
    /\ \E what \in {"updates", "current", "failed"} : Result(r, what)
    /\ UNCHANGED <<check, limited, late>>

\* No tags, 404, 403 or another client error: the next URL.
Refused(r) ==
    /\ repo[r].at = "asking" /\ NextUrl(r)
    /\ UNCHANGED <<check, limited, late>>

\* 429 ends the repository; a Retry-After that is no number fails it before
\* the limit is recorded.
LimitComes(r) ==
    /\ repo[r].at = "asking"
    /\ \/ Result(r, "limited") /\ limited' = TRUE
       \/ Result(r, "failed") /\ UNCHANGED limited
    /\ UNCHANGED <<check, late>>

\* A server error, a timeout (also of the wait for a connection), a broken
\* connection or answer: again after a pause, then the next URL.
Transient(r) ==
    /\ repo[r].at \in {"queued", "asking"}
    /\ IF repo[r].attempt < MaxRetries
         THEN repo' = [repo EXCEPT ![r].at = "asleep"]
         ELSE NextUrl(r)
    /\ UNCHANGED <<check, limited, late>>

\* The pause is over: the attempt does not test the back-off.
Again(r) ==
    /\ repo[r].at = "asleep"
    /\ repo' = [repo EXCEPT ![r].at = "queued", ![r].attempt = @ + 1]
    /\ UNCHANGED <<check, limited, late>>

BackoffEnds ==
    /\ limited /\ limited' = FALSE /\ late' = {}
    /\ UNCHANGED <<check, repo>>

With(what) == {r \in Repos : repo[r].at = what}

\* Fault: a repository without tags counts as processed.
StatusLenient ==
    IF With("limited") # {} THEN "rate limited"
    ELSE IF With("updates") \cup With("current") \cup With("no tags") = {} THEN "error"
    ELSE IF With("failed") # {} THEN "partial" ELSE "success"

\* The status of _check_updates_async; every result without tags is a failure.
Status ==
    IF With("limited") # {} THEN "rate limited"
    ELSE IF With("updates") \cup With("current") = {} THEN "error"
    ELSE IF With("failed") \cup With("no tags") # {} THEN "partial" ELSE "success"

\* The answer: updates are shown under every status that is no error.
Conclude ==
    /\ check = "checking" /\ \A r \in Local : repo[r].at \in Results
    /\ check' = CASE Status = "rate limited" -> "rate limited"
                  [] Status = "error" -> "error"
                  [] OTHER -> IF With("updates") = {} THEN "none found" ELSE "updates"
    /\ UNCHANGED <<repo, limited, late>>

Answered(r) == TagsCome(r) \/ Refused(r) \/ LimitComes(r) \/ Transient(r)
Advance(r) == Enter(r) \/ Send(r) \/ Answered(r) \/ Again(r)

UpdatesNext ==
    \/ \E local \in SUBSET Repos : PressCheck(local)
    \/ \E r \in Repos : Advance(r)
    \/ BackoffEnds \/ Conclude

\* The loop runs, and every request is answered or times out.
Proceed == Conclude \/ \E r \in Repos : Advance(r)

----------------------------------------------------------------------------
(* Once a 429 came, only repositories that were inside the semaphore by then *)
(* still ask Docker Hub, whatever retries are under way.                     *)
FewAfterLimit == Cardinality(late) < MaxConcurrent

(* The answer is true: an error or a rate limit is shown only when no tags   *)
(* came or a limit did, updates when there are some, and that there are none *)
(* only after the tags of some repository were read and none was newer.      *)
AnswerIsTrue ==
    Local # {} /\ (\A r \in Local : repo[r].at \in Results) =>
      /\ check = "updates" => With("updates") # {}
      /\ check = "none found" => With("current") # {} /\ With("updates") = {}
      /\ check = "rate limited" => With("limited") # {}
      /\ check = "error" => With("updates") = {} /\ With("limited") = {}

(* A check ends: no number of retries, pauses and other repositories holds   *)
(* the handler that waits for it.                                            *)
EveryCheckEnds == (check = "checking") ~> (check # "checking")
=============================================================================
