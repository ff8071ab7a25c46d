# Verification of pyTMBot

TLA+ models of the parts of pyTMBot whose correctness depends on order, time
and failure, the TLC instances that check them, and TLAPS proofs of what
matters most. Paths are relative to `src/`; line numbers are in
`PROJECT.json` (`map`), which names for every definition the code it stands for.

## 1. The system

pyTMBot is a Telegram bot that shows and manages a server and its Docker
containers. One process: a main thread that supervises, a polling thread or a
webhook server that receives updates, TeleBot's two worker threads that run
middlewares and handlers (`threaded=True`), and background threads of several
components. State is in memory, apart from three things: the TOTP replay file,
the webhook limiter's file and InfluxDB.

| Component | State | Operations | What is hard | What makes it correct |
|---|---|---|---|---|
| Session manager (`middleware/session_manager.py`) | dict user -> session, in order of use; shutdown event | get-or-create, states, attempts, block, login time, referer, cleanup, statistics | getters insert; a session without login counts as expired; eviction | cap; eviction spares valid logins; expired sessions go |
| Two-factor login (`handlers/auth_processing`, `middleware/session_wrapper.py`) | sessions; times of recent attempts | prompt, code, block, login, referer; decorator of protected handlers | each handler is a sequence of calls to the store, interleaved with others | bounded guessing; only codes open logins; blocks last |
| TOTP verification (`utils/totp.py`) | markers in memory and in a file | resolve step, register, persist, load | crash, failing writes, old readings of the clock | each code accepted once |
| Access control (`middleware/access_control.py`) | attempts, blocks, last notification | check, count, block, notify, cleanup | check and count are separate critical sections | limit, block, suppression; every block ends |
| Update deduplication, rate limit (`middleware/update_dedup.py`, `rate_limit.py`) | keys with expiry and queue; times per user | register; track | readings out of order, repeated delivery, capacity | handled once; window; refusals have a reason |
| Launcher, polling (`main.py`, `pytmbot_instance.py`) | bot, flags, polling thread, states, error counters | run, main loop, signals, shutdown, emergency exit, retries, circuit breaker | signals at any point; once-only shutdown; restart of the polling thread | stops once and completely; restarts bounded |
| Health monitor (`health_system/health_system.py`) | checkers with caches; last snapshot | cycle, merge, publish failure, start, stop | cached results, merging of old components | status reflects the last results |
| Webhook server (`webhook.py`) | request times, bans (persisted), accepted paths and secrets | limit, ban, process, rotate | bans across restarts; Telegram and server switch at different times | limited and banned; Telegram's path accepted |
| Logging (`logs.py`) | known names and ids, cache of sanitized texts | register, sanitize | cache filled outside the lock | no text shows a registered name |
| Container operations (`adapters/docker/container_manager.py`) | times of operations | access checks, run with timeout, check result | operation outlives its timeout; concurrent operations | only authorized; reported result is true |
| Monitor plugin (`plugins/monitor`) | events, budget of notifications, threads | cycle, notify, supervise, start, stop | failing deliveries, restarts of workers | each event told and resolved |
| InfluxDB interface (`db/influxdb_interface.py`) | client, writer thread, slots, field cache | write, flush, shut down, reopen | shutdown against late writes | no slot lost; nothing after close |
| Image updates (`adapters/docker/updates.py`) | check under way, back-off, caches | press, repositories with URLs, attempts and limits, comparison of tags | five repositories at once test the back-off before they await | every press ends, its answer is what came, offers are upgrades |
| Docker client (`adapters/docker/_adapter.py`) | a client per thread, time of its last check | enter, test, recreate, degrade, exit, close | a client kept between operations while Docker comes and goes | refuses only when Docker did; real only if Docker answered lately |
| Message deletion (`utils/message_deletion.py`) | keys, places per user, one thread per message | send with a promise, schedule, delete, give up | refused deletions, a full table, a bot that is gone | places come back; promises are kept or withdrawn |
| Container logs (`handlers/docker_handlers/inline/logs.py`) | sessions with owner and age | open, turn pages, refresh, file | a refresh replaces the session under other buttons | logs stay with their user; buttons find their session |
| Images (`handlers/docker_handlers/images.py`) | cached list | list, details by position | the list changes under the buttons | a position keeps its image |
| Containers (`handlers/docker_handlers/containers.py`, `adapters/docker/containers_info.py`) | caches of details, states, counters | list, details, manage, back | caches filled by several threads, none dropped after an operation | what is shown was true lately |
| Screens and menus (`keyboards/keyboards.py`, `handlers/handler_manager.py`, `handlers_util`) | button data with an owner; the table of handlers | press, go back, navigate | names and ids are cut at 64 bytes; expressions found anywhere in a text | buttons do what they say, for their owner only |
| Plugin manager (`plugins/plugin_manager.py`) | instances, loaded and listed names | register, replace, fail, clean up | failures at each point | a plugin that started is stopped |
| Readings of the host (`adapters/psutil/adapter.py`) | one cache entry for all adapters | read, time out, close | the clock is read before the lock | a reading is not older than its cache allows |

Interaction: an update passes UpdateDedup, AccessControl and RateLimit, then the
decorator of its handler asks the session manager; the login handlers drive the
session manager and the TOTP verifier; container operations ask the session
manager again. The health monitor reads statistics of the session manager, which
drops expired sessions on the way. The monitor plugin writes through the InfluxDB
interface. The launcher starts and stops all of them.

`PROJECT.json` lists every component and every hazard at its line.

## 2. Modules

| Module | Models | State and actions |
|---|---|---|
| `SessionManager` | the session store | the dict and its order of use; every public method an action, `Lookup` is get-or-create without its effect |
| `TwoFactorLogin` (extends it) | login handlers and decorator on worker threads | `phase[w]` is the next call of worker `w`; a call under the lock is one action |
| `LoginGate` | abstract promise of the login | refined by `TwoFactorLogin` (`GateSpec`) |
| `ContainerOperations` (extends `SessionManager`) | a press of start, stop or restart, from the decorator to the answer | `call[w]` the handler, `op[w]` the thread of the pool that runs the operation |
| `TotpReplay` | code verification, replay file | time in steps of 30 s |
| `CodeLedger` | abstract promise of the one-time codes | refined by `TotpReplay` (`CodesAreSpent`): spent is what is in the memory and inside its window, saved what is in the file and inside it, a verdict exists from the registration to the answer |
| `AccessControl` | access middleware and cleanup thread | relative time |
| `UpdateDedup`, `RateLimit`, `Intake` | the other two middlewares and the chain | `Intake` composes them, worker threads and redelivery |
| `Polling` | polling loop, back-off, circuit of the rate limit | `poller` is the next statement, `pause` what is left of a sleep |
| `Launcher` (extends it) | main thread, nested SIGINT handlers, shutdown, restart of polling | `main` and `handler` are the two frames of the main thread, `cleanup` how far a clean-up is in each |
| `WebhookRotation` | requests of Telegram, rotation of path and secret | a credential is a number; `accepted` with its expiry, `told` what Telegram uses |
| `RequestLimiter` | window, ban and eviction of the webhook's addresses | one action per call of `is_rate_limited`, which holds its lock throughout |
| `LogMasker` | registered names and the cache of sanitized texts | `call[w]` is between the lookup, the masking and the entry |
| `MetricWriter` | the writer thread of the InfluxDB interface | slots, queue and thread of every pool there has been |
| `MonitorAlerts` | events, announcements and the budget of notifications | one action per check of an issue and per new object |
| `Monitor` (extends both) | worker, supervisor, start and stop of the monitor plugin | `worker[w]`, `supervisor`, `main` are program counters |
| `HealthChecks` | the checkers and the levels, and what the snapshot, the screen and the log make of them | operators |
| `HealthMonitor` (extends it) | the health loop, start and stop, the readers | cached results with their age, `snapshot`, the pause of the loop |
| `ImageTags` | which tags are updates of which | operators |
| `ImageUpdates` | a check for image updates | `repo[r]` is the coroutine of a repository, `limited` the back-off |
| `DockerClient` | the adapter of one thread | `visit` is the place in `__enter__` or the operation |
| `MessageDeletion` | the deletion manager, its threads and the handlers that promise | `chat` holds what became of each message |
| `LogsViewer`, `ImageViews`, `ContainerViews` | sessions, lists and caches behind three views | `press`, `loader`, `look`: requests between their steps |
| `Paging` | how lists and logs are cut into pages | operators |
| `Screens` | inline screens, their button data and owners | one screen that is pressed by anybody in the group |
| `Menus` | reply keyboards and the table of handlers | `keyboard` and the handler that took a press |
| `PluginManager` | registration, replacement, failure, cleanup | one action per point at which a registration can stand |
| `SystemReadings`, `SystemMetrics` | the cache of readings with its lock; what becomes of the tables of the host | a request between clock, lock and answer; operators |
| `TwoFactorLogin_proofs` (with those of `SessionManager`), `Launcher_proofs`, `Monitor_proofs`, `HealthMonitor_proofs` | theorems | |
| `MCGuards_proofs`, `MCMessages_proofs`, `MCDocker_proofs`, `MCScreens_proofs` | theorems about the components that the module of that name puts together | |
| `MCHealth` | values of constants | |
| `MCGuards`, `MCMessages`, `MCDocker`, `MCScreens` | several components that share no state, each instantiated as it is: `part` says which of them a behaviour runs, the others stand at their start. A property of one component has the same name here | |

Operators whose comment starts with "Fault:" are plausible mistakes. They are
used nowhere in the specifications; each shows, put in the place of the
definition it precedes, that a property would notice.

### Modelling decisions

* **Login.** Only admins pass the decorator; the reply to a malformed code is
  unreachable because the handler is registered for six digits only. Verification
  answers yes, no, or raises; that answer is `TotpReplay`'s subject. The tuple of
  guards is evaluated before the first guard is looked at, so an attempt is
  consumed in any case. Reading the clock and consuming an attempt is one step.
* **Replay.** A worker may be held up between its clock and the lock by `MaxLag`
  steps; the window must be longer. A write of the state file may fail; replacing
  the file is atomic (`os.replace`). After a crash that follows a failed write the
  history forgets what could not be saved: `docs/auth_control.md` promises
  persistence only where the state directory is writable. A restart finds the file as
  it was written, or none that can be used: an unreadable or malformed one counts as
  empty, and the codes in it are forgotten, by the history too. A file that cannot be
  read at the first look and can later is not modelled.
* **Access control.** A block is the time it has left, a notification its age, so
  no clock needs a bound; ages beyond `Suppression + MaxLag` are not told apart.
  `AccessConstants` asks that a block outlasts the suppression (3600 s and 300 s).
* **Container operations.** The store's methods are those of `SessionManager`, so the
  session that was good at the button can expire, be blocked or be evicted before the
  second check. `validate_access` also asks for the age of a session through
  `get_session_info`, a method `SessionManager` does not have: the test is never
  made and is not in the model. An operation that fails and one that succeeds both end;
  which of the two is a choice. One that succeeds leaves the container in a state its
  action expects (running or restarting, exited or stopped), and the container, its
  restart policy or another client of Docker may change it at any time, also before the
  call looks.
* **Launcher.** A clean-up is a walk through its stages, so that a further SIGINT can
  come between any two. What runs in the interpreter's exit is `atexit`. Threads are
  daemons and end with the process.
* **Rotation.** The request carries the credential it was sent with; telling Telegram
  and accepting the new credential are two steps. A failure may come between them.
* **Monitor.** A join of two seconds against a cycle of up to thirty may end at any
  time, so `Join` waits for nothing. Telegram may refuse a message. A thread can
  always be started. Which containers and images are new is Docker's choice. Retries of
  a write are part of the write. A stop sets the event and clears the flag in two steps.
* **Health.** A reading is what a checker finds; its level and advice are computed from
  it as in the code, also when what it looks at is missing (offline) or looking at it
  raises (critical). `PollingChecker` reads an attribute that is always truthy, so only
  the thread decides. A cycle may fail before its snapshot is published or after. The
  history of snapshots has no reader, and the score on the screen of /health is left out.
* **Image updates.** Docker Hub answers, fails or limits at will. Coroutines are switched
  at their awaits and nowhere else.
* **Message deletion.** A refusal of Telegram and a request that fails end alike
  ("failed"). A thread that cannot be started leaves its place taken (`threads` keeps it
  as "unstarted") and ends the handler with an error; the error itself, and what a user
  is told of it, are the state "unknown".
* **Docker client.** One thread; the adapters are thread-local. A nested use on one
  thread, which could close the outer client, is not modelled.
* **Views.** A fetch takes `FetchTime`, so two threads can overlap and finish out of
  order. The containers and images behind a view change at any time.
* **Screens.** A name is its length and whether it has capitals: no handler looks at
  more. An id that is cut is `Foreign` (a number of somebody else) or `Broken`.
* **Menus.** A text is a sequence of words. `re.search` finds an expression anywhere in
  it; the first handler registered takes it.
* **Intake.** The expiry of an entry is kept beside its place in the queue, as in the
  code; `Prune` takes places from the front while they are over or there are too
  many entries; a place that its key has outlived goes without an entry. AccessControl is a choice here, to pass or to cancel. The counters of
  violations only select log lines and are left out.

## 3. Runs

| Run | Checks | Instance |
|---|---|---|
| `guards` | store: cap, eviction spares logins; access: block, set-up limit, suppression; webhook: the current credential stays accepted; liveness: expired sessions go, every block ends and lasts until then, every update is answered | 3 users on 2 seats, so that eviction has to choose; 3 workers of the access control, one more than the pool, so that one passes while two are at the limit; 3 updates, 2 rotations, one mishap |
| `login` | bounded guessing, only codes authenticate, refinement of `LoginGate` | 2 workers (the size of TeleBot's pool), 1 user, limits 2 and 4, 4 instants: login, expiry and block pass |
| `login_block_lost` | violation: a block does not last | |
| `messages` | replay: each code once and only replays refused, refinement of `CodeLedger`; intake: handled once, the window exact up to the delay | 2 workers, 4 instants, window 2, lag 1, two steps with the same code, crash, failing writes and a file lost to a crash anywhere; 3 updates of one user, cache of 2, limit 2 per period of 2 |
| `launcher` | complete shutdown, nothing ends without a reason, refusals by Telegram waited out; liveness: every request to end ends it, polling is supervised | base sleep 1, limit 2, circuit at the second refusal, one restart; any number of SIGINTs, one nested |
| `docker` | operations: valid login, honest answers, spacing; updates: few requests after a limit; deletion: places; client: honest; liveness: every press is answered, every check ends, every promise is kept | 2 admins, 2 threads, one seat in the store and one in the table of times, so that each press evicts the other's entry; 3 repositories of which 2 run at once and one has two URLs; a container that is restarting or exited, as a start makes no difference between restarting and running; 2 readers in a chat, 2 places, 3 messages; a client through outages |
| `monitor` | slots, one worker in a cycle, budget, drain before close and one late write; liveness: stop and replacement | 1 issue and any number of new objects, budget 2, window 2, 2 slots, 3 workers of which one may die, 2 pools: the one taken down and the one a late write makes |
| `health` | what is called stable was seen lately, snapshot and log follow the levels; liveness: the snapshot converges | the Telegram and the session checker with intervals 3 and 2 against a base of 4, two and three readings, one of them raised, cycles that fail before or after the snapshot, three states of the host |
| `screens` | logs stay private, buttons keep their meaning, pages and offers are right, plugins are stopped, what is shown was true, screens stay owned | 2 viewers and sessions, lists that shrink, 2 adapters on one cache, 1 container and 2 looks, 3 people of whom 2 are admins, names of 24 and 25 characters, every order of plugins, samples: all lists up to 4 entries, logs up to 5, tag sets with undated tags and a date that cannot be read, tables |
| `limiter_ban` | violation: no address is ever banned | 2 addresses, limit 2 below ban threshold 4, as 10 and 5 are below 50 |
| `masker` | violation: a registered name stays visible | 2 threads, 2 texts, one name, one id |
| `buttons` | violation: a button of a plugin brings the wrong screen | the menus of `screens`, alone |

Users are interchangeable and do not share state except in the session store's
capacity and in a group, so one user suffices where neither is the subject. Times are
scaled: what matters is their order, kept by the assumptions. An algorithm without
state is checked on every sample of a bounded size, as an invariant of the initial
states. Types are part of the inductive invariants of section 4 and are proved with them.

Fairness: `guards` assumes that the session clean-up keeps looping until shutdown
(its `wait` is bounded), that a worker finishes what it took up, that the clock runs
and the clean-up of blocks loops, that a request being handled and a rotation under way
proceed; `launcher` that the main thread, a handler on top of it and the polling thread
go on unless they wait for something that does not come; `docker` that a handler
proceeds and an operation ends (Docker's client has its own timeout), that a coroutine
whose request has its time limit goes on, and that a deletion thread runs after its
sleep; `monitor` that started threads run; `health` that the loop is started and goes on, that the clock runs
and the launcher logs the status again and again. Nothing is assumed of users, of signals, of the network, or of anyone to
stop the plugin.

### What the runs found

* A block does not last (`login_block_lost`). A session that never logged in has no
  login time and counts as expired, so the cleanup worker, or a health check that
  asks for statistics, drops the session and its block. The same property fails
  when a worker that read `blocked_until` before the ten-minute block was set
  replaces it with the one-minute block of the burst limiter.
* Seen in ad hoc runs, and not kept as runs: a cleanup between `set_auth_state` and
  `set_login_time` leaves a verified user unauthenticated; two workers record one
  wrong code more than `totp_max_attempts` (the bound that holds is
  `AttemptsBounded`); the third `/getmyid` of a stranger is refused although
  `docs/security.md` calls the command unrestricted.
* No address is banned (`limiter_ban`). A request over the limit is refused before
  it is recorded, while the ban counts recorded requests; `docs/webhook.md` says that
  repeated abuse can lead to a ban.
* A registered name stays visible in the log (`masker`). A text sanitized before the
  registration is cached after it, and served until the next registration.
* The button "CPU usage" of the monitor plugin brings the CPU screen of the bot
  (`buttons`): the core registers the expression "CPU" before any plugin registers its
  own, and an expression is found anywhere in a text.

Met while translating the code; the models contain the behaviour, and the properties
say what holds in spite of it:

* A second SIGINT that arrives while the handler of the first holds
  `_sigint_lock` (`main.py:120`, not reentrant) blocks the main thread for good: the
  state `stuck`. `EveryRequestEnds` therefore excludes it.
* On the graceful path the bot is let go before `shutdown` would stop polling and
  remove the webhook, so neither is called, although the docstring at `main.py:91`
  lists both.
* When polling fails for good the process ends with code 0; `docker-compose.yml:5`
  has `restart: on-failure`, which then does not restart it.
* The main loop can find polling dead between its two tests and start it again
  although an end was requested (`main.py:627`).
* The circuit opens for up to 900 s, but a refusal sleeps 300 s at most, so polling
  is tried while the circuit is open; a refusal then waits for the rest of the
  circuit, however long it asks to wait (`pytmbot_instance.py:316`).
* A rotation that told Telegram and then failed leaves the server deaf to the new
  path until a restart, unless a request still in flight starts another rotation.
* A container operation that runs into its time limit is reported as timed out, but
  the `with` block of the pool waits for its end (`container_manager.py:246`), so the
  "strict timeout guard" of its docstring is none, and the operation may have succeeded.
* The budget of notifications is one for all issues, where `pytmbot.yaml.sample:164`
  speaks of the same issue; an alert whose delivery fails, or for which no budget is
  left, is not sent later.
* A health cycle that fails once leaves the component `health_monitor` critical in every
  later snapshot (`health_system.py:594`), and the overall level with it;
  `docs/health.md:79` says exit code 1 for a degraded bot, `--health-check` gives 0.
* Back-off of image updates: a `Retry-After` that is a date raises and is not recorded;
  a limit that comes late hides the updates already found; a failing `initialize()`
  (`image_updates.py:178`) leaves the press unanswered; an image of another registry is
  compared with its namesake on Docker Hub; only the first update's current tag is shown.
* A deletion whose thread cannot be started keeps its place until the bot is gone
  (`message_deletion.py:335-345`): its user has one less from then on. `PlacesAreHeld`
  says that no other place is lost.
* The key of a pending deletion has no chat (`message_deletion.py`): with two chats, the
  second of two messages with the same id is taken for a duplicate and stays. The
  instance has one chat, and the property holds there; `PromisesHaveKeepers` states for
  any number of chats that this is the only way a promise is lost.
* A page that is made smaller keeps its number, so entries between two such pages are
  skipped (`Paging` states what does hold).
* The name of a container longer than 24 characters pushes the owner's id out of the
  button data (`keyboards.py:308`), and a name with capitals is not found, since the data
  is lowered (`handlers_util/docker.py`): `Screens` promises for the other names.
* The decorator of the second factor deletes the pressed message before the owner is
  checked (`auth_processing.py:65`). The button "back to containers" of the logs has no
  handler (`logs.py:423`).
* All adapters share a cache of one entry, the uptime is cached for ever
  (`psutil/adapter.py:714`), and a reading that fails is shown as zeros.
* The list of containers shows details up to 60 s old although it asks Docker each time,
  and an operation clears no cache.
* A plugin whose registration fails after its name was listed stays in the menu.
* A refusal that asks for more than 300 s is only waited out for 300 s
  (`pytmbot_instance.py:314`); `RefusalRespected` promises the smaller of the two.
* Since no address is ever banned, the file in which the limiter keeps its bans over a
  restart never holds one.

## 4. Proofs

47 theorems in eight modules. Each holds for every value of the constants that meets the
named assumptions: any number of users, threads, messages, pools, containers and
repositories, any limit, period and capacity. Every safety property that a passing run
checks is stated by one of them, with the one exception named at the end.

| Theorem | Says |
|---|---|
| `StoreTypeCorrect`, `CapacityHolds`, `ValidLoginsAreSpared` | the store is well formed and below its cap whatever its callers do, and evicts nobody who can use a login while anything else could go |
| `TypeCorrect` | so are the workers of the login |
| `AttemptsAreBounded` | at most `TotpMax + Workers - 1` wrong codes per session |
| `OnlyAcceptedCodes` | only a worker with an accepted code of that user authenticates a user |
| `LoginImplementsGate` | the login implements `LoginGate` |
| `ACodeWorksOnce` | a code opens one login at most and only replays are refused, through crashes and failed writes |
| `GrantsAreDurable` | a granted code is in the file before the answer, unless its write failed |
| `VerificationImplementsLedger` | the verification implements `CodeLedger`, with its lock, two windows, lazy load, file, failed writes and crashes |
| `UpdatesAreHandledOnce` | an update is handled again only when its entry is over or made room for newer ones; the queue keeps at most one outlived place per further worker |
| `RequestsAreLimited` | the rate limit is exact in both directions, up to the delay of a worker |
| `AccessIsLimited`, `BlocksOnlyGrow` | block at the limit exactly, fewer set-up commands than the limit, no flood of notifications; no block ends early |
| `CurrentNeverExpires`, `RefusedOnlyLate` | the server's own credential never expires; an older one is refused only a period of grace after Telegram stopped using it |
| `LauncherEndsProperly` | a launcher that ends has cleaned up and had a reason |
| `RefusalsAreWaitedOut` | Telegram is not polled before the last refusal is waited out |
| `RequestsRunOut`, `DeathsAreNoticed` | a request to end leaves at most 26 statements, a dead polling thread is looked at within five, and each time somebody can go on |
| `OperationsNeedLogins`, `AnswersAreTrue`, `OperationsAreSpaced` | operations start under a valid login, answers are honest, two operations of one kind are an interval apart unless the table lost the first |
| `ClientsAreHonest` | the Docker client refuses only when Docker did, and is real only if Docker answered lately |
| `CallsRunOut` | a press has seven steps at most, nothing takes it back, and an answered one left no operation running |
| `LimitIsNoticed` | after a limit only requests already under way reach Docker Hub |
| `UpdateAnswersAreTrue`, `ChecksRunOut` | what a check shows follows from its answers; a coroutine of it can always go on, and the steps that are left are bounded by the attempts |
| `PlacesComeBack` | places of the deletion manager are given back, but for threads that could not be started; none is taken beyond the limit |
| `PromisesHaveKeepers` | a message that promises to delete itself is with its handler or with a thread that will delete it, unless another chat uses its number |
| `OneWorkerAtATime`, `SlotsAreAccounted`, `StoreIsClosedLast`, `BudgetIsKept` | the monitor's threads, slots, stop and budget |
| `StopsRunOut`, `DeadWorkersAreReplaced` | once a stop has cleared the flag, every thread and task comes to its end and all slots back; until then a dead worker is replaced within three steps of the supervisor |
| `StableWasSeenLately`, `AdviceFollowsLevel` | what /health calls stable was seen healthy an interval and a cycle ago at most; it asks for no action exactly then |
| `WrongResultsFade` | with steady readings a wrong result only grows older, and none is kept longer than its interval, a pause and two cycles unless a cycle failed |
| `LogsArePrivate` | logs are shown only to the user they were fetched for |
| `ButtonsKeepMeaning`, `ScreensKeepOwners` | a button finds what it was made for or nothing; a screen stays its owner's |
| `PluginsStop` | a plugin that started is stopped at exit |
| `WhatIsShownWasTrue` | readings and views are no older than the caches and the fetch allow |
| `PagesCutTheList`, `LogPagesAdvance` | every item of a list is on exactly one page; cutting logs into pages ends, and no page is too long |
| `OffersAreUpgrades` | a tag offered for another is newer, of its kind and major version, and never the other way round |

Assumptions: the named `ASSUME`s, which the runs evaluate. They ask for finite sets of
users, workers and messages, positive limits, periods and lifetimes, and for the order of
times that the code's own values have: a delay is shorter than a lifetime and a window
(`IntakeConstants`, `ReplayConstants`), a block longer than the suppression
(`AccessConstants`), a sleep no longer than the circuit may stay open
(`PollingConstants`), the interval between operations no longer than the table keeps
their times (`OperationConstants`), a fetch shorter than the cache of images
(`ImageConstants`), ages told apart reach past a lifetime and a fetch
(`ContainerViewsAssumption`), and stopped containers are the ones that do not run
(`HealthConstants`).

The arguments, each an invariant that TLC checked before it was proved:

* `AttemptsAreBounded`: between reading the counter and raising it a worker holds a
  "ticket" of its user; attempts and tickets are counted together, and a ticket is drawn
  only while the counter is below the limit. For the gate: a worker in an accepting
  phase has paid, and only its two calls set state and login time.
* `ReplayInv`: what was granted stays in the memory, or in the file before the memory is
  loaded, for as long as its code can match. Pruning with an old clock keeps more, never
  less, and the cap cannot drop an entry inside its window, since a user has one marker
  per step. `VerificationImplementsLedger` adds nothing to that invariant; it maps each
  step. Registering is the moment at which the code is spent, the write of the file is
  the ledger's saving, and pruning, loading and looking change nothing the ledger sees,
  because what they drop is out of the window.
* `QueueInv`: the last place of a key is its live one. Readings come out of order, so the
  queue is not sorted; but the places behind one that expire before it come from
  different workers that were overtaken, and are counted together with the workers that
  still hold an older reading. There are at most all workers but one, which is why
  outlived places do not pile up. `EnteredInv`: what passed is in the cache for its
  lifetime unless newer entries pushed it out.
* `RateInv`: the kept requests of a user and the times the user passed are matched from
  their ends; a pair differs by the delay at most, and what only one of them still has is
  out of the window.
* `AccessInv`: the workers about to let a set-up command pass are counted with those that
  passed; whoever was counted before a block is set is done before it ends, because a
  block outlasts a worker's delay; and if the middleware has forgotten when it told the
  administrator, the suppression time is over for every worker in flight.
* `RotationInv`: a number is new when it is generated, so accepting it and retiring the
  old one are never about the same credential. `GraceInv`: what Telegram was told last is
  the current credential or the next one, and what it was told before is accepted for the
  grace from the time it was replaced.
* `CallInv`: an operation runs only under a call that was permitted and still waits.
  `RateInv` of `MCDocker_proofs`: a user whose time the table does not hold was never admitted,
  or so long ago that the time expired, or as many others were admitted since as fit.
* `ClientInv`: a client counts as checked only while it is real, and its check is no
  younger than Docker's last answer. `BackoffInv`: nobody enters during a back-off, so
  late requests and those inside are together fewer than may run at once. `PlacesInv`:
  each place is a key, a number of its user and a thread.
  `KeepersInv`: whoever sends a message is alone with it until a thread takes it over, so
  that only a key shared with another chat can make it a duplicate.
* `EndInv`: once the flag is set, some frame of the main thread holds the sessions in its
  hand until the clean-up is complete. `DelayInv`: what is left of the sleeps covers what
  is left of the refusal, over restarts of the thread.
* `WayInv`: a frame that cleans up is at a stage, and the main thread leaves its loop only
  under a request. With it each statement of the main thread, each statement of a handler
  and each SIGINT lowers `WorkLeft`, the statements before the main thread plus those
  that handlers can still put on top: two SIGINTs are served, and the second ends the
  process, so what they do is counted before they come.
* `CheckInv`: a coroutine asleep has an attempt left, and nothing runs for a check that is
  over; so every step lowers `Left`, three steps for each attempt at each URL.
  `SupervisorInv`: the supervisor is there while the plugin is up; each thread of the
  monitor has its own rank, and only the supervisor can put one back, by starting a worker
  if it looked before the stop.
* `WorkersInv`: while the plugin is active only the known thread is alive; afterwards no
  cycle begins. `SlotsInv`: slots taken are held, queued or running, and no queue is
  longer than the slots. `TakenInv`: a pool that was told to stop takes nothing more, so
  what is drained stays drained. `LateInv`: a write after the stop uses up the one cycle
  that was under way. `BudgetInv`: notifications older than those counted are a window
  away from now, and all are a window before the deadline.
* `HealthInv`: a result that is not due is younger than its interval; its age grows by a
  cycle of checks and by the part of the pause that is over, and after a failed cycle
  the critical component of the monitor itself keeps the level from being stable.
* `LogsInv`: a thread past the look-up holds the logs of its own user. `SessionsInv`: a
  session belongs to the buttons of one message or to presses of them, and the buttons of
  a message that nobody disturbs lose it only to a press about to give them another.
* `ImagesInv`: a list begun after the images last changed is what there is; settled
  buttons were made from one, and only such lists are still served. `CardsInv`: protected
  screens belong to admins, and a button carries the owner of its screen or nobody's.
* `PluginsInv`: what runs is entered under its name, loaded and held by handlers; without
  the last, which the property does not ask for, a clean-up would pass it by.
* `ReadingsInv`: the stamp of a cache entry is the time of the call and never younger than
  the reading. `ViewsInv`: an entry that lives is no older than what it says is out of
  date, but for the time of a fetch.

Only model-checked, and to stay so: every liveness property, since liveness rests on
fairness and `ENABLED`; and `PagesAndMenusAreRight`, whose operators walk, fold and sort
sequences, so that it needs induction over data. Of its parts the single steps are
proved, for all lists, logs and tags: `PagesCutTheList`, `LogPagesAdvance` (by the
well-foundedness of the numbers) and `OffersAreUpgrades`.

What a liveness property asks besides fairness is proved, for each of them: that what is
under way only comes nearer its end, in steps that are counted, and that the end it comes
to is the right one.

| Liveness, checked by TLC | Safety, proved |
|---|---|
| `CleanersClean`, `UpdatesGetThrough` | `BlocksOnlyGrow`, `RefusedOnlyLate` |
| `EveryRequestEnds`, `PollingSupervised` | `RequestsRunOut`, `DeathsAreNoticed` |
| `EveryPressAnswered`, `ChecksAreAnswered`, `PromiseKept` | `CallsRunOut`, `ChecksRunOut` and `UpdateAnswersAreTrue`, `PromisesHaveKeepers` |
| `ThreadsSupervised` | `StopsRunOut`, `DeadWorkersAreReplaced` |
| `Converges` | `WrongResultsFade` |

## 5. Plan

Done: core (sessions, login, replay), middlewares, launcher and polling, webhook,
container operations, monitor and store, health, image updates, Docker client, message
deletion, views, menus, plugins, readings; theorems of section 4. Left:

1. The file of the webhook's limiter, once an address can be banned; nested use of a
   Docker client; several chats in the instance of `MessageDeletion`, which is proved for
   any number of them.

An abstract limiter that `RateLimit`, `RequestLimiter` and `MonitorAlerts` would implement
was planned and dropped: `LimitIsExact` and `BudgetHolds` already say over the history
alone how many pass in a window, and the webhook's limiter is a finding.

## 6. Not modelled

Formatting, templates, emojis, the wording of answers, settings, command line, QR codes,
salts, the dashboards of the monitor plugin, Outline's read-only calls, and the figures
in the details of a container or an image: they keep no state beyond a cache keyed by
its input, or their correctness is text. Seen while reading the details of a container:
the restart count is read from the wrong place, "registry:5000/app:tag" is split at the
wrong colon, ports bound for both IPv4 and IPv6 are counted twice, `StopTimeout` is
looked up in `HostConfig`.

Within modelled parts: the file that carries bans over a restart, threads that cannot
be started (except those of a deletion), operation histories nothing reads, counters that only select log lines, the
reading of a tag's name by its pattern, the choice of Docker's URL and certificates.
