---------------------------- MODULE HealthChecks ----------------------------
(***************************************************************************)
(* What the checkers of health_system.py and parsers/health_checker.py     *)
(* make of a reading, and how levels add up.  Levels are the numbers of    *)
(* HealthLevel; a reading is a record of what a checker looks at, or it is *)
(* known only that this is not there or that looking at it raised.         *)
(***************************************************************************)
EXTENDS Integers, FiniteSets, FiniteSetsExt

Healthy   == 100
Degraded  == 75
Unhealthy == 50
Critical  == 25
Offline   == 0
Levels    == {Healthy, Degraded, Unhealthy, Critical, Offline}

IsOperational(level) == level >= Degraded

\* The bot is gone, or an adapter, the session manager or the parser is
\* missing; and an error that the checker or its base class catches.
Missing == [look |-> "missing"]
Raised  == [look |-> "raised"]

\* The first level whose condition holds.
Grade(critical, unhealthy, degraded) ==
    IF critical THEN Critical ELSE IF unhealthy THEN Unhealthy
    ELSE IF degraded THEN Degraded ELSE Healthy

\* telegram_api: what get_me came to, the code of an error of the API, and
\* how long it took.
TelegramLevel(r) ==
    Grade(r.answer = "no info" \/ r.code \in {401, 403, 404},
          r.answer = "timeout" \/ (r.answer = "error" /\ r.code \notin {409, 429}),
          r.code \in {409, 429} \/ (r.answer = "info" /\ r.latency > 3000))

\* polling: the attributes polling and polling_thread of the bot.
PollingLevel(r) ==
    IF ~r.polling THEN Unhealthy
    ELSE IF r.thread = "dead" THEN Critical ELSE Healthy

\* system_resources, in percent of the bot's own process.
ResourceLevel(r) ==
    IF ~r.stats THEN Unhealthy
    ELSE Grade(r.memory > 90 \/ r.cpu > 95, r.memory > 80 \/ r.cpu > 90,
               r.memory > 70 \/ r.cpu > 80)

\* sessions: the share of blocked ones, and their number.
SessionLevel(r) ==
    IF r.total = 0 THEN Healthy
    ELSE Grade(FALSE, 2 * r.blocked > r.total,
               10 * r.blocked > 3 * r.total \/ r.total > 1000)

\* template_parser: the cache of templates and the share of failed validations.
TemplateLevel(r) ==
    Grade(FALSE, FALSE,
          \/ r.cache > 80
          \/ r.total > 0 /\ 5 * r.errors > r.total
          \/ r.total > 0 /\ r.errors > 0 /\ 10 * r.errors >= r.total)

Checkers == {"telegram_api", "polling", "system_resources", "sessions", "template_parser"}
Judged(component, r) ==
    CASE component = "telegram_api"     -> TelegramLevel(r)
      [] component = "polling"          -> PollingLevel(r)
      [] component = "system_resources" -> ResourceLevel(r)
      [] component = "sessions"         -> SessionLevel(r)
      [] component = "template_parser"  -> TemplateLevel(r)

\* check_sync of BaseHealthChecker; each checker tells the first for itself.
Level(component, r) ==
    IF r = Missing THEN Offline ELSE IF r = Raised THEN Critical ELSE Judged(component, r)

\* check_all: the worst level, unless it is only UNHEALTHY and seven in ten
\* components are operational.  levels is a function from components.
Overall(levels) ==
    LET worst == Min({levels[c] : c \in DOMAIN levels})
        fit   == {c \in DOMAIN levels : IsOperational(levels[c])}
    IN  IF DOMAIN levels = {} THEN Offline
        ELSE IF worst = Unhealthy /\ 10 * Cardinality(fit) >= 7 * Cardinality(DOMAIN levels)
        THEN Degraded ELSE worst

----------------------------------------------------------------------------
\* The screen of /health, health_summary.py: how the snapshot of the health
\* monitor, the readings of the host and the counters of Docker become one of
\* three levels and recommendations.
ViewLevels == {"healthy", "elevated", "critical"}
Severity(level) == CASE level = "healthy" -> 0 [] level = "elevated" -> 1 [] level = "critical" -> 2

\* Fault: a value on the threshold is still below it.
MetricLevelAbove(value, warning, critical) ==
    IF value > critical THEN "critical"
    ELSE IF value > warning THEN "elevated" ELSE "healthy"

\* _metric_level
MetricLevel(value, warning, critical) ==
    IF value >= critical THEN "critical"
    ELSE IF value >= warning THEN "elevated" ELSE "healthy"

\* _worst_level
WorstLevel(levels) == CHOOSE l \in levels : \A k \in levels : Severity(k) <= Severity(l)

\* _normalize_monitor_level and _MONITOR_TO_RUNTIME_LEVEL; -1 when there is
\* no snapshot yet.
RuntimeLevel(overall) ==
    CASE overall = Healthy -> "healthy"
      [] overall \in {Degraded, -1} -> "elevated"
      [] overall \in {Unhealthy, Critical, Offline} -> "critical"

\* _build_monitor_context: how many components want attention.
AttentionCount(levels) == Cardinality({c \in DOMAIN levels : levels[c] # Healthy})

\* _build_docker_context, d is FALSE when the counters cannot be read; the
\* share of running containers is rounded to a tenth of a percent.
DockerLevel(d) ==
    IF ~d.available THEN "elevated"
    ELSE IF d.total = 0 \/ d.stopped = 0 THEN "healthy"
    ELSE IF 2000 * d.running + d.total >= 2 * 800 * d.total THEN "elevated"
    ELSE "critical"

\* _build_health_context: load is per core, in percent.
ShownLevel(overall, host, d) ==
    WorstLevel({MetricLevel(host.cpu, 70, 85), MetricLevel(host.memory, 70, 85),
                MetricLevel(host.load, 100, 150), DockerLevel(d), RuntimeLevel(overall)})

\* What is advised, by what it is about.
Recommendations(attention, host, d) ==
    LET found == (IF attention > 0 THEN {"components"} ELSE {})
            \cup (IF host.cpu >= 70 THEN {"cpu"} ELSE {})
            \cup (IF host.memory >= 70 THEN {"memory"} ELSE {})
            \cup (IF host.load >= 100 THEN {"load"} ELSE {})
            \cup (IF ~d.available THEN {"docker access"}
                  ELSE IF d.stopped > 0 THEN {"containers"} ELSE {})
    IN  IF found = {} THEN {"no action"} ELSE found
=============================================================================
