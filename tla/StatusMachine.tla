------ MODULE StatusMachine ------
(* The legacy monitor's status machine (apps/web/src/server/collector/
   statusMachine.ts) and the probes that feed it.  A sample is
   
     [level, code, met]
   
   its probe's raw level, its error code ("none" for null) and the values
   of its metrics: 0 below every threshold, 1 at the warning threshold, 2
   at the critical one, -1 not reported.  A remembered sample also carries
   what the evaluation added to its details: eff (effectiveLevel), clear
   (conditionHealthy) and key (the reason part of dedupeKey).  Samples of
   one monitor are one cycle apart, so a duration is a number of samples. *)
EXTENDS Integers, Sequences, SequencesExt, FiniteSetsExt

CONSTANTS
    Minutes5,     \* cycles in 5 minutes
    Minutes10,    \* cycles in 10 minutes
    Services      \* systemd units the host agent reports (strings)

AppMonitors == {"app_liveness", "app_health", "app_process"}
ProbeMonitors == AppMonitors \cup {"postgres"}
HostMonitors == {"beszel", "host_resources", "host_services"}
PassiveMonitors == {"backup", "cron", "errors"}
Monitors == ProbeMonitors \cup HostMonitors \cup PassiveMonitors

Levels == {"unknown", "healthy", "warning", "critical"}
AlertLevels == {"warning", "critical"}

Resources == {"disk", "memory", "cpu", "load"}

Metrics(mon) ==
    CASE mon = "postgres"       -> {"locks", "conn"}
      [] mon = "host_resources" -> Resources
      [] mon = "host_services"  -> Services
      [] mon = "errors"         -> {"burst", "fatal"}
      [] OTHER                  -> {}

Awaiting == "awaiting_recovery_baseline"

-----
(* The probes: the samples each of them can return.                        *)

Sample(mon, level, code) == [level |-> level, code |-> code, met |-> [m \in Metrics(mon) |-> 0]]

AppSamples(mon) ==
    {Sample(mon, "healthy", "none"), Sample(mon, "critical", "app_unreachable")}

ProcessSamples ==
    {Sample("app_process", "healthy", "none"), Sample("app_process", "critical", "process_unavailable")}

PostgresSamples ==
    {Sample("postgres", "critical", "database_unreachable")}
        \cup {[Sample("postgres", "healthy", "none") EXCEPT !.met["locks"] = v[1], !.met["conn"] = v[2]] :
                  v \in {<<0, 0>>, <<1, 0>>, <<0, 1>>, <<0, 2>>}}

\* The hub answers for three monitors; a hub or agent that is down or stale
\* answers for one of them only.
BeszelSamples(mon) ==
    CASE mon = "beszel"         -> {Sample(mon, "healthy", "none"), Sample(mon, "critical", "beszel_agent_down")}
      [] mon = "host_resources" -> {[Sample(mon, "healthy", "none") EXCEPT !.met["memory"] = v[1], !.met["disk"] = v[2]] :
                                        v \in {<<0, 0>>, <<-1, 0>>, <<2, 0>>, <<0, 1>>}}
      [] OTHER                  -> {[Sample(mon, "healthy", "none") EXCEPT !.met = f] : f \in [Services -> 0..1]}

\* Lines of the error log seen in one cycle: none, some of one
\* fingerprint, a burst of another (fingerprints name the reason), a fatal one.
ErrorSamples ==
    {Sample("errors", "healthy", "none"), Sample("errors", "warning", "error_f1"),
     [Sample("errors", "warning", "error_f2") EXCEPT !.met["burst"] = 1],
     [Sample("errors", "warning", "fatal_log_line") EXCEPT !.met["fatal"] = 1]}

CronSamples ==
    {Sample("cron", "healthy", "none"), Sample("cron", "critical", "cron_failure")}

\* observeDiskCondition: a run of observations over the threshold; the gap
\* that ends it is the restart, which clears the runs.
ObserveDisk(run, over) == IF over THEN run + 1 ELSE 0

\* What a cycle may find: all in order, or one thing that is not (the disk at
\* its warning or critical threshold, the newest file, the offsite copy).
BackupFindings ==
    LET good == [disk |-> 0, file |-> "good", offsite |-> TRUE]
    IN  {good} \cup {[good EXCEPT !.disk = d] : d \in 1..2}
            \cup {[good EXCEPT !.file = f] : f \in {"stale", "unverified"}}
            \cup {[good EXCEPT !.offsite = FALSE]}

\* The level of the backup sample: the newest file, then the disk, then the
\* offsite copy.
BackupSample(file, warningRun, criticalRun, offsite) ==
    CASE file = "stale"          -> Sample("backup", "critical", "backup_stale")
      [] file = "unverified"     -> Sample("backup", "critical", "backup_unverified")
      [] file = "good" /\ criticalRun > Minutes10 -> Sample("backup", "critical", "backup_disk_critical")
      [] file = "good" /\ criticalRun <= Minutes10 /\ warningRun > Minutes10 -> Sample("backup", "warning", "backup_disk_warning")
      [] file = "good" /\ criticalRun <= Minutes10 /\ warningRun <= Minutes10 /\ ~offsite -> Sample("backup", "warning", "backup_local_only")
      [] OTHER                   -> Sample("backup", "healthy", "none")

-----
(* Helpers over a history.                                                 *)

IsHealthy(s) == s.level = "healthy"
Failed(s) == ~IsHealthy(s)

FailedAt(samples) == {i \in DOMAIN samples : Failed(samples[i])}

Metric(s, m) == IF m \in DOMAIN s.met THEN s.met[m] ELSE -1
MetricAt(samples, m, least) == {i \in DOMAIN samples : Metric(samples[i], m) >= least}

\* trailing: how many samples at the end of the sequence are among those at the
\* given positions.
Trailing(samples, positions) ==
    Len(samples) - Max({0} \cup (DOMAIN samples \ positions))

Sustained(samples, positions, duration) ==
    /\ Trailing(samples, positions) >= 2
    /\ Trailing(samples, positions) - 1 >= duration

\* effectiveLevel of the sample at position i of a history, "unknown" before it.
EffectiveLevel(history, i) == IF i \in 1..Len(history) THEN history[i].eff ELSE "unknown"

\* Mutant of ClearRun: the new sample counts twice, as if it were already in the
\* history it is counted against.
ClearRunCountsTwice(history, s) ==
    IF IsHealthy(s) THEN 2 + Trailing(history, {i \in DOMAIN history : history[i].clear}) ELSE 0

\* How many trailing samples are clear: the remembered ones by their stored
\* condition, the new one by its raw level.
ClearRun(history, s) ==
    IF IsHealthy(s) THEN 1 + Trailing(history, {i \in DOMAIN history : history[i].clear}) ELSE 0

-----
(* Infrastructure monitors.                                                *)

\* The level each resource has reached, by how long its values have held.
ResourceLevel(samples, r) ==
    LET holds(least, duration) ==
            IF r = "disk" THEN Trailing(samples, MetricAt(samples, r, least)) >= 2
            ELSE Sustained(samples, MetricAt(samples, r, least), duration)
    IN  IF holds(2, IF r = "memory" THEN Minutes5 ELSE Minutes10) THEN "critical"
        ELSE IF holds(1, Minutes10) THEN "warning"
        ELSE "healthy"

ResourceOrder == <<"disk", "memory", "cpu", "load">>

EvaluateResources(samples) ==
    LET at(level) == SelectSeq(ResourceOrder, LAMBDA r : ResourceLevel(samples, r) = level)
        found(level) == Len(at(level)) > 0
        worst == IF found("critical") THEN "critical" ELSE IF found("warning") THEN "warning" ELSE "healthy"
    IN  [level  |-> worst,
         reason |-> IF worst = "healthy" THEN "state" ELSE Head(at(worst)) \o "_" \o worst,
         clear  |-> \A r \in Resources : Metric(Last(samples), r) = 0]

EvaluateInfrastructure(mon, history, s) ==
    LET samples == Append(history, s)
        down(x) == {v \in Services : Metric(x, v) = 1}
        same == IF history = <<>> THEN {} ELSE down(s) \cap down(Last(history))
        twice == Trailing(samples, FailedAt(samples)) >= 2
    IN  CASE mon = "host_resources" -> EvaluateResources(samples)
          [] mon = "beszel" ->
                [level  |-> IF twice THEN "critical" ELSE IF Failed(s) THEN "unknown" ELSE "healthy",
                 reason |-> IF twice THEN "beszel_unavailable" ELSE IF Failed(s) THEN s.code ELSE "state",
                 clear  |-> ~Failed(s)]
          [] OTHER ->
                [level  |-> IF same # {} THEN "critical" ELSE "healthy",
                 reason |-> IF same # {} THEN CHOOSE v \in same : TRUE ELSE "state",
                 clear  |-> down(s) = {}]

\* infrastructureRecovery: hold the alert level until two samples are clear.
InfrastructureRecovery(history, s, clear, previousLevel) ==
    IF ~clear \/ previousLevel \notin AlertLevels
    THEN [level |-> "healthy", transition |-> "none", hold |-> FALSE]
    ELSE IF ClearRun(history, s) < 2
         THEN [level |-> previousLevel, transition |-> "none", hold |-> TRUE]
         ELSE [level |-> "healthy", transition |-> "recovered", hold |-> FALSE]

LevelTransition(level, previousLevel) ==
    IF level # previousLevel /\ level \in AlertLevels
    THEN IF previousLevel = "unknown" THEN "opened" ELSE "changed"
    ELSE "none"

EvaluateHost(mon, history, s) ==
    LET e == EvaluateInfrastructure(mon, history, s)
        previousLevel == EffectiveLevel(history, Len(history))
        r == InfrastructureRecovery(history, s, e.clear, previousLevel)
        previousKey == IF history = <<>> THEN "recovered" ELSE Last(history).key
    IN  IF e.level = "healthy"
        THEN [level |-> r.level, transition |-> r.transition, clear |-> e.clear,
              key |-> IF r.transition # "none" THEN previousKey
                      ELSE IF r.hold THEN Awaiting ELSE e.reason]
        ELSE [level |-> e.level, transition |-> LevelTransition(e.level, previousLevel),
              clear |-> e.clear, key |-> e.reason]

-----
(* Application monitors: the rules of evaluateMonitor in their order, each  *)
(* one overriding the verdict [level, reason] of those before it.          *)

ProbeRule(mon, history, s, previousLevel) ==
    LET samples == Append(history, s)
    IN  CASE mon \in ProbeMonitors /\ Trailing(samples, FailedAt(samples)) >= 2 ->
                [level |-> "critical", reason |-> s.code]
          [] mon \in ProbeMonitors /\ Trailing(samples, FailedAt(samples)) < 2
                /\ previousLevel = "critical" /\ Trailing(samples, DOMAIN samples \ FailedAt(samples)) < 2 ->
                [level |-> "critical", reason |-> Awaiting]
          [] OTHER ->
                [level |-> IF IsHealthy(s) THEN "healthy" ELSE "unknown",
                 reason |-> IF s.code = "none" THEN "state" ELSE s.code]

PostgresRule(history, s, verdict) ==
    LET samples == Append(history, s)
        locked == MetricAt(samples, "locks", 1)
        over(v) == MetricAt(samples, "conn", v)
        now == Len(samples)
        byLocks == IF now \in locked /\ Sustained(samples, locked, Minutes5)
                   THEN [level |-> "critical", reason |-> "waiting_locks_critical"]
                   ELSE IF now \in locked /\ Trailing(samples, locked) >= 2
                   THEN [level |-> "warning", reason |-> "waiting_locks_warning"]
                   ELSE verdict
    IN  IF now \in over(2) /\ Sustained(samples, over(2), Minutes5)
        THEN [level |-> "critical", reason |-> "connections_critical"]
        ELSE IF now \in over(1) /\ Sustained(samples, over(1), Minutes5)
        THEN [level |-> "warning", reason |-> "connections_warning"]
        ELSE byLocks

PassiveRule(s, verdict) ==
    LET own == IF IsHealthy(s) THEN verdict
               ELSE [level |-> s.level, reason |-> s.code]
    IN  CASE Metric(s, "fatal") = 1 -> [level |-> "critical", reason |-> "fatal_log_line"]
          [] Metric(s, "fatal") # 1 /\ Metric(s, "burst") = 1 ->
                [level |-> "critical", reason |-> "error_fingerprint_burst"]
          [] OTHER -> own

ConditionHealthy(s) == IsHealthy(s) /\ \A m \in DOMAIN s.met : s.met[m] <= 0

EvaluateApplication(mon, history, s) ==
    LET previousLevel == EffectiveLevel(history, Len(history))
        probe == ProbeRule(mon, history, s, previousLevel)
        verdict == CASE mon = "postgres"          -> PostgresRule(history, s, probe)
                     [] mon \in PassiveMonitors   -> PassiveRule(s, probe)
                     [] OTHER                     -> probe
        clear == ConditionHealthy(s)
        run == ClearRun(history, s)
        beforeClear == EffectiveLevel(history, Len(history) + 1 - run)
        wasAlert == previousLevel \in AlertLevels
        recovered == clear /\ verdict.level = "healthy" /\ wasAlert /\ run >= 2
        hold == clear /\ verdict.level = "healthy" /\ run < 2
                    /\ (wasAlert \/ beforeClear \in AlertLevels)
        level == IF hold THEN IF wasAlert THEN previousLevel ELSE beforeClear ELSE verdict.level
    IN  IF recovered
        THEN [level |-> "healthy", transition |-> "recovered", clear |-> clear, key |-> verdict.reason]
        ELSE [level |-> level, transition |-> LevelTransition(level, previousLevel), clear |-> clear,
              key |-> IF hold THEN Awaiting ELSE verdict.reason]

EvaluateMonitor(mon, history, s) ==
    IF mon \in HostMonitors THEN EvaluateHost(mon, history, s) ELSE EvaluateApplication(mon, history, s)

======
