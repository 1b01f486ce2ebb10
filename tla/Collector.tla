------ MODULE Collector ------
(* The legacy monitor's collector process: one cycle probes, evaluates
   (StatusMachine), keeps the incidents of the monitor in step, queues
   alert deliveries for a transition and sends what is due.  Histories
   live in the process and are lost with it; samples, incidents and
   deliveries live in SQLite, every statement a commit of its own, shared
   with the web process, which acknowledges one incident at a time: it reads
   the row, checks it and updates it, and the collector may come in between.
   The SELECT and the UPDATE of upsertIncident are one step: an update of the
   web process between them has the outcome of one before or after both.

   Monitors do not share state, so a behaviour follows one of them, picked
   at the start.  Sources: apps/web/src/server/collector/collector.ts,
   collector-main.ts, alerts/alertService.ts, storage/store.ts. *)
EXTENDS StatusMachine

CONSTANTS
    Watched,       \* the monitors behaviours follow
    ShortWatched,  \* those of them (many samples) followed for fewer cycles
    Recipients,    \* linked or configured recipients of alerts
    HistoryLimit,  \* samples a history keeps (120)
    Cooldown,      \* cycles an opened alert is not repeated (30 minutes)
    LocalOnlyCooldown, \* the same for a backup that has no copy elsewhere (24 hours)
    MaxAttempts,   \* attempts of one delivery (5)
    MaxCycles,     \* bound: cycles that take samples
    ShortCycles,   \* bound: the same for the monitors of ShortWatched
    MaxFaults,     \* bound: crashes and statements that find the database locked
    FaultFree      \* those of ShortWatched followed without any

ASSUME CollectorAssumption ==
    /\ HistoryLimit \in Nat \ {0, 1}
    /\ IsFiniteSet(Recipients)

VARIABLES
    mon,           \* the monitor this behaviour follows
    up,            \* the collector runs
    pc,            \* its place in the cycle
    history,       \* histories.get(mon), in memory
    diskRun,       \* backupDiskSustain, in memory
    ev,            \* the evaluation the cycle works on
    claimed,       \* deliveries claimed by this cycle and not sent yet
    recorded,      \* level of the latest row of monitor_samples
    incidents,     \* table incidents, in order of insertion
    deliveries,    \* table alert_deliveries, in order of insertion
    acknowledging, \* the incident the web process has checked and not updated yet, or 0
    now,           \* cycles so far
    crashes, busy, \* faults so far
    skipped,       \* history: a cycle stored its sample and gave up, and none has reconciled since
    nameless,      \* history: a cycle found no remembered sample that names its incident
    reopened       \* history: the incidents that an acknowledgement has made active again

memory == <<history, diskRun, ev, claimed>>
tables == <<recorded, incidents, deliveries>>
collectorHistory == <<skipped, nameless, reopened>>
collectorVars == <<mon, acknowledging, up, pc, memory, tables, now, crashes, busy, collectorHistory>>

NoEval == [level |-> "unknown", transition |-> "none", key |-> "state", old |-> "state",
           from |-> "unknown", code |-> "none", inc |-> 0]

\* Cycles of the monitor that take a sample.
Horizon == IF mon \in ShortWatched THEN ShortCycles ELSE MaxCycles

FaultBound == IF mon \in FaultFree THEN 0 ELSE MaxFaults

Far == MaxCycles + 1   \* a next attempt a year away

Active(i) == incidents[i].state # "recovered"

-----
CollectorInit ==
    /\ mon \in Watched
    /\ up = TRUE /\ pc = "idle" /\ now = 0 /\ crashes = 0 /\ busy = 0
    /\ history = <<>> /\ diskRun = [warning |-> 0, critical |-> 0]
    /\ ev = NoEval /\ claimed = <<>>
    /\ recorded = "unknown" /\ incidents = <<>> /\ deliveries = <<>>
    /\ skipped = FALSE /\ nameless = FALSE
    /\ acknowledging = 0 /\ reopened = {}

\* The probe of the monitor answers with one of its samples.
Probe(s) ==
    \/ /\ mon \in {"app_liveness", "app_health"} /\ s \in AppSamples(mon) /\ UNCHANGED diskRun
    \/ /\ mon = "app_process" /\ s \in ProcessSamples /\ UNCHANGED diskRun
    \/ /\ mon = "postgres" /\ s \in PostgresSamples /\ UNCHANGED diskRun
    \/ /\ mon \in HostMonitors /\ s \in BeszelSamples(mon) /\ UNCHANGED diskRun
    \/ /\ mon = "errors" /\ s \in ErrorSamples /\ UNCHANGED diskRun
    \/ /\ mon = "cron" /\ s \in CronSamples /\ UNCHANGED diskRun
    \/ /\ mon = "backup"
       /\ \E found \in BackupFindings :
            /\ diskRun' = [warning  |-> ObserveDisk(diskRun.warning, found.disk >= 1),
                           critical |-> ObserveDisk(diskRun.critical, found.disk >= 2)]
            /\ s = BackupSample(found.file, diskRun'.warning, diskRun'.critical, found.offsite)

Samples(m) ==
    CASE m \in {"app_liveness", "app_health"} -> AppSamples(m)
      [] m = "app_process" -> ProcessSamples
      [] m = "postgres" -> PostgresSamples
      [] m \in HostMonitors -> BeszelSamples(m)
      [] m = "errors" -> ErrorSamples
      [] m = "cron" -> CronSamples
      [] OTHER -> {BackupSample(f, w, c, o) : f \in {"stale", "unverified", "good"},
                       w \in {0, Minutes10 + 1}, c \in {0, Minutes10 + 1}, o \in BOOLEAN}

\* The key the incident of the previous samples is filed under: the last one
\* that is not the recovery baseline.
NamedAt == {k \in DOMAIN history : history[k].key # Awaiting}
PreviousKey(e) == IF NamedAt = {} THEN e.key ELSE history[Max(NamedAt)].key

\* remember: evaluate, store the sample, push it on the history.
Remember(s) ==
    LET e == EvaluateMonitor(mon, history, s)
        item == [level |-> s.level, code |-> s.code, met |-> s.met,
                 eff |-> e.level, clear |-> e.clear, key |-> e.key]
        longer == Append(history, item)
        from == EffectiveLevel(history, Len(history))
    IN  /\ recorded' = e.level
        /\ history' = IF Len(longer) > HistoryLimit THEN Tail(longer) ELSE longer
        /\ ev' = [level |-> e.level, transition |-> e.transition, key |-> e.key,
                  old |-> PreviousKey(e), from |-> from, code |-> s.code, inc |-> 0]
        /\ nameless' = (nameless \/ (NamedAt = {} /\ (e.key = Awaiting \/ e.transition = "recovered")))

Observe ==
    /\ up /\ pc = "idle" /\ now < Horizon
    /\ \E s \in Samples(mon) : Probe(s) /\ Remember(s)
    /\ now' = now + 1 /\ pc' = "reconcile"
    /\ UNCHANGED <<mon, acknowledging, up, claimed, incidents, deliveries, crashes, busy, skipped, reopened>>

\* The key of the incident the cycle is about: of the level it found, or of the
\* one that waits for its recovery baseline.
ActiveKey == IF ev.key = Awaiting THEN ev.old ELSE ev.key

ShouldReconcile ==
    \/ ev.level = "healthy" /\ ev.transition # "recovered"
    \/ ev.level \in AlertLevels

\* The incidents a cycle closes: a healthy one all of them.
Others == {i \in DOMAIN incidents : ev.level \in AlertLevels => incidents[i].key # ActiveKey}

Close(closed) ==
    incidents' = [i \in DOMAIN incidents |->
                    IF i \in closed THEN [incidents[i] EXCEPT !.state = "recovered"] ELSE incidents[i]]

\* Mutant of ReconcileIncidents: only incidents nobody acknowledged are closed.
ReconcileOpenOnly == Close({i \in Others : incidents[i].state = "open"})

\* reconcileIncidents: every other active incident of the monitor is closed.
ReconcileIncidents == Close({i \in Others : Active(i)})

Reconcile ==
    /\ up /\ pc = "reconcile"
    /\ IF ShouldReconcile THEN ReconcileIncidents /\ skipped' = FALSE ELSE UNCHANGED <<incidents, skipped>>
    /\ pc' = "upsert"
    /\ UNCHANGED <<mon, acknowledging, up, memory, recorded, deliveries, now, crashes, busy, nameless, reopened>>

\* upsertIncident: the active incident of the key is seen again (its state is
\* set, an acknowledgement included), or a new row is inserted.
UpsertIncident(key, level, state) ==
    LET active == {i \in DOMAIN incidents : incidents[i].key = key /\ Active(i)}
        id == IF active # {} THEN Max(active) ELSE Len(incidents) + 1
        row == [key |-> key, level |-> level, state |-> state]
    IN  /\ incidents' = IF active # {} THEN [incidents EXCEPT ![id] = row]
                        ELSE Append(incidents, row)
        /\ ev' = [ev EXCEPT !.inc = id]

Upsert ==
    /\ up /\ pc = "upsert"
    /\ IF ev.level \in AlertLevels THEN UpsertIncident(ActiveKey, ev.level, "open")
       ELSE IF ev.transition = "recovered"
            THEN UpsertIncident(ev.old, IF ev.from = "warning" THEN "warning" ELSE "critical", "recovered")
            ELSE UNCHANGED <<incidents, ev>>
    /\ pc' = "queue"
    /\ UNCHANGED <<mon, acknowledging, up, history, diskRun, claimed, recorded, deliveries, now, crashes, busy, collectorHistory>>

HasDelivery(inc, kind, since) ==
    \E d \in DOMAIN deliveries :
        deliveries[d].inc = inc /\ deliveries[d].kind = kind /\ deliveries[d].at >= since

EnqueueDelivery(inc, kind) ==
    [inc |-> inc, kind |-> kind, state |-> "queued", attempts |-> 0, due |-> now, at |-> now]

\* The cooldown of an alert: a backup without a copy elsewhere has its own.
QuietTime == IF ev.code = "backup_local_only" THEN LocalOnlyCooldown ELSE Cooldown

\* queueTransitionDelivery: recovery is announced once, an opening once per
\* cooldown and as a reminder after it.
QueueTransition(inc, recovered) ==
    LET kind == IF recovered THEN "recovered"
                ELSE IF HasDelivery(inc, "opened", 0) THEN "reminder" ELSE "opened"
        quiet == IF recovered THEN HasDelivery(inc, "recovered", 0)
                 ELSE HasDelivery(inc, "opened", now - QuietTime)
        rows == [r \in 1..Cardinality(Recipients) |-> EnqueueDelivery(inc, kind)]
    IN  deliveries' = IF quiet THEN deliveries ELSE deliveries \o rows

Queue ==
    /\ up /\ pc = "queue"
    /\ IF ev.transition # "none" THEN QueueTransition(ev.inc, ev.transition = "recovered")
       ELSE UNCHANGED deliveries
    /\ pc' = "claim"
    /\ UNCHANGED <<mon, acknowledging, up, memory, recorded, incidents, now, crashes, busy, collectorHistory>>

Due(d) ==
    /\ deliveries[d].due <= now
    /\ \/ deliveries[d].state = "queued"
       \/ deliveries[d].state \in {"failed", "ambiguous"} /\ deliveries[d].attempts < MaxAttempts

\* claimDueDeliveries: one transaction marks what is due as being sent.
Claim ==
    /\ up /\ pc = "claim"
    /\ LET due == SelectSeq([d \in 1..Len(deliveries) |-> d], Due)
       IN  /\ claimed' = due
           /\ deliveries' = [d \in DOMAIN deliveries |->
                                IF Due(d) THEN [deliveries[d] EXCEPT !.state = "sending", !.attempts = @ + 1]
                                ELSE deliveries[d]]
    /\ pc' = "send"
    /\ UNCHANGED <<mon, acknowledging, up, history, diskRun, ev, recorded, incidents, now, crashes, busy, collectorHistory>>

CompleteDelivery(d) == deliveries' = [deliveries EXCEPT ![d].state = "sent"]

FailDelivery(d, state, due) == deliveries' = [deliveries EXCEPT ![d].state = state, ![d].due = due]

\* Mutant of SendOutcome: a send without an answer is left as it is.
SendOutcomeDropsRetry(d, outcome) ==
    CASE outcome = "sent" -> CompleteDelivery(d)
      [] outcome = "refused" -> FailDelivery(d, "failed", Far)
      [] OTHER -> UNCHANGED deliveries

\* The provider answers one send: delivered, refused for good, or to be tried
\* again (a transient refusal, or no answer: it may have been delivered).
SendOutcome(d, outcome) ==
    CASE outcome = "sent" -> CompleteDelivery(d)
      [] outcome = "refused" -> FailDelivery(d, "failed", Far)
      [] OTHER -> FailDelivery(d, "ambiguous", IF now < Horizon THEN now + 1 ELSE now)

Send ==
    /\ up /\ pc = "send" /\ claimed # <<>>
    /\ \E outcome \in {"sent", "refused", "retry"} : SendOutcome(Head(claimed), outcome)
    /\ claimed' = Tail(claimed)
    /\ UNCHANGED <<mon, acknowledging, up, pc, history, diskRun, ev, recorded, incidents, now, crashes, busy, collectorHistory>>

EndCycle ==
    /\ up /\ pc = "send" /\ claimed = <<>>
    /\ pc' = "idle" /\ ev' = NoEval
    /\ UNCHANGED <<mon, acknowledging, up, history, diskRun, claimed, tables, now, crashes, busy, collectorHistory>>

\* Beyond the bound on samples the cycles only send what is due.
QuietCycle ==
    /\ up /\ pc = "idle" /\ now = Horizon
    /\ \E d \in DOMAIN deliveries : Due(d)
    /\ pc' = "claim"
    /\ UNCHANGED <<mon, acknowledging, up, memory, tables, now, crashes, busy, collectorHistory>>

\* A statement finds the database locked: startCollectorLoop gives up the
\* cycle and keeps the process.
DatabaseBusy ==
    /\ up /\ pc # "idle" /\ crashes + busy < FaultBound
    /\ pc' = "idle" /\ ev' = NoEval /\ claimed' = <<>> /\ busy' = busy + 1
    /\ skipped' = (skipped \/ pc = "reconcile")
    /\ UNCHANGED <<mon, acknowledging, up, history, diskRun, tables, now, crashes, nameless, reopened>>

\* Any other failure ends the process; systemd starts it again.
Crash ==
    /\ up /\ crashes + busy < FaultBound
    /\ up' = FALSE /\ pc' = "idle" /\ crashes' = crashes + 1
    /\ history' = <<>> /\ diskRun' = [warning |-> 0, critical |-> 0]
    /\ ev' = NoEval /\ claimed' = <<>> /\ skipped' = FALSE
    /\ UNCHANGED <<mon, acknowledging, tables, now, busy, nameless, reopened>>

Restart ==
    /\ ~up /\ up' = TRUE
    /\ UNCHANGED <<mon, acknowledging, pc, memory, tables, now, crashes, busy, collectorHistory>>

\* acknowledgeIncident, in the web process: a SELECT and a check, then an
\* UPDATE ... WHERE id = ? that does not look at the state again.
CheckAcknowledge ==
    /\ acknowledging = 0
    /\ \E i \in DOMAIN incidents : Active(i) /\ acknowledging' = i
    /\ UNCHANGED <<mon, up, pc, memory, tables, now, crashes, busy, collectorHistory>>

Acknowledge ==
    /\ acknowledging # 0
    /\ incidents' = [incidents EXCEPT ![acknowledging].state = "acknowledged"]
    /\ reopened' = reopened \cup {i \in {acknowledging} : ~Active(i)}
    /\ acknowledging' = 0
    /\ UNCHANGED <<mon, up, pc, memory, recorded, deliveries, now, crashes, busy, skipped, nameless>>

\* The UPDATE finds the database locked, or the web process ends before it.
AcknowledgeFails ==
    /\ acknowledging # 0 /\ acknowledging' = 0
    /\ UNCHANGED <<mon, up, pc, memory, tables, now, crashes, busy, collectorHistory>>

Cycle == Observe \/ Reconcile \/ Upsert \/ Queue \/ Claim \/ Send \/ EndCycle \/ QuietCycle

CollectorNext == Cycle \/ DatabaseBusy \/ Crash \/ Restart \/ CheckAcknowledge \/ Acknowledge \/ AcknowledgeFails

CollectorSpec == CollectorInit /\ [][CollectorNext]_collectorVars

-----
\* The incidents the collector has opened and not closed.  A recovered one that
\* a late acknowledgement has made active again is not among them.
Open(i) == Active(i) /\ i \notin reopened

\* A monitor has at most one incident that is open or acknowledged, whatever
\* reasons its samples gave, whatever was acknowledged, across restarts and
\* cycles given up half way; next to it only incidents an acknowledgement has
\* made active again after they had recovered.
OneActiveIncident ==
    \A i, j \in DOMAIN incidents : Open(i) /\ Open(j) => i = j

\* Once a cycle has stored its verdict the incidents say what the latest
\* sample says: alerting means an active incident of that level, healthy
\* means none but those made active again by an acknowledgement, or the
\* recovery looked for an incident the table does not have: a cycle before it
\* gave up after it had stored its sample, or a long outage has left no sample
\* that names its reason.
IncidentMatchesLevel ==
    pc = "queue" =>
        /\ recorded \in AlertLevels =>
              \E i \in DOMAIN incidents : Active(i) /\ incidents[i].level = recorded
        /\ recorded = "healthy" /\ ~(ev.transition = "recovered" /\ (skipped \/ nameless)) =>
              \A i \in DOMAIN incidents : ~Open(i)

\* The table incidents tells what the monitor has found.
IncidentsConsistent == OneActiveIncident /\ IncidentMatchesLevel

\* The monitors whose samples give one reason only, and whose level is never
\* unknown once it alerts.
OneReason == AppMonitors \cup {"cron"}

\* No fault so far, and the history has named every incident it was asked for.
Undisturbed == mon \in OneReason /\ crashes = 0 /\ busy = 0 /\ ~nameless

\* If there is anybody to tell, every open incident of such a monitor has been
\* announced by the end of its cycle.
ActiveIsAlerted ==
    Undisturbed /\ Recipients # {} /\ pc = "claim" =>
        \A i \in DOMAIN incidents : Open(i) => \E d \in DOMAIN deliveries : deliveries[d].inc = i

\* An incident of such a monitor that has recovered is announced as recovered,
\* and to every recipient exactly once.
RecoveryIsAnnounced ==
    Undisturbed /\ pc = "claim" =>
        \A i \in DOMAIN incidents : ~Active(i) =>
            Cardinality({d \in DOMAIN deliveries : deliveries[d].inc = i /\ deliveries[d].kind = "recovered"})
                = Cardinality(Recipients)

\* Openings and recoveries reach the outbox.
AlertsFollowIncidents == ActiveIsAlerted /\ RecoveryIsAnnounced

\* Two healthy samples in a row, and no alert since.
Recovered(samples) ==
    \E k \in 2..Len(samples) :
        /\ IsHealthy(samples[k - 1]) /\ IsHealthy(samples[k])
        /\ \A later \in k..Len(samples) : samples[later].eff \notin AlertLevels

\* An incident of such a monitor is closed by two healthy samples in a row: a
\* single good probe in an outage does not close it, whatever fails.  A cycle
\* that gave up may close it later, and a restart forgets the outage: until the
\* new history alerts one sample is enough.
NoFlapping ==
    [][\A i \in DOMAIN incidents :
          mon \in OneReason /\ ~nameless /\ Open(i) /\ incidents'[i].state = "recovered" =>
              \/ Recovered(history)
              \/ crashes + busy > 0 /\ \A k \in DOMAIN history : history[k].eff \notin AlertLevels]_collectorVars

DeliveryEnded(d) ==
    \/ d.state = "sent"
    \/ d.state \in {"failed", "ambiguous"} /\ (d.due = Far \/ d.attempts >= MaxAttempts)
    \/ d.state = "sending" /\ (crashes > 0 \/ busy > 0)

\* Every queued delivery is sent, refused for good or given up after its
\* attempts; only a cycle that ended while it was being sent leaves it in
\* "sending", from where no cycle takes it again.
EveryDeliveryEnds == <>[](\A i \in DOMAIN deliveries : DeliveryEnded(deliveries[i]))

======
