------ MODULE AlertScheduler ------
(* The notifier: it turns the activity of issues into rows of the alert
   outbox (apps/notifier/src/outbox, policy/alertPolicy.ts).  A round
   reads a snapshot of the activities that have no delivery yet, and
   inserts one delivery per matching rule, each by a statement of its own
   that skips a key that exists.  Several notifiers may run at once, and
   one may die between two statements. *)
EXTENDS Integers, Sequences, FiniteSets

CONSTANTS
    AlertIssues, Schedulers,
    MinimumSeverity,            \* alert_rules: rule -> least severity, 1 (low) to 4 (critical)
    Severities,                 \* the severities issues are created with
    AlertLimit,                 \* rows read by a round (100)
    DigestDelay,                \* minutes before a digest (5)
    ReminderAfter, EscalationAfter,   \* minutes (5 and 15)
    MaxMinute, MaxChanges, MaxDeaths

ASSUME AlertAssumption ==
    /\ Severities \subseteq 1..4 /\ AlertLimit \in Nat \ {0}
    /\ ReminderAfter \in Nat /\ EscalationAfter \in Nat /\ MaxMinute \in Nat

VARIABLES
    minute,       \* the clock
    issueRow,     \* error_issues: [severity, status, first]; severity 0 before it exists
    activity,     \* error_issue_activity, in the order of occurredAt
    enabledRules, \* alert_rules.enabled
    outbox,       \* alert_deliveries by dedup key: [issue, kind, slot, rule]
    round,        \* per notifier: [pc, at, todo, plan]
    changes, deaths

alertVars == <<minute, issueRow, activity, enabledRules, outbox, round, changes, deaths>>

AlertRules == DOMAIN MinimumSeverity
Critical == 4
NoSlot == -1
Resting == [pc |-> "rest", at |-> 0, todo |-> <<>>, plan |-> {}]

AlertInit ==
    /\ minute = 0 /\ issueRow = [i \in AlertIssues |-> [severity |-> 0, status |-> "none", first |-> 0]]
    /\ activity = <<>> /\ enabledRules = AlertRules /\ outbox = {}
    /\ round = [s \in Schedulers |-> Resting] /\ changes = 0 /\ deaths = 0

Exists(i) == issueRow[i].severity > 0
Record(i, event) == activity' = Append(activity, [issue |-> i, event |-> event, at |-> minute])

-----
\* The processor creates an issue, or reopens a resolved one that occurs again.
CreateIssue(i, severity) ==
    /\ ~Exists(i)
    /\ issueRow' = [issueRow EXCEPT ![i] = [severity |-> severity, status |-> "new", first |-> minute]]
    /\ Record(i, "created")
    /\ UNCHANGED <<minute, enabledRules, outbox, round, changes, deaths>>
Regress(i) ==
    /\ issueRow[i].status = "resolved"
    /\ issueRow' = [issueRow EXCEPT ![i].status = "regressed"]
    /\ Record(i, "regressed")
    /\ UNCHANGED <<minute, enabledRules, outbox, round, changes, deaths>>
\* An operator moves an issue on, or disables a rule.
ChangeIssue(i, status) ==
    /\ Exists(i) /\ changes < MaxChanges /\ changes' = changes + 1 /\ issueRow[i].status # status
    /\ issueRow' = [issueRow EXCEPT ![i].status = status]
    /\ IF status = "resolved" THEN Record(i, "resolved") ELSE UNCHANGED activity
    /\ UNCHANGED <<minute, enabledRules, outbox, round, deaths>>
DisableRule(r) ==
    /\ changes < MaxChanges /\ changes' = changes + 1 /\ r \in enabledRules
    /\ enabledRules' = enabledRules \ {r}
    /\ UNCHANGED <<minute, issueRow, activity, outbox, round, deaths>>
MinutePasses ==
    /\ minute < MaxMinute /\ minute' = minute + 1
    /\ UNCHANGED <<issueRow, activity, enabledRules, outbox, round, changes, deaths>>

-----
\* The kinds of delivery that settle an activity.
Settles(event) == IF event = "created" THEN {"new", "digest"} ELSE {event}

\* The first query of schedule: activities of issues that are not ignored and
\* have no delivery of their kind, the newest first, with the issue as it is.
Waiting(a) ==
    /\ issueRow[a.issue].status # "ignored"
    /\ ~\E d \in outbox : d.issue = a.issue /\ d.kind \in Settles(a.event)
Candidate(a) == [issue |-> a.issue, event |-> a.event, at |-> a.at, row |-> issueRow[a.issue]]
\* ORDER BY and LIMIT: the first of the activities, in their order (1) or from
\* the newest on (-1).
FirstRows(of, order) ==
    LET n == IF Cardinality(of) < AlertLimit THEN Cardinality(of) ELSE AlertLimit
    IN  {f \in [1..n -> of] :
            /\ \A a, b \in 1..n : a < b => order * f[a] < order * f[b]
            /\ \A k \in of : order * k <= order * f[n] => \E a \in 1..n : f[a] = k}
ActivityRows ==
    {[k \in DOMAIN f |-> Candidate(activity[f[k]])] :
        f \in FirstRows({k \in DOMAIN activity : Waiting(activity[k])}, -1)}

\* The second query: critical issues that are still new, the oldest first.
IsCritical(a) ==
    a.event = "created" /\ issueRow[a.issue].severity = Critical /\ issueRow[a.issue].status = "new"
CriticalRows(now) ==
    {[k \in DOMAIN f |-> [issue |-> activity[f[k]].issue, event |-> "tick", at |-> now,
                           row |-> issueRow[activity[f[k]].issue]]] :
        f \in FirstRows({k \in DOMAIN activity : IsCritical(activity[k])}, 1)}

\* planIssueAlerts: what an event of an issue makes due, with its key.
PlanIssueAlerts(c, now) ==
    LET elapsed == c.at - c.row.first IN
    IF c.row.status = "ignored" THEN {}
    ELSE
    CASE c.event \in {"resolved", "regressed"} -> {[kind |-> c.event, slot |-> c.at]}
      [] c.event = "created" ->
            IF c.row.severity = Critical THEN {[kind |-> "new", slot |-> NoSlot]}
            ELSE {[kind |-> "digest", slot |-> c.at + DigestDelay]}
      [] c.event = "tick" /\ elapsed >= EscalationAfter -> {[kind |-> "escalation", slot |-> NoSlot]}
      [] c.event = "tick" /\ elapsed >= ReminderAfter /\ elapsed < EscalationAfter ->
            {[kind |-> "reminder", slot |-> NoSlot]}
      [] OTHER -> {}

\* scheduleIssueAlerts: one delivery per planned alert and matching rule.
Deliveries(c, now) ==
    {[issue |-> c.issue, kind |-> p.kind, slot |-> p.slot, rule |-> r] :
        p \in PlanIssueAlerts(c, now), r \in {x \in enabledRules : c.row.severity >= MinimumSeverity[x]}}

-----
Set(s, r) == round' = [round EXCEPT ![s] = r]

\* schedule(now) begins with the query of the activities.
ReadActivities(s) ==
    /\ round[s].pc = "rest"
    /\ \E rows \in ActivityRows : Set(s, [pc |-> "activities", at |-> minute, todo |-> rows, plan |-> {}])
    /\ UNCHANGED <<minute, issueRow, activity, enabledRules, outbox, changes, deaths>>
\* enqueue of the next row reads the rules.
EnqueueAlert(s) ==
    /\ round[s].pc # "rest" /\ round[s].plan = {} /\ round[s].todo # <<>>
    /\ Set(s, [round[s] EXCEPT !.plan = Deliveries(Head(round[s].todo), round[s].at), !.todo = Tail(@)])
    /\ UNCHANGED <<minute, issueRow, activity, enabledRules, outbox, changes, deaths>>
\* INSERT ... ON CONFLICT (dedup_key) DO NOTHING; the rules are read in no order.
InsertDelivery(s) ==
    \E delivery \in round[s].plan :
    /\ outbox' = outbox \cup {delivery}
    /\ Set(s, [round[s] EXCEPT !.plan = @ \ {delivery}])
    /\ UNCHANGED <<minute, issueRow, activity, enabledRules, changes, deaths>>
ReadCritical(s) ==
    /\ round[s].pc = "activities" /\ round[s].plan = {} /\ round[s].todo = <<>>
    /\ \E rows \in CriticalRows(round[s].at) : Set(s, [round[s] EXCEPT !.pc = "ticks", !.todo = rows])
    /\ UNCHANGED <<minute, issueRow, activity, enabledRules, outbox, changes, deaths>>
\* The loop of startOpsNotifier waits and starts the next round.
EndOfRound(s) ==
    /\ round[s].pc = "ticks" /\ round[s].plan = {} /\ round[s].todo = <<>>
    /\ Set(s, Resting)
    /\ UNCHANGED <<minute, issueRow, activity, enabledRules, outbox, changes, deaths>>
\* A statement fails, which ends the loop and the process, or the process is
\* killed; it is started again.
NotifierDies(s) ==
    /\ round[s].pc # "rest" /\ deaths < MaxDeaths
    /\ Set(s, Resting) /\ deaths' = deaths + 1
    /\ UNCHANGED <<minute, issueRow, activity, enabledRules, outbox, changes>>

SchedulerStep(s) ==
    ReadActivities(s) \/ EnqueueAlert(s) \/ InsertDelivery(s) \/ ReadCritical(s) \/ EndOfRound(s)

AlertNext ==
    \/ \E i \in AlertIssues, v \in Severities : CreateIssue(i, v)
    \/ \E i \in AlertIssues : Regress(i) \/ \E t \in {"acknowledged", "resolved", "ignored"} : ChangeIssue(i, t)
    \/ \E r \in AlertRules : DisableRule(r)
    \/ MinutePasses
    \/ \E s \in Schedulers : SchedulerStep(s) \/ NotifierDies(s)

AlertSpec == AlertInit /\ [][AlertNext]_alertVars

-----
FirstAlert(i, r) == {d \in outbox : d.issue = i /\ d.rule = r /\ d.kind \in {"new", "digest"}}

\* However many notifiers run, and whenever one dies and repeats its round, a
\* rule is told of a new issue once, of its reminder and escalation once, and of
\* a resolution or regression only if one happened in that minute.
AlertedOnce ==
    /\ \A i \in AlertIssues, r \in AlertRules : Cardinality(FirstAlert(i, r)) <= 1
    /\ \A d \in outbox :
         d.kind \in {"resolved", "regressed"} =>
            \E k \in DOMAIN activity :
                activity[k].issue = d.issue /\ activity[k].event = d.kind /\ activity[k].at = d.slot

\* Again and again: as long as no notifier dies in a round, every rule that matches a new issue
\* is told of it, and of a critical one that stays new it is told again when it
\* is due, unless the issue is ignored or the rule is disabled first.
AlertsSettled ==
    \A i \in AlertIssues, r \in AlertRules :
        LET settled == issueRow[i].status = "ignored" \/ r \notin enabledRules \/ deaths > 0 IN
        /\ (Exists(i) /\ issueRow[i].severity >= MinimumSeverity[r]) => (FirstAlert(i, r) # {} \/ settled)
        /\ (Exists(i) /\ issueRow[i].severity = Critical)
              => (settled \/ issueRow[i].status # "new" \/ issueRow[i].first + EscalationAfter > MaxMinute
                          \/ \E d \in outbox : d.issue = i /\ d.rule = r /\ d.kind = "escalation")
======
