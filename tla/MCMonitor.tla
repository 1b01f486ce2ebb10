------ MODULE MCMonitor ------
(* The parts of the legacy monitor, in one run: they share no state that
   another part's properties depend on, so a behaviour exercises one part,
   picked at the start, and leaves the others in their initial state. *)
EXTENDS Collector, MonitorStore, ZaloLinks, MonitorSessions

VARIABLE part

Parts == {"collector", "retention", "migration", "zalo", "auth"}
monitorVars == <<part, collectorVars, retentionVars, migrationVars, zaloVars, authVars>>

MonitorInit ==
    /\ part \in Parts
    /\ CollectorInit /\ (part = "collector" \/ mon = "beszel")
    /\ RetentionInit /\ ZaloInit /\ AuthInit
    /\ MigrationInit /\ (part = "migration" \/ version = 0)

MonitorNext ==
    /\ UNCHANGED part
    /\ \/ part = "collector" /\ CollectorNext /\ UNCHANGED <<retentionVars, migrationVars, zaloVars, authVars>>
       \/ part = "retention" /\ RetentionNext /\ UNCHANGED <<collectorVars, migrationVars, zaloVars, authVars>>
       \/ part = "migration" /\ MigrationNext /\ UNCHANGED <<collectorVars, retentionVars, zaloVars, authVars>>
       \/ part = "zalo" /\ ZaloNext /\ UNCHANGED <<collectorVars, retentionVars, migrationVars, authVars>>
       \/ part = "auth" /\ AuthNext /\ UNCHANGED <<collectorVars, retentionVars, migrationVars, zaloVars>>

\* The interval timer starts a cycle, which ends with a retention batch, every
\* 15 seconds, and systemd restarts the collector.
MonitorFairness ==
    /\ WF_collectorVars(part = "collector" /\ Cycle)
    /\ WF_collectorVars(part = "collector" /\ Restart)
    /\ WF_retentionVars(part = "retention" /\ PruneBatch)

MonitorSpec == MonitorInit /\ [][MonitorNext]_monitorVars /\ MonitorFairness

\* The table incidents tells what was found, and what happened to it reached
\* the outbox.
CollectorIsSound == IncidentsConsistent /\ AlertsFollowIncidents

\* Every delivery ends and every retention run completes.
MonitorProgress == EveryDeliveryEnds /\ RunCompletes
======
