------ MODULE MCServices ------
(* The services that never stop, in one run: the spool of a server process,
   the queue of the processor, the notifier, the life of a process, the
   runtime actions of the agent and the audit ledger.  They meet only through
   rows and requests the others leave as they are, so a behaviour exercises
   one part, picked at the start. *)
EXTENDS ServerSpool, AlertScheduler, ProcessLifecycle, ProcessorQueue, RuntimeActions, AuditLedger

VARIABLE part

\* One rule for every issue, one for critical issues.
TheRules == [all |-> 1, critical |-> 4]

CONSTANTS p1, p2, f1, u1

\* Two payloads of one issue, one with a user and one without.
TheFingerprint == (p1 :> f1) @@ (p2 :> f1)
TheUserRef == (p1 :> u1) @@ (p2 :> NoValue)

\* Three health checks, one of which reads a body.
TheChecks == <<1, 2, 1>>

Parts == {"spool", "alerts", "process", "queue", "actions", "ledger"}
servicesVars == <<part, spoolVars, alertVars, processVars, vars, runtimeVars, ledgerVars>>

ServicesInit ==
    /\ part \in Parts
    /\ ServerSpoolInit
    /\ AlertInit
    /\ LifecycleInit /\ (part = "process" \/ (service = "api" /\ hangs = {}))
    /\ Init
    /\ RuntimeInit
    /\ LedgerInit

ServicesNext ==
    /\ UNCHANGED part
    /\ \/ part = "spool" /\ ServerSpoolNext
            /\ UNCHANGED <<alertVars, processVars, vars, runtimeVars, ledgerVars>>
       \/ part = "alerts" /\ AlertNext
            /\ UNCHANGED <<spoolVars, processVars, vars, runtimeVars, ledgerVars>>
       \/ part = "process" /\ LifecycleNext
            /\ UNCHANGED <<spoolVars, alertVars, vars, runtimeVars, ledgerVars>>
       \/ part = "queue" /\ Next
            /\ UNCHANGED <<spoolVars, alertVars, processVars, runtimeVars, ledgerVars>>
       \/ part = "actions" /\ RuntimeNext
            /\ UNCHANGED <<spoolVars, alertVars, processVars, vars, ledgerVars>>
       \/ part = "ledger" /\ LedgerNext
            /\ UNCHANGED <<spoolVars, alertVars, processVars, vars, runtimeVars>>

\* The event loop runs every pending step; the backoff of the spool elapses
\* whether or not flushes are asked for, the loops of the notifier and of the
\* processor never stop, timers fire, and output is closed by whoever is gone.
ServicesFairness ==
    /\ SF_spoolVars(part = "spool" /\ BackoffOver)
    /\ \A p \in Senders : WF_spoolVars(part = "spool" /\ ServerSpoolStep(p))
    /\ WF_alertVars(part = "alerts" /\ MinutePasses)
    /\ \A s \in Schedulers : WF_alertVars(part = "alerts" /\ SchedulerStep(s))
    /\ \A i \in 1..MaxEvents : WF_processVars(part = "process" /\ i \in DOMAIN listeners /\ ListenerStep(i))
    /\ \A w \in Workers :
          /\ WF_vars(part = "queue" /\ WorkerStep(w))
          /\ WF_vars(part = "queue" /\ ClaimNext(w))
          /\ WF_vars(part = "queue" /\ ReleaseExpiredClaims(w))
    /\ \A c \in ActionCallers : WF_runtimeVars(part = "actions" /\ ActionAnswers(c))
    /\ \A k \in ActionKeys : WF_runtimeVars(part = "actions" /\ ActionTimer(k)) /\ WF_runtimeVars(part = "actions" /\ CloseAction(k))
    /\ WF_runtimeVars(part = "actions" /\ AskProbe) /\ WF_runtimeVars(part = "actions" /\ ProbeTimer)

ServicesSpec == ServicesInit /\ [][ServicesNext]_servicesVars /\ ServicesFairness

\* Processes start, end and report failures as they should, and what they start
\* is started once and not left behind.
ProcessesAreSound == LifecycleIsSound /\ RuntimeIsSound

\* Again and again nothing is left to do: what was spooled is settled, accepted
\* envelopes and matching alerts are, a fatal error has ended the process, and
\* actions and health runs have ended.  There are finitely many of each, so
\* every one of them is settled.
ServicesProgress ==
    []<>(/\ SpoolSettled /\ EnvelopesSettled /\ AlertsSettled /\ FatalSettled /\ ActionsSettled
         /\ part = "actions" => HealthSettled)
======
