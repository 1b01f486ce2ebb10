------ MODULE ProcessLifecycle ------
(* How an Ops process starts, closes and dies: the start and close
   functions of the API, notifier, processor and SQL worker
   (runtime/main.ts) and of the config agent (index.ts), the one-shot
   commands (telemetry-sdk/src/oneShot.ts) and the listeners for fatal
   errors and signals they install (nodeLifecycle.ts).  The listeners run
   beside the main promise, each with its own timeouts; a capture or a
   flush may hang for ever. *)
EXTENDS Integers, Sequences, FiniteSets

CONSTANTS
    MaxEvents,       \* fatal errors and signals that reach the process
    MaxStepFaults    \* steps of a start or a close that fail

ASSUME ProcessAssumption == MaxEvents \in Nat /\ MaxStepFaults \in Nat

VARIABLES
    service,      \* which process this is
    hangs,        \* what never settles: a subset of {"capture", "flush"}
    mainPc,       \* the main promise: configure, start, serving, closing, telemetry, ended
    steps,        \* what is left of its start or close, in order
    open,         \* the resources that are open, and "telemetry" while bound
    firstFailure, \* the failure the promise will reject with, or "none"
    failures,     \* history: every failure of a step
    reported,     \* the failures that reached captureOpsException
    listeners,    \* the events being handled: number -> [kind, pc]
    eventsSeen, stepFaults,
    exitStatus    \* -1 while the process runs

processVars == <<service, hangs, mainPc, steps, open, firstFailure, failures, reported, listeners,
                 eventsSeen, stepFaults, exitStatus>>

Services == {"api", "notifier", "processor", "worker", "agent", "oneshot"}
EventKinds == {"fatal", "signal"}

\* startOpsApi: credentials, the negotiation with the config agent, the pool,
\* the server; a resource is opened by the step that has its name.
ApiStart == <<"credentials", "negotiate", "pool", "server">>
\* startOpsNotifier and startOpsProcessor: credentials, pool, and the daemon.
NotifierStart == <<"credentials", "pool", "daemon">>
ProcessorStart == <<"credentials", "pool", "daemon">>
\* resolveSqlWorkerCredentials: the key of the protocol, and one URL for every
\* part that is enabled; the explorer needs its cursor key and approval too.
WorkerCredentials == <<"hmac", "read", "mutation", "explorer">>
\* startOpsSqlWorker; the pools one by one are in SqlWorker.
WorkerStart == WorkerCredentials \o <<"pool", "server">>
\* The keys of the agent are loaded, and no two of them may be the same.
AgentKeys == <<"keys", "separation">>
\* startConfigAgent: the handlers recover their journal before the socket is open.
AgentStart == <<"manifest">> \o AgentKeys \o <<"recovery", "server">>
OneShotStart == <<"run">>
StartSteps ==
    [api |-> ApiStart, notifier |-> NotifierStart, processor |-> ProcessorStart,
     worker |-> WorkerStart, agent |-> AgentStart, oneshot |-> OneShotStart]

\* closeOpsApiResources: the server, then the pool, each in a try of its own.
ApiClose == <<"server", "pool">>
\* close of a daemon: its promise is awaited, then the pool is ended.
NotifierClose == <<"daemon", "pool">>
DaemonClose == <<"daemon", "pool">>
WorkerClose == <<"server", "pool">>
AgentClose == <<"server">>
CloseSteps ==
    [api |-> ApiClose, notifier |-> NotifierClose, processor |-> DaemonClose,
     worker |-> WorkerClose, agent |-> AgentClose, oneshot |-> <<>>]

LifecycleInit ==
    /\ service \in Services /\ hangs \in SUBSET {"capture", "flush"}
    /\ mainPc = "configure" /\ steps = StartSteps[service] /\ open = {}
    /\ firstFailure = "none" /\ failures = {} /\ reported = {}
    /\ listeners = <<>> /\ eventsSeen = {} /\ stepFaults = 0 /\ exitStatus = -1

Running == exitStatus = -1
Bound == "telemetry" \in open
Fails(step) == stepFaults < MaxStepFaults /\ step \notin failures
\* captureOpsException: nothing is reported once the binding is disposed.
Report(step) == reported' = IF Bound THEN reported \cup {step} ELSE reported

-----
\* The configuration is read and, before anything else, the telemetry is
\* installed with the listeners of the process.
InstallTelemetry ==
    /\ Running /\ mainPc = "configure"
    /\ mainPc' = "start" /\ open' = {"telemetry"}
    /\ UNCHANGED <<service, hangs, steps, firstFailure, failures, reported, listeners, eventsSeen, stepFaults, exitStatus>>

\* The configuration or the key of the telemetry cannot be read: nothing is
\* bound yet that could report it.
ConfigureFails ==
    /\ Running /\ mainPc = "configure" /\ Fails("configure")
    /\ firstFailure' = "configure" /\ failures' = {"configure"} /\ stepFaults' = stepFaults + 1
    /\ mainPc' = "ended"
    /\ UNCHANGED <<service, hangs, steps, open, reported, listeners, eventsSeen, exitStatus>>

\* A step of the start succeeds: what it opens is open, and after the last one
\* the service serves (a one-shot command has done its work).
StartStep ==
    /\ Running /\ mainPc = "start" /\ steps # <<>>
    /\ open' = open \cup ({"pool", "server"} \cap {Head(steps)})
    /\ steps' = Tail(steps)
    /\ mainPc' = IF Tail(steps) # <<>> THEN "start" ELSE IF service = "oneshot" THEN "telemetry" ELSE "serving"
    /\ UNCHANGED <<service, hangs, firstFailure, failures, reported, listeners, eventsSeen, stepFaults, exitStatus>>

\* A step of the start fails: it is captured, what was opened is closed.  A pool
\* that was created stays to be closed although its first query failed.
StartFails ==
    /\ Running /\ mainPc = "start" /\ steps # <<>> /\ Head(steps) # "daemon" /\ Fails(Head(steps))
    /\ Report(Head(steps))
    /\ firstFailure' = Head(steps) /\ failures' = failures \cup {Head(steps)} /\ stepFaults' = stepFaults + 1
    /\ open' = open \cup ({"pool"} \cap {Head(steps)})
    /\ mainPc' = "closing"
    /\ steps' = IF "pool" \in open' THEN <<"pool">> ELSE <<>>
    /\ UNCHANGED <<service, hangs, listeners, eventsSeen, exitStatus>>

\* close is called; a second call returns the promise of the first (closing ??=).
Close ==
    /\ Running /\ mainPc = "serving"
    /\ mainPc' = "closing" /\ steps' = CloseSteps[service]
    /\ UNCHANGED <<service, hangs, open, firstFailure, failures, reported, listeners, eventsSeen, stepFaults, exitStatus>>

\* One resource is closed; a failure is captured, kept if it is the first, and
\* the next resource is closed all the same.
CloseStep(failed) ==
    LET step == Head(steps) IN
    /\ Running /\ mainPc = "closing" /\ steps # <<>>
    /\ open' = open \ {step}
    /\ steps' = Tail(steps)
    /\ IF failed
       THEN /\ Fails(step) /\ Report(step)
            /\ failures' = failures \cup {step} /\ stepFaults' = stepFaults + 1
            /\ firstFailure' = IF firstFailure = "none" THEN step ELSE firstFailure
       ELSE UNCHANGED <<firstFailure, failures, reported, stepFaults>>
    /\ UNCHANGED <<service, hangs, mainPc, listeners, eventsSeen, exitStatus>>

\* stopRuntimeTelemetry, and the finally of a one-shot command: the telemetry is
\* flushed, fail-open and without a timeout, and the listeners are disposed of.
StopTelemetry ==
    /\ Running /\ mainPc \in {"telemetry", "closing"} /\ steps = <<>> /\ "flush" \notin hangs
    /\ open' = open \ {"telemetry"} /\ mainPc' = "ended"
    /\ UNCHANGED <<service, hangs, steps, firstFailure, failures, reported, listeners, eventsSeen, stepFaults, exitStatus>>

\* Nothing is left to do (the timeout of a listener keeps the process alive): the
\* entry point has set exitCode to 1 if the promise was rejected.
EndOfProcess ==
    /\ Running /\ mainPc = "ended" /\ listeners = <<>>
    /\ exitStatus' = IF firstFailure = "none" THEN 0 ELSE 1
    /\ UNCHANGED <<service, hangs, mainPc, steps, open, firstFailure, failures, reported, listeners, eventsSeen, stepFaults>>

-----
\* An event reaches a listener of the process.
Event(kind) ==
    /\ Running /\ Bound /\ Len(listeners) < MaxEvents
    /\ listeners' = Append(listeners, [kind |-> kind, pc |-> IF kind = "fatal" THEN "capture" ELSE "flush"])
    /\ eventsSeen' = eventsSeen \cup {kind}
    /\ UNCHANGED <<service, hangs, mainPc, steps, open, firstFailure, failures, reported, stepFaults, exitStatus>>

\* Without a listener a fatal error and a signal end the process at once.
UnhandledEvent(kind) ==
    /\ Running /\ ~Bound
    /\ exitStatus' = 1 /\ eventsSeen' = eventsSeen \cup {kind}
    /\ UNCHANGED <<service, hangs, mainPc, steps, open, firstFailure, failures, reported, listeners, stepFaults>>

\* Mutant of BoundedCapture: the capture is awaited without a timeout.
AwaitedCapture(i) ==
    /\ Running /\ listeners[i].pc = "capture" /\ "capture" \notin hangs
    /\ reported' = reported \cup {"fatal"}
    /\ listeners' = [listeners EXCEPT ![i].pc = "flush"]
    /\ UNCHANGED <<service, hangs, mainPc, steps, open, firstFailure, failures, eventsSeen, stepFaults, exitStatus>>

\* boundedCapture: the capture settles, or its timeout ends the wait.
BoundedCapture(i) ==
    /\ Running /\ listeners[i].pc = "capture"
    /\ reported' = IF "capture" \in hangs THEN reported ELSE reported \cup {"fatal"}
    /\ listeners' = [listeners EXCEPT ![i].pc = "flush"]
    /\ UNCHANGED <<service, hangs, mainPc, steps, open, firstFailure, failures, eventsSeen, stepFaults, exitStatus>>

\* boundedFlush, by its end or its timeout, and then active.exit(1) or exit(0).
BoundedFlush(i) ==
    /\ Running /\ listeners[i].pc = "flush"
    /\ exitStatus' = IF listeners[i].kind = "fatal" THEN 1 ELSE 0
    /\ listeners' = [listeners EXCEPT ![i].pc = "done"]
    /\ UNCHANGED <<service, hangs, mainPc, steps, open, firstFailure, failures, reported, eventsSeen, stepFaults>>

ListenerStep(i) == BoundedCapture(i) \/ BoundedFlush(i)

LifecycleNext ==
    \/ InstallTelemetry \/ ConfigureFails \/ StartStep \/ StartFails \/ Close \/ StopTelemetry \/ EndOfProcess
    \/ \E failed \in BOOLEAN : CloseStep(failed)
    \/ \E kind \in EventKinds : Event(kind) \/ UnhandledEvent(kind)
    \/ \E i \in DOMAIN listeners : ListenerStep(i)

LifecycleSpec == LifecycleInit /\ [][LifecycleNext]_processVars

-----
\* When the main promise has settled nothing is open any more, whichever step
\* failed, and every failure was reported but that of the configuration, which
\* comes before anything could report it.
ClosedCompletely ==
    mainPc = "ended" => open = {} /\ failures \ {"configure"} \subseteq reported
\* The exit status is 0 only after a signal, or when nothing failed; and a fatal
\* error is reported before the process exits with 1 unless the capture hangs.
ExitIsHonest ==
    /\ exitStatus = 0 => "signal" \in eventsSeen \/ (failures = {} /\ "fatal" \notin eventsSeen)
    /\ exitStatus = 1 /\ Bound => "fatal" \in reported \/ "capture" \in hangs

LifecycleIsSound == ClosedCompletely /\ ExitIsHonest

\* Again and again: a fatal error that reached the listeners has ended the
\* process, although its capture or its flush never settles.
FatalSettled == DOMAIN listeners = {} \/ ~Running
======
