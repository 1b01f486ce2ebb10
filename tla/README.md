# Formal models of nancy-man's operations platform

nancy-man is an operations platform: an API and a web interface with which owners
watch services, explore databases, handle telemetry and incidents, and change the
configuration of the applications on a host. This directory holds TLA+ models of its
components, TLC configurations that check them on small instances, and TLAPS proofs of
their safety for instances of any size: every safety property that a run finds to hold
is also proved. Source paths
below are relative to the repository root; a path that starts with `changes/` is below
`apps/config-agent/src/`.

Run a configuration with `tlc -workers 2 -config <cfg> <module>` and the proofs with
`tlapm <module>_proofs.tla`. `PROJECT.json` lists every run, the source lines behind
every definition, a mutant per property, the findings, the hazards and the theorems.

## The system

| Component | State | Operations | Hard behaviour |
|---|---|---|---|
| Apply coordinator, `changes/applyCoordinator.ts` | locks, `activeApplications`, one state machine per run | `apply`: verify, lock, snapshot, write, action, health, or roll back | runs interleave at every await; any call fails before or after its effect |
| Agent handlers, journal, recovery, `changes/runtimeHandlers.ts`, `changes/changeRecovery.ts` | `changes`, `blockedApplications`, apply journal on disk, drafts, envelopes, snapshots | validate, save, apply, cancel, status, clear block, start-up recovery | process killed between two steps, failing journal writes, requests during a run |
| Configuration change API, `apps/api/src/modules/variables/` | `ops_config_changes`, `_change_items`, `_runs`, `_application_blocks`, monitors in memory | create, validate, save, apply, cancel, status, clear block | overlapping requests, lost answers, restart of the API or of the agent, polling races |
| Source files, runtime actions, health checks of the agent | files under a release link, child processes, timers | read, replace, run an action once, probe | edits between two system calls, helpers that outlive their action, timeouts |
| Draft, snapshot and artifact stores, retention, `changes/{draftStore,snapshotStore,artifactStorage}.ts`, `cleanup/` | encrypted files and an index per directory | put, read, delete, expire | the index is rewritten without a lock by two processes |
| Inventory and validation of the agent | none; the sources are read again | list definitions, validate a change, serialize | sources change between what was shown and what is validated |
| Agent protocol, `protocol/authenticatedServer.ts`, `apps/api/src/infrastructure/configAgentClient.ts` | remembered request ids | one authenticated exchange per connection | copies, clock window, handlers that go on after a timeout |
| Variables inventory API and routes | unlock grants in memory and in the database, step-up bindings | unlock, read, stage, save, apply, lock, event stream | lost and late answers, state read before an await |
| Telemetry ingest, `apps/api/src/modules/ingest/` | nonces, rate counters, raw envelopes | authenticate, count, insert a batch | replays, window boundaries, one envelope of a batch failing |
| Processor, `apps/processor/src/` | claims, issues, dead letters | claim, process, retry, dead-letter | claims that time out under a slow worker, crashes |
| Notifier, `apps/notifier/src/` | outbox of deliveries | read new activity, insert deliveries | duplicate scheduling, death between two insertions |
| Authentication, step-up, accounts | accounts, sessions, one-time grants, enrolments | login, enrol, elevate, lock, promote, recover | two requests that use one grant, changes during a login |
| SQL elevation and read previews | elevations, preview records, nonces | preview | replayed commands, sliding windows |
| SQL worker: targets, pools, mutation previews, restores | pools, latest probes | start, probe, preview, close | overlapping probes, close during a probe |
| Database explorer API: PII grants and schema views | grants, audit entries | reveal, view, hide, logout | revocation between two statements, failing audit |
| Explorer queries, cursors, schema cache | cached schema, sealed cursors | first page, next page, related page | writes and migrations between two pages |
| Issues, incidents, releases | workflow rows | transitions | overlapping transitions |
| Audit ledger | hash chain | append | concurrent appends, lost connections |
| Telemetry SDK | bounded spools, deferred captures | capture, flush, retry | full spool, two processes or tabs, shutdown |
| Service processes | listeners, pools, sockets | start, close, fatal error | steps that fail or hang, signals during a close |
| Legacy monitor: collector, status machine, alerts, `apps/web/src/server/` | histories, incidents, deliveries | sample, evaluate, alert, retry | hysteresis, locked database, crash |
| Legacy monitor: store, links, sessions | SQLite tables | retention, migration, link codes, login | death between two commits, webhook delivered twice, command line beside the server |
| Web user interface: database explorer page, variables page | selections, staged edits, generations | select, reveal, hide; unlock, stage, save, apply | answers in any order, unmount |
| Deployment scripts, `deploy/ops/` | releases, units, pointers | prepare, activate, roll back, deploy the agent | failing steps, killed scripts, services that die meanwhile |
| Agent adapters, encryption, SQL classification, other pages, migrations, drills, analysers | | | not modelled, see the end |

How they interact: the variables page sends requests to the API; a request changes a
row of `ops_config_changes` and calls the agent over a socket; the agent stages an
encrypted envelope, and `apply` starts a run in the background; the run records events
in the journal and in memory; the API polls these events and moves the row along. A run
that cannot be rolled back blocks its application, in the agent and in the database,
until an owner clears the block. Errors go from the SDK's spools through the ingest
gate into a queue, from there into issues, and from the issues' activity into the
notifier's outbox. Explorer requests pass sessions and grants in the API and reach the
SQL worker as signed commands. The legacy monitor has a process and a database of its
own. What makes this correct:

- **coordinator**: one run per application at a time; what a run reports as rolled
  back is rolled back; what it reports as completed is applied; one failure is rolled
  back; every run ends and gives its locks back;
- **agent**: a run that is killed is found again and undone before the agent serves;
  a failed rollback keeps its application blocked over a restart; final records stay
  final; every restart ends;
- **change API**: a cancelled change is not applied; what the agent applies is what the
  database saved; the row reports success only of a run that succeeded; the audit
  trail has no gap; a recorded failure leads to a block;
- **agent files and protocol**: a replaced file is the one that was read; evidence is
  kept while it is needed; a request is executed at most once and inside its window;
- **telemetry**: an accepted report is counted once or recorded as given up; counters,
  status and activity of an issue agree; an activity is announced once per rule;
- **accounts and grants**: an active owner remains, nobody locked has a session, a
  grant is used once, personal data is shown only under a live grant and audited;
- **pages**: what is shown belongs to what is selected; what is applied was confirmed;
- **explorer**: a row that is there all the time is shown once over all pages;
- **releases**: a failed activation leaves the old release running.

## Modules

| Module | Models |
|---|---|
| `ApplyStateMachine` | the transition table of `applyStateMachine.ts` |
| `ApplyPromise` | abstract: what an apply promises its caller |
| `ApplyCoordinator` | `performApply` and its dependencies, and the properties of a run |
| `ConfigAgent` | extends `ApplyCoordinator` with handlers, journal, blocks, crash, restart, recovery |
| `ConfigChange` | the transition table of `changeStateMachine.ts`, `ConfigChangeService`, its repository and the agent as the service sees it |
| `VariablesPage` | the variables page and its routes: unlock, stage, save, step-up, apply, lock |
| `VariableDraft` | inventory, precedence, validation and serialization of a change |
| `SourceFile`, `RuntimeActions` | one source file read and replaced call by call; child processes and probes |
| `ArtifactStore` | the encrypted artifacts, their index, expiry and cleanup |
| `AgentProtocol` | one request over the agent's socket |
| `ServerSpool`, `BrowserSpool`, `ExceptionCapture` | the telemetry SDK on a server, in tabs, and around one error |
| `IngestGate`, `ProcessorQueue` | what a report passes before it is stored; the queue and the issues |
| `AlertScheduler` | the notifier |
| `ProcessLifecycle` | start, close and fatal errors of the service processes |
| `AuditLedger` | appends to `ops_audit_entries` |
| `OpsAccounts` | login, enrolment, sessions, elevations, account changes |
| `ExplorerPage`, `ExplorerAccess`, `KeysetPages` | database explorer: the page, grants and audited views, paging |
| `SqlWorker` | a read preview from the API to the worker; the worker's pools and probes |
| `StatusMachine`, `Collector` | evaluation of a monitor; incidents, alerts, deliveries |
| `MonitorStore`, `ZaloLinks`, `MonitorSessions` | the monitor's SQLite store, link codes, logins |
| `ReleaseActivation`, `AgentDeploy` | the deployment scripts |
| `MCApplyCoordinator`, `MCConfigAgent`, `MCConfigChange` | instances for TLC |
| `MCServices`, `MCMonitor`, `MCConsole`, `MCOperations` | instances that hold several modules side by side |
| `ApplyCoordinator_proofs`, `ConfigAgent_proofs`, `ConfigChange_proofs` | TLAPS proofs of the change of a configuration |
| `Services_proofs`, `Monitor_proofs`, `Console_proofs`, `Operations_proofs`, `Deployment_proofs` | TLAPS proofs of the parts in the suite of the same name, whose module defines the properties that name two or more of them; `Deployment_proofs` has those of `MCOperations` on the deployment scripts and the explorer's pages |

`ConfigAgent` composes with `ApplyCoordinator` by extending it: its journal determines
the outcome that the coordinator leaves open. The four suites compose modules that
share no state: a behaviour picks one of them at the start and leaves the others in
their initial state, so that the state spaces add and are not multiplied.

### ApplyCoordinator and ApplyPromise

`pc[c]` names the call the run of change `c` makes next; every await of `performApply`
is the boundary of a step. The state machine (`machine`), the staged payload (`plan`)
and the remembered release (`prev`) are the run's local variables. `source` is the
content of the files, `loaded` what the consumers of each file run with. A content is
named by the change that wrote it, so equal fingerprints mean equal contents. A call
fails in the way the code can observe: before its effect, or after it (a rename that
took place before the error). `OnError` is the shape of the nested catch blocks. The
journal is a parameter: an emitting step takes the outcome `ok` of `persistEvent`; on
its own the module leaves it open (within `MaxJournalFaults`), in `ConfigAgent` the
journal determines it.

Abstractions: store operations are atomic (`ArtifactStore` takes them apart); files are
written, locked and restored one at a time in any order (the code uses the order of the
payload, which is one of them); a snapshot or an envelope is the image of the files it
was made from; the actions that restart a unit and those that reload one are one kind. A
change has at most one action, while the code locks, runs and rolls back each of its sorted
action ids (`applyCoordinator.ts:223`, `:246`, `:326`): a failure between two of them is in the
model the failure of the one action after it took effect, and the order in which two runs
wait for several action locks is not exercised (the ids are sorted, `validationService.ts:363`).

`ApplyPromise` knows files, saved images, one holder per application and the result of
each change. `ImplementsPromise` is its specification under the mapping below; the
coordinator's other steps leave the four variables as they are.

| `ApplyPromise` | `ApplyCoordinator` | | Step of the promise | Step of the run |
|---|---|---|---|---|
| `content` | `source` | | `Take`, `Refuse` | `AcquireApplicationLock`, `Reject` |
| `saved` | `snapshot` | | `Save`, `Put` | `CaptureSnapshot`, `WriteSource` |
| `holder` | `appLock` | | `GiveBack`, `Finish` | `RestoreSource`, `Emit` and `RollbackFailed` |
| `result` | `outcome` | | `Release`, `Forget`, `Alter` | `Finally`, `ExpireSnapshot`, `Edit` |

### ConfigAgent

Adds the agent's memory (`chg`, `blocked`), the journal with one record per run, and
the phases of the process (`up`): serving, killed, recovering, given up. `Crash` may
happen between any two steps and forgets every variable in memory; `Restart` rebuilds
`blocked` from the journal and queues unfinished records; a record without writes is
resumed by a new run, one with writes is rolled back from its snapshot, as in
`recover`. `MinSequence` is the lower bound that `journalRecords` puts on a record's
sequence number. The code has 1, and the coordinator numbers its first event 0; so
with the code's value no run gets past its first record (run `agent_fault_free`). With
0 the rest of the design can be examined (run `agent_design`). `torn` and `cleared` are
history variables: runs killed between a write and the record that tells of it, and
failures whose block an owner cleared.

### ConfigChange

A task is a request in progress or a monitor; each of its steps is one transaction or
one call to the agent. Rows carry the version the code's compare-and-set uses; `runs`
is the audit table with its uniqueness on version and idempotency key. The agent is
`ConfigAgent` seen through its responses: it accepts, stages, starts a run, records
events, restarts and resumes. `run` is a run in the agent's memory, `journal` the last
state its journal has of it, and a restart leaves only the latter; `starts` counts the
runs begun for a change. The journal is modelled as readable, since otherwise every
apply fails at once. A call fails before or after its effect (`MaxLost`). The delay
between polls is left out: the polls happen at any time, at most `MaxPolls` of them. A
failed validation is a failing call. Requests of one owner come from `VariablesPage` in
the code; here any request may come at any time, which includes those.

### VariablesPage and VariableDraft

`VariablesPage` has the page's state, one record per request in flight with what its
function captured, and the server's maps of unlocks and of step-up bindings beside the
rows of the changes. A step is one resumption of an asynchronous function of the page
or one stretch of a route between two awaits. Answers come in any order or not at all;
the page may be reloaded. `VariableDraft` models what the agent answers: it reads one
source after the other, orders definitions by rank, and validates a change against
sources read again. A source is the sequence of its definitions, a fingerprint is what
it was taken of, text formats are left out.

### SourceFile, RuntimeActions, ArtifactStore, AgentProtocol

`SourceFile` steps through the system calls of `readSafeSourceFile` and of the atomic
replacement, while an operator edits in place, replaces, links, changes the mode or
switches the release. `RuntimeActions` has an operation per run and action key, the
process group with a helper that keeps the output open, the limits on output and time,
and the chain of health checks. `ArtifactStore` splits put and delete at the file, the
reading and the writing of the index, for the agent and for the cleanup process.
`AgentProtocol` has both ends of a connection with one clock, a frame in two chunks,
the client's three timers, the agent's window and the ids it remembers.

### Telemetry and processes

`ServerSpool`: a file replaced as a whole under a lock file, shared by processes. Its
records are a set, because `readRecords` sorts them (`chronological`) before they are used.
`BrowserSpool`: an IndexedDB store shared by tabs, each serializing its own operations.
`ExceptionCapture`: the maps keyed by an Error object with deferred captures. In all
three an event is a number, and the collector behind them a set of received events.
`IngestGate` splits a request at its statements on nonces, counters and envelopes.

`ProcessorQueue`: `queue` is the table `ingest_processing` joined with its envelopes, in
order of arrival; each row also counts its rows in `error_events` and
`ingest_dead_letters`. `issue` is `error_issues` with activity log and affected users,
`lock` the row lock of `SELECT ... FOR UPDATE`, and `worker` the local variables of
`runProcessorOnce`. A transaction has two steps: it locks and reads, then it commits
what it computed from the row it read. It may also fail, commit without an answer, or
die with its process; an error while a failure is handled ends the process (the daemon
does not catch it), which is the same as `Crash`. Delays are left out: a retry is due,
and a claim five minutes old, at any time. `overtaken` remembers the rows whose claim
was released while their worker was still at work; a worker cannot release its own
claim, because the daemon releases between two envelopes. The two limits on attempts
are constants of their own, as in the code, where only one of them is configurable.
Malformed payloads are left out: the sanitizer that runs before the insertion always
yields an error and a context.

`AlertScheduler` is the notifier's round: a snapshot of activities without a delivery,
then one insertion per matching rule. `ProcessLifecycle` has the order in which each
service opens and closes its resources, the listeners for signals and fatal errors with
their timeouts, and captures and flushes that may hang.

### Accounts, explorer, SQL, audit ledger

`OpsAccounts`: every request (`change`, `login`, `enrolment`, `proof`) is a record with
its place and what it has read; each statement is a step on `account`, `sessions`,
`challenges`, `tokens` and `elevations`, and `stored` is the API's memory of step-ups.
Time limits elapse at any time (`lapses` counts them). Single SQL statements are atomic.

`ExplorerAccess` splits reveal, row view, hide and logout at their statements; an
elevation is usable only once activated. Its other part is the limiter of audit entries
for schema views, with the views that wait for an entry being written. `ExplorerPage` is the hook
`useDatabaseExplorer` with its generations and the grants it must give back. A reveal and a
revocation are each asked for, handled by the server (`ServeReveal`, `ServeRevocation`) and
answered (`RevealAnswered`, `RevocationDone`) in steps of their own; the history variable
`overtaken` says that a reveal's answer reached a page that was left, and was taken for
covered by a revocation that the server had handled before (see the findings).
`KeysetPages` walks pages while rows are written and the schema is migrated; `Grain` is
what a cursor keeps of a sort value. `SqlWorker` goes from the elevation over the
preview record to the signed command, the worker's nonces and the read-only
transaction. Its other part is the worker's pools with overlapping health probes.

`AuditLedger` has one step per statement of `append`: begin, advisory lock, previous
entry, insertion (whose number comes from a sequence and is lost on abort), commit;
every one may fail, and a connection may be lost before or after its COMMIT took effect.

### Legacy monitor

`StatusMachine` gives the evaluation of a sample over the remembered ones as operators
over levels; samples are one cycle apart, so durations are numbers of samples.
`Collector` adds incidents, transitions and deliveries in SQLite, each statement a
commit. `acknowledgeIncident` of the web process is two steps, the SELECT with its check
(`CheckAcknowledge`) and the unconditional UPDATE (`Acknowledge`), with the collector's
statements in between. The SELECT and the write of `upsertIncident` are one step: an
update of the web process between them concerns either another row, and commutes, or the
same row, of which the write sets all that the model has. There are three history
variables: `skipped`, a cycle stored its sample and gave up before it had reconciled the
incidents; `nameless`, no remembered sample names the incident any more (see the
deviations); and `reopened`, the incidents a late acknowledgement has made active again
(see the deviations). `MonitorStore` has the retention, one batch per call with its
stage table, and two processes that open and migrate the file; `ZaloLinks` link codes
and the webhook; `MonitorSessions` the lockout, the sessions and the account commands of
the command line.

### Deployment

`ReleaseActivation`: the steps of `prepare-release.sh` and `activate-release.sh` with
their trap, over the pointer, the installed units, what each service runs, and systemd,
which restarts what dies. `AgentDeploy`: the installer and `deploy-release.sh` for the
agent. A script may be killed anywhere; the operator runs one at a time. The installation
of one configuration is one step of `ReleaseActivation`, so that no half-copied file is
ever loaded; between two configurations the script may be killed.

## Runs

Passing:

| Run | Instance | Shows |
|---|---|---|
| `coordinator_trio` | 3 changes of one application sharing a file, one per kind of action; 1 failing call, 1 failing journal write; 1.6 million states | `TypeOK`, `OneRunPerApplication`, `LeftoverIsReported`, `WritesAreUndoable`, `SingleFailureRollsBack`, `CompletedIsApplied`, `ImplementsPromise` |
| `coordinator_live` | 3 restarts of two applications, 1 failing call; 292 thousand states | `EveryRunEnds` |
| `agent_design` | 1 build of two files, 2 crashes, 1 failing call, 1 failing journal write, `MinSequence` 0; 130 thousand states | `RolledBackLeavesNothing`, `WritesAreJournalled`, `ReadyIsReconciled`, `FailureBlocks`, `TerminalIsFinal`, `RecoveryEnds` |
| `change_draft` | 1 change, 2 digests, 4 requests of which 2 overlap, 1 restart of either process; 2.0 million states | `CancelledNeverApplied`, `AppliedIsSaved`, `RowFollowsAgent` |
| `change_apply` | 1 saved change, 2 requests and the monitor, 1 lost call; 549 thousand states | `AuditTrail`, `FailureIsBlocked` |
| `services_parts` | spool, notifier, process, queue, actions, ledger; 323 thousand states | `ServerSpoolIsSafe`, `ProcessesAreSound`, `EnvelopesAreAccounted`, `IssueAgreesWithLog`, `ChainIsWhole`, `ServicesProgress` |
| `monitor_parts` | collector, retention, migration, links, sessions; 1.1 million states | `CollectorIsSound`, `StoreIsSound`, `LinkIsProved`, `NoFlapping`, `ServedSessionIsCurrent`, `MonitorProgress` |
| `console_parts` | browser spool, capture, ingest gate, two notifiers, explorer page, accounts, PII, schema views, previews, SQL worker; 1.7 million states | `ReportingIsSafe`, `ExplorerIsSafe`, `WorkerIsSafe`, `AccountsAreSound` |
| `operations_parts` | artifacts, source file, protocol, draft, variables page, release, agent deployment, pages; 1.6 million states | `AgentFilesAreSafe`, `ProtocolIsSafe`, `VariableChangesAreSound`, `ReleasesAreSafe`, `AnswersAreExact` |

Why the bounds are enough for the cases that matter:

- *Coordinator and agent*: three changes are the least with which a rejected run can
  clear the marker of a running one and let a third in; two files are the least for a
  partly written change; one failing call plus one failing journal write make a
  rollback fail; two crashes reach a crash during recovery. `MaxEdits` is 0 in the runs:
  that an operator edits a file under a run is covered for `SingleFailureRollsBack` and
  `CompletedIsApplied`, as for the others, by their proofs only, which are for any number
  of edits.
- *Changes*: four requests are a validation, a save, an apply and a cancel or a second
  validation; two digests tell two validations apart. `change_draft` loses
  no call (`MaxLost` is 0): a lost answer of `applyChange` is for `RowFollowsAgent` covered
  by its proof only; `change_apply` loses one. Digests and tasks of
  `change_draft` are symmetric; runs that check liveness use no symmetry.
- *Queue*: two workers and two envelopes of one issue are the least for overlapping
  transactions, two failures exhaust two attempts (the code's default of 10 only makes
  this longer); `MaxOvertakes` claims expire under a slow worker.
- *Ledger, spools, notifiers*: three appends are one that reads, one that waits and one
  that comes later; one event more than the spool holds forces an eviction; two tabs or
  two notifiers and one death are an overlap and an interruption of it.
- *Monitor*: windows and cooldowns shrink to the least number of cycles that keeps their
  order (warning before critical, cooldown longer than a cycle). Three cycles open an
  incident and begin to close it, which is where the monitors with many samples stop
  (`ShortWatched`, `ShortCycles`), two of them, whose samples are the most, without a
  fault (`FaultFree`); `LocalOnlyCooldown` is longer than `Cooldown`, as 24 hours than
  30 minutes; five cycles (`MaxCycles`) open, close and reopen one and outlast the
  history of three samples. The proofs are for any number of cycles and faults.
- *Console*: two owners and one more user are the least with which the last owner can be
  lost; two account requests and two logins overlap, a third caller interferes
  (`MaxCallers`), `MaxLapses` limits elapse; four steps of the user are select, reveal,
  select again and hide.
- *Operations*: one edit, fault, death or kill per part, two or three where it takes
  that many to reach an undo of an undo (`MaxReleaseMishaps`); four clicks on the page
  are unlock, stage, save and apply with one mishap among them (`MaxMishaps`).

Several bounds are joint, so that one behaviour has either kind of trouble and the sum
is bounded: `MaxTabMishaps` (failing store calls, failing posts, closed tabs),
`MaxSqlMishaps` (copies, restarts, failing calls), `MaxArrivals`, `MaxCopies` and
`MaxRequestFaults` of the gate (a request, its copy inside the window and one after it),
`StoreTasks` and `MaxStoreCalls` of the artifacts (two tasks that overlap),
`MaxProtocolMishaps` (copies of a frame and restarts of the agent), `MaxPageEvents`
(writes, migrations and the passing of time), `MaxReleaseMishaps`.

Violations, each a disagreement between the repository's documents and its code
(details and quotations under "findings"):

| Run | Property | What happens |
|---|---|---|
| `agent_fault_free` | `FaultFreeNeverFails` | the agent refuses its own first journal record, so every apply ends in ROLLBACK_FAILED |
| `explorer_stale` | `NothingStaleIsShown` | a reveal that resolves after the relation was changed shows the old relation's rows |
| `pages_timestamps` | `NothingSkippedOrRepeated` | cursors keep milliseconds of a column with microseconds, so rows are skipped or repeated |

### Further deviations met while modelling

These are in the models, or next to them, and have no run of their own.

**Apply and recovery**

- A build change that fails before its build began ends in ROLLBACK_FAILED although
  every file was restored, because `rollbackAction` needs a build identity
  (`runtimeHandlers.ts:901`). `SingleFailureRollsBack` excludes this case by name.
- The rollback of a restart change does not restart or reload the service
  (`runtimeHandlers.ts:899`), which then keeps the new values; the design document
  (:488) has it restored.
- A process killed right after its first journal record cannot start again: the
  constructor refuses the record (`runtimeHandlers.ts:435`).
- `persistEvent` marks every ROLLING_BACK record as having writes, also when the run
  rolls back before it took a snapshot; killed there, the agent throws
  CONFIG_AGENT_RECOVERY_SNAPSHOT_MISSING at every start (`runtimeHandlers.ts:969`).
- A run killed between its first write and the WRITTEN record is resumed as if it
  had written nothing (`runtimeHandlers.ts:781`); `RolledBackLeavesNothing` excludes
  these runs (`torn`). The sequence check hides this today.
- With two changes of one application: a request that was accepted before a block is not
  checked against the block again before its run begins; and when the journal write of
  ROLLBACK_FAILED fails, a recovery can roll the first change back, report it as
  ROLLED_BACK, and then put its content back from the snapshot of the second (TLC, 41
  steps, one crash, one failing call, one failing journal write).
  `RolledBackMeansGone` therefore speaks of a journal whose writes succeed.
- A block an owner cleared comes back: `clearApplyBlock` removes the application from
  memory only, the ROLLBACK_FAILED record stays, and `journalRecords` blocks the
  application again whenever the journal is read (`runtimeHandlers.ts:456`).
- A change can be applied twice: after a restart the agent has forgotten an accepted
  request (`runtimeHandlers.ts:1107`), and a repeated request with the same key, begun
  while the row was SAVED, is replayed by the transition and starts a second run even of
  a completed change. The design document (:416) says "The same change ID cannot launch
  two applies." `RowFollowsAgent` therefore speaks of changes with one run.
- The staged envelope of a failed rollback expires after 24 hours
  (`cleanup/retentionService.ts:43`), while the design document keeps it until the
  incident is resolved.

**Change API**

- After a restart of the API nothing resumes the monitor of a run, and the row stays in
  APPLYING (`configChangeService.ts:565`).
- The monitor stumbles over the agent's READY event and records a completed apply as
  ROLLBACK_FAILED (`configChangeService.ts:272`).
- Between the ROLLBACK_FAILED row and the insertion of the block, another change of
  the application can start to apply (`configChangeService.ts:356`).
- `updateValidation` stores items and digest in two transactions; two overlapping
  validations leave the items of one with the digest of the other
  (`postgresConfigChangeRepository.ts:533`).
- A block can be cleared with the resolved incident of another change
  (`postgresConfigChangeRepository.ts:912`). When the agent is blocked and the database
  is not, `clearApplyBlock` throws before it reaches the agent
  (`configChangeService.ts:672`).
- A cancel that reaches the agent after an apply was accepted makes the agent report
  CANCELLED; after a restart of the agent the monitor then follows the run's events
  to ROLLBACK_FAILED and stops without a block. `FailureIsBlocked` therefore speaks of
  executions without a restart.
- Superseding does not cancel the superseded change, which can still be applied if it
  was saved; a saved change cannot be validated again; a late validation replaces the
  agent's draft although the row keeps its digest, so the save is refused.

**Variables page**

- An inventory answer that arrives after lock or expiry puts values back into the page's
  state (not shown; the design document, :187, clears the inventory); after a new unlock
  such a late answer is shown, and a late failure locks the page while the server stays
  unlocked. A create answer after a lock restores the staged change and its values.
- Two overlapping stage calls create two changes, and the answer of one is merged into
  the other: the server refuses by digest, but the page can show SAVED for a change that
  is only READY, and the proof is consumed by the refused apply. Answers out of order
  leave an older digest.
- The effect that opens the event stream depends on the staged object, so every status
  event opens it again.
- A lock request that is delayed behind a new unlock revokes the new grant; a failed
  read deletes a newer binding; an abandoned unlock can open the server's side after a
  lock, for ten minutes; a failing audit entry after the grant was set answers
  MFA_DENIED although the server is unlocked; an apply in flight deletes the key of a
  newer authorization of the same digest.

**Agent files, actions and protocol**

- An edit in place between the second `fstat` and the last walk of a read is taken for
  the bytes read and lost by the following write. The writer compares nothing between
  `assertTarget` and `rename`, and a restore compares nothing; a release switched during
  a write makes the second read verify the other release's file. A killed write leaves a
  temporary file nobody removes; a failing fsync of the directory reports
  SOURCE_WRITE_FAILED although the file was replaced.
- The index of a store is read, changed and written without a lock: entries and marks
  are lost, a crash between file and index leaves an orphan (DRAFT_CORRUPT, never
  cleaned), a cancel that races a seal can bring a staged artifact back. `saveStaged`,
  `releaseRollbackEvidence`, `removeExpired`, `getRetentionEntries` and
  `listArtifactIds` have no callers.
- A helper outside the process group that keeps the output open makes an action never
  end; a rejected operation is replayed to every later call of the run; rollbacks are
  not guarded by the replay map; `killProcessGroup` falls back to the pid when the group
  is gone; a probe goes on after its timeout.
- The agent reports `readOnly=false` as soon as a change handler is installed, while the
  client's negotiation requires `readOnly===true` (`configAgentClient.ts:206`): an API
  with drafts enabled cannot start against an agent that has them. Request ids are
  forgotten at `expiry <= now` while a request is accepted at `expiresAt >= now`; the
  oldest id is evicted at 2048; ids are lost on a restart; a handler goes on after its
  client timed out.
- The inventory shows base64 for a credential without an encoding
  (`inventoryService.ts:197`), validation writes text (`validationService.ts:466`). A
  definition shadowed for one consumer only is reported as not effective; the warning of
  a deletion looks at any source of lower rank, also at one that does not define the
  name; the sources are read at different moments.

**Telemetry**

- A claim is released after five minutes also under a worker that is merely slow, and
  neither the insertion into `error_events` nor `markProcessed` notices
  (`postgresIssueRepository.ts:112`, `:220`): with two processors an envelope is then
  counted twice, while the plan says "concurrent processing cannot double-increment".
  The branch for a duplicate in `processEnvelope.ts:113` cannot be reached. Likewise
  the late worker's `markRetry` ends the claim of its successor, and its stale number
  of attempts lets the queue give a row up without a dead letter.
- `main.ts:89` builds the queue without the configured limit: with
  `OPS_PROCESSOR_MAX_ATTEMPTS` above 10, `markRetry` marks rows `dead_lettered` after
  10 attempts and no record is written to `ingest_dead_letters`. A release of an expired
  claim does not count as an attempt: an envelope that kills its worker is tried for ever.
- A process killed with `.events.lock` leaves it for ever and the spool is dead; an
  enqueue during a long flush times out after a second and the event is lost; expired
  records that a flush skips count neither as delivered nor as deferred; a crash during a
  flush delivers again, which the server's insertion recognizes.
- In the browser, records in IndexedDB are stranded after the fallback to memory until a
  reload; two tabs can exceed `maxEvents`, and a failing flush of one puts back what the
  other evicted; concurrent diagnostics lose counts. `allowFutureOccurrence` with a
  failing report in flight can report one event id twice.
- A nonce expires at `timestamp + 60s` with `<=` while the timestamp is accepted at
  exactly that second; a conflict of one envelope fails the whole batch although others
  are stored.
- A second regression of an issue is never announced; a crash between the insertions for
  two rules loses the rest; an issue that no rule matches stays a candidate for ever and
  can starve others behind `LIMIT`; a rule enabled later is not told. Nothing starts the
  delivery worker.
- SIGTERM while a fatal error is handled exits 0; SIGTERM exits without `close`; a failing
  read of configuration or of the telemetry key is reported to nobody; the flush of a
  stopping process has no timeout of its own.

**Accounts, explorer, SQL**

- Failures stored while an account was locked or pending count after it is active again,
  without blocking before the next failure; an owner locked after their elevation was
  consumed completes the request in flight; a challenge inserted after a lock or recovery
  by a login that read before it stays usable, with the new factor only; a step-up
  inserted after logout leaves an elevation in a dead session; the ledger entry of an
  account change may fail after the change committed; two concurrent grants can both
  survive `replaceOlder`. `revokeForSession` of the SQL elevations has no caller.
- The undo of a failed reveal also revokes a concurrent, successful reveal of the same
  target; hiding answers 503 when its audit entry fails although the grants are revoked.
- A reveal whose revealed rows are dropped leaves a live grant while the page says
  masked (the page remembers it and revokes it at unmount); a reveal whose answer is lost
  leaves an unknown grant until it expires.
- A grant can outlive the page: reveal, change the query (the revealed rows are dropped),
  reveal again and leave. The server revokes, then grants the second reveal, whose answer
  arrives before the revocation's; `useDatabaseExplorer.ts:627` sees a revocation pending and
  sends no other. The comment at `:239` says of this reveal "its completion will trigger a
  second global revoke if it creates a grant." TLC finds a trace of 13 states when
  `GrantIsRemembered` is checked without its exception, `overtaken`.
- A cursor is not bound to the filters; Buffer keys are written untagged into cursors and
  a float NaN becomes null; paging by offset stops silently after 10 000 rows; a row
  reference is issued although its foreign key may be null; a page whose result or cursor
  exceeds its limit can never be passed; along a foreign key of a table to itself only
  child to parent can be followed (`relatedRowReader.ts:52`); a schema being loaded may
  overwrite a newer one (the live check corrects it).
- An audit failure or a crash after `startReadPreview` leaves the record `running` for
  ever; the client's 25 s are shorter than the statement timeout of 30 s, so a `failed`
  preview may have run; a result between 1 MiB and 10 MiB always fails; nonces are lost
  with the worker; 10 000 nonces refuse every command until they expire. `poolDatabase`
  gives a client whose ROLLBACK failed back to its pool.

**Legacy monitor**

- A locked database between remembering a sample and queueing its alert loses the
  transition for ever; a restart loses the history, so an open incident closes silently
  after one healthy sample; for host resources and services "healthy but not clear" closes
  an incident without a notice; a change of reason on the same level opens an incident
  without an alert; the next failing sample sets an acknowledged incident back to open; a
  delivery in `sending` at a crash is neither retried nor pruned; a disabled chat hits the
  unique key when it is linked again; the log cursor is saved before its sample; merging a
  day's parts overwrites the level; a crash between COMMIT and VACUUM of a version-3 file
  raises the version without VACUUM.
- The hub's probe closes an incident after one good sample: critical, then good (held),
  bad once (level "unknown"), good again; the level before the sample is then no alert,
  nothing is held, and the healthy cycle closes the incident without announcing its
  recovery (`statusMachine.ts:202`). The test at `statusMachine.test.ts:245` wants "a
  second genuinely clear sample before infrastructure recovery". Therefore `OneReason`
  leaves `beszel` out.
- An incident that has recovered can become acknowledged, although `store.ts:486` refuses
  it ("Recovered incident cannot be acknowledged"): the state is read by a SELECT of its
  own, the UPDATE has only `WHERE id = ?`, and the collector's process closes the incident
  in between. It is then active again, next to one opened since or with a healthy monitor.
  TLC finds a trace of 19 states when the properties of the collector speak of all active
  incidents instead of those not `reopened`.
- A cycle that finds the database locked after it has stored its sample (`skipped`) can
  leave an incident under a key that the history no longer names last; its recovery is
  then written to a new row, and the incident stays open until the next healthy cycle.
- An outage in which good and bad samples alternate for longer than the history (120
  samples) leaves no sample with the reason: the keys of all are the baseline's, so the
  incident is closed and opened again as "awaiting_recovery_baseline"
  (`collector.ts:197`; `nameless`).
- A recovery by the command line that falls between a login's reading of the account and
  its insertion of the session leaves one session made with the old credentials, for up to
  eight hours. Nothing sets `accounts.disabled_at`.

**Deployment**

- Nothing locks two activations out of each other; migrations are not undone; a killed or
  interrupted activation leaves a mixture, and the EXIT trap removes the snapshot; a
  backend that crashed between the swap and the failure stays on the new release, because
  `start` does nothing (`strays`); a writer waiting for its restart counts as inactive and
  stays down after a rollback; services count as started once forked.
- On a second deployment of the agent the API's flag is already true while the new agent
  is unverified (`deploy-release.sh:26`); a failed deployment leaves the new agent linked;
  an existing version directory is kept whatever it holds.

## Fairness

- `FairSpec`: weak fairness of every run's next step. File operations complete,
  actions and health checks are cut off by their timeouts, and `lockFactory` serves
  its waiters first in, first out, so a run at the head of a queue proceeds once the
  lock is free. A step that waits for a lock is disabled until then; weak fairness is
  enough, since the runs are finitely many and each releases its locks for good.
- `AgentFairSpec` adds weak fairness of `Restart` (the unit has `Restart=on-failure`,
  `deploy/ops/systemd/ops-config-agent.service:40`) and of the recovery's steps.
- `FairApplySpec`: weak fairness of every task's step (a promise settles, the agent
  client has a timeout) and of the agent's progress. Nothing is assumed about
  requests, restarts, edits, expiry or owners.
- `ServicesFairness`: the event loop runs every pending step of a sender, listener or
  action; the daemons of notifier and processor loop for ever and their units restart;
  timers fire; whoever holds an output closes it. `BackoffOver` has strong fairness: the
  clock goes on whether or not flushes are being asked for, while in the model a flush
  that is asked for and deferred disables the step for a moment.
- `MonitorFairness`: the interval timer starts a cycle every 15 seconds and each cycle
  prunes one batch; systemd restarts the collector.

`ServicesProgress` and `MonitorProgress` join the progress of the parts in formulas of
the kind []<>(nothing is pending). In these instances what ends is never begun again
without one of finitely many new inputs, so this says that each pending thing ends.

## Proofs

| Theorem | Module | States |
|---|---|---|
| `TypeCorrect`, `OneRun`, `NoUnreportedLeftover`, `EveryWriteIsUndoable` | `ApplyCoordinator_proofs` | `TypeOK`, `OneRunPerApplication`, `LeftoverIsReported`, `WritesAreUndoable` |
| `Refinement` | | `ImplementsPromise`: the coordinator implements `ApplyPromise`, step by step |
| `CompletedMeansApplied`, `OneFailureRollsBack` | | `CompletedIsApplied`, `SingleFailureRollsBack` |
| `WritesCanBeFound`, `FinalRecordsStay`, `FailuresBlock` | `ConfigAgent_proofs` | `WritesAreJournalled`, `TerminalIsFinal`, `FailureBlocks` |
| `ServesWhatItReconciled` | | `ReadyIsReconciled`, where the sequence numbers the coordinator writes are accepted (`MinSequence` = 0) |
| `RolledBackMeansGone` | | `RolledBackLeavesNothing`, as long as the journal's writes succeed |
| `CancelledStaysOff`, `RunsWhatWasSaved`, `ReportsWhatHappened`, `TrailIsWhole` | `ConfigChange_proofs` | `CancelledNeverApplied`, `AppliedIsSaved`, `RowFollowsAgent`, `AuditTrail` |
| `EnvelopesAccounted`, `IssuesAgree` | `Services_proofs` | `EnvelopesAreAccounted`, where the configured limit of attempts is within the queue's own; `IssueAgreesWithLog` |
| `ServerSpoolSafe`, `LedgerChain` | | `ServerSpoolIsSafe`, `ChainIsWhole` |
| `ProcessesSound` | | `ProcessesAreSound` |
| `LinksProved`, `StoreSafe`, `SessionsCurrent` | `Monitor_proofs` | `LinkIsProved`, `StoreIsSound`, `ServedSessionIsCurrent` |
| `CollectorSound`, `IncidentsDoNotFlap` | | `CollectorIsSound`, `NoFlapping` |
| `AccountsSound` | `Console_proofs` | `AccountsAreSound` |
| `WorkerSafe` (`PreviewSafe`, `RegistrySound`) | | `WorkerIsSafe` |
| `ExplorerSafe` (`PageConsistent`, `PiiGuarded`, `SchemaAudited`) | | `ExplorerIsSafe` |
| `ReportingSafe` | | `ReportingIsSafe` |
| `ProtocolSafe` | `Operations_proofs` | `ProtocolIsSafe` |
| `AgentFilesSafe` (`ArtifactsSound`, `SourceFileSound`) | | `AgentFilesAreSafe` |
| `VariableChangesSound` (`VariablesPageSafe`) | | `VariableChangesAreSound` |
| `ReleasesSafe` (`ReleaseSound`, `AgentDeploySound`) | `Deployment_proofs` | `ReleasesAreSafe` |
| `AnswersExact` (`DraftExact`, `PagesExact`) | | `AnswersAreExact`, for sort values that survive a cursor (`CursorsKeepValues`: all but timestamps, for which `pages_timestamps` shows it false) |

A property of a suite names parts that share no state (`ReportingIsSafe` those of the
browser spool, the captures, the gate and the notifier); its theorem is the conjunction
of the theorems of these parts.

Each holds for any sets of changes, files, users, requests and appends and for any
values of the bounds. The assumptions are those of the modules: the types of the
constants; that the skew a command may have is shorter than the life of its nonce (60
seconds in `authenticateCommand.ts:32`, 120 in `nonceStore.ts:11`), and the idle window
of an elevation no longer than its absolute one; that the monitor's schema version is
above 3 (`schema.ts:1`); `SourceOwnership` (a file belongs to one application, which
`validationService.ts:437` enforces); values that stand for "nothing", for the first
hash or for an operator differ from what they stand beside, and from a record of the
journal or of `changes`; that a manifest lists each source once, and a release's assets,
backends and writers are sequences that are not empty; that a relation has finitely many
rows. In the models themselves it is assumed that SHA-256 has no collisions, that ids
are unique, that a single SQL statement sees one snapshot, and that an advisory lock is
held to the end of its transaction. None of the properties is inductive; the
strengthenings are these.

### ApplyCoordinator

1. `TypeInv`: `TypeOK` and "a run that may write or restore has a snapshot". Without
   the second part `RestoreSource` could read from `NoValue` and leave the type.
2. `LockInv`: adds "a run past `acquireApplicationLock` owns its application's lock".
   The lock, and not the marker, keeps runs apart; the marker is cleared by others.
3. `LeftoverInv`: adds that a run that is over with a clean outcome and a run that
   rolls back without writes own no content (`OutcomeInv`), that files still to be
   restored are among the run's own (`TodoInv`), that content of a change is found
   only in its own files and only once it began to write (`WroteInv`), and that a
   stored snapshot never holds the run's own content while the run lives (`SnapInv`).
   The interesting case is another run's write or restore: by `LockInv` and
   `SourceOwnership` it cannot touch a file of the run in question, so a snapshot of
   one run cannot bring back the content of another that was reported as rolled back.
4. `PromiseInv`: adds that the lock names the run that holds it, that a run which ends
   has an outcome (`EndedInv`), and that what a run past its writes has not still to do
   it has done (`AppliedInv`). With it every action of the coordinator is shown to be a
   step of the promise or none at all.
5. `CompletedInv`: adds that without edits every content is a change's or the original
   one, and that the consumers of a run past its action run with its content
   (`LoadedInv`), which another run cannot take from them before it gets the lock.
6. `SingleInv`: adds what state the run's machine is in at each call while the journal
   works (`MachineInv`), that files still to be written are as validated (`PlanInv`), and
   how many failures it took to reach each branch of the catch blocks (`FailureInv`): one
   for rolling back, two for giving up.

### ConfigAgent

The agent runs the coordinator's steps with the journal in place of the open outcome
`ok`, and may be killed between any two of them. `AgentInv` holds whatever fails and for
every `MinSequence`:

1. `Places`: the recovery works on one change at a time and before the agent serves
   (`RecoveryInv`); a run has a record from its first event on (`JournalInv`); where a
   run can be when its record is final (`EndInv`: at its end or, after a journal write
   that failed although it replaced the file, at the event that follows). From these,
   no step writes over a final record while the journal works: `FinalRecordsStay`.
2. `ContentInv`: a change's content in a file *or in a stored snapshot* has a record,
   and that record is final or its snapshot is stored. Without the snapshots a restore
   could bring back content that nobody has a record of. `WritesCanBeFound` follows.
3. `EventsFit`: while the journal works, the state machine accepts every event a run
   emits, so no run leaves by an error that the journal does not see. `BlockInv`: a
   failed rollback is in the journal, from where each start blocks its application
   again, or nothing of the journal can be read and no agent starts; `FailuresBlock`.
4. `ReconciledInv`: with a readable journal, a run that is over has a final record, or
   the recovery has still to look at it; `ServesWhatItReconciled`. With `MinSequence` 1,
   as in the code, the first record already closes the journal (`agent_fault_free`).

`RolledBackMeansGone` needs to know what every run may have left, over any number of
crashes. `RecoveredInv` adds `HoldsLock` of the coordinator and `TraceInv`:

- `RecordInv`: a run past the application lock is recorded, and one past its writes is
  recorded with writes, or it was killed in between (`torn`, which the property excludes);
- `UniqueInv`: an application has at most one unfinished record. This is why the order in
  which a recovery takes the records does not matter, and why the next request cannot
  begin on top of a run that was killed;
- `LeftInv`: a file has a change's content, or a unit runs its build, only if that run
  ended without taking it back (completed, or failed and said so) or is unfinished at a
  step at which it has not yet been undone (`MayHold`, `MayRun`);
- `ReturnInv`: what a rollback would put back - a snapshot, the release remembered by
  the run, and the one remembered by the journal - is content of settled runs only, and
  never the run's own. A snapshot is taken when no other run of the application is
  unfinished, and settled runs stay settled.

This is proved for `MinSequence` 0. For any other, `ClosedInv` shows that the first
record of a run closes the journal for good, so that no run is reported as rolled back
at all. Before it was proved, TLC found `RecoveredInv` on three instances with two
changes of one application (2 to 4 million states). With a failing journal write the
property is false for two changes (see the deviations); with one it holds, which is what
`agent_design` shows.

### ConfigChange

`ChangeInv` has four parts: types; what a task relies on at its next step (`TaskInv`: one
that is about to apply carries the digest of a row that is past SAVED, and a clean event
it has still to store is justified by the change's run); what the agent has (`AgentInv` of
that module: only a row in the states of an apply has a run, the run works with the
row's digest, its state is in the journal, and its clean events are justified); and the
records (`TrailInv`: each begins where the one before ended, and the last ends at the
row). The argument for all four properties is the same: a row moves only along the transition
table, once SAVED its digest is settled, and the states of an apply are closed under
legal moves, so that nothing a late task does can take a row back (`RowMoves`,
`RunMoves`, `TrailStep`). A final state of the row is justified by an event, and an event
by the run.

### Services: the queue

`QueueInv` says what the workers' transactions rely on. `TransactionInv`: a transaction
holds its issue's lock, and what it read of the issue is what is stored, so that the
counters it writes are not older than those it replaces. `ClaimInv`: a row whose claim
was not released under a living worker has one worker at most, which knows the row's
attempts, and has not counted the row or has counted it and was not told; this is why a
retry after a lost answer finds the row processed and counts nothing. `CountInv`: the
counters of an issue are the cardinalities of its rows in `error_events` and of its
users, also with rows that were counted twice. `LogInv`: the log is not empty, its last
entry is the status, and a regression follows a resolution.

`EnvelopesAccounted` assumes `MaxAttempts <= QueueMaxAttempts`. The default satisfies it
(10 and 10); with a larger configured limit it is false, because `main.ts:89` builds the
queue without that limit (see the deviations). `IssuesAgree` needs no assumption.

### Services: the other parts

- **Audit ledger**: a call past the advisory lock owns it, the hash it read is still the
  last one, and numbers in use are below the sequence's (`LedgerInvariant`). Without the
  first two, an append that read early could fork the chain.
- **Server spool**: whoever is past the lock owns the lock file (`LockInv`), therefore the
  file a flush has read is still the file it replaces, and what it does not write back
  went to the collector or was given up (`FlushInv`). That an eviction makes enough room
  (`RetainedFits`) rests on `NewestAreFew`: records are told apart by how many precede
  them, so at most n - k of n records have k or more before them.
- **Life of a process**: what is open at each point of the main promise, and that the
  steps left close it (`ResourcesKnown`); whatever fails while the telemetry is bound is
  reported before the process ends (`FailuresReported`); a fatal event is flushed only
  after its capture, or the capture hangs (`ListenersKnown`).
- **Runtime actions**: of one key there is one command, and every caller is told the
  outcome of that one (`OperationsAreShared`); what was killed took its group with it
  (`CommandsEnd`). A health run has as many results as checks behind it (`HealthTypes`).

### Monitor

- **Link codes**: a message that linked carried a code that is used up (`EventsInv`), so
  another message with that code cannot link (`OneUse`); a new link of a chat replaces
  the one of another account (`OneOwner`).
- **Store**: for each day and monitor, the samples still there, the stage and the rollups
  count together what was ever recorded (`Accounted`), unless a run has let the day go; a
  batch drops a sample uncounted only of such days, because `forgotten` is the latest
  cutoff of any run. Plaintext is left in free pages only while the file's version makes
  every opener sanitize it (`MigrationInv`), so that any number of openers may die.
- **Collector**: the active incident is the one the remembered samples name last, unless
  a cycle gave up, no sample names it, or a late acknowledgement made it active
  (`KeyKnown`); this is why reconciling closes the others only. An incident the
  collector has open is the latest of its key (`OpenIsLatest`), so upserting never takes
  one of `reopened` for it; of those nothing is promised until a cycle closes them
  again. For monitors with one reason, a level leaves an alert only by two healthy
  samples, whatever unknown or held ones came before (`ItemsAreTrue`), and without a
  fault an incident is active exactly while the level alerts (`ActiveWhileAlerting`), so
  that each opening and each recovery is announced in its own cycle
  (`DeliveriesFollow`). The runs of samples are counted from the end of a history of any
  length; the proofs know of them only whether they reach two (`TrailingTwo`).
- **Sessions**: when the credentials a login in flight has read are no longer the present
  ones, no session of earlier credentials exists (`LoginInv`): a recovery deleted them
  all. So there is never a second one.

### Console

- **Accounts**: `AccountsInv` adds to the promises what the steps in flight rely on: a
  login about to consume its challenge belongs to an active account, or its challenge
  was revoked; a link in use belongs to a pending account; an active account has one
  factor; a consumed grant cannot be made again, since every step-up makes another one.
- **Previews**: a command that ran, or is about to, is older than the skew allows or its
  nonce is remembered (`NonceHolds`); this is where `Skew < NonceLifetime` is used.
  What is sent was audited before (`SentAudited`).
- **Worker**: only the latest probe decides (`ProbesInOrder`), and a probe that timed out
  stays active or late until it settles. A worker that closes, or failed to start,
  has ended every pool up to the one it is ending (`PoolsBehindAreEnded`).
- **Elevations**: an elevation is activated only after its reveal is in the ledger, and a
  reveal that failed ends with its elevation inactive or not live, or two calls failed
  (`GrantInv`); a view keeps the elevations it was authorised by (`ViewInv`).
- **Schema views**: of the views of one version at most one writes (`OneWriter`), the
  others wait for it (`WaitsForWriter`); the last write of a version is remembered, so
  that two writes are a window apart (`Apart`) and each served view is covered.
- **Database page**: the code guards an answer by its generation, so the invariant says
  what an answer may bring about that is *still current* (`RequestInv`): of a current
  load, that its database and relation are the selected ones and something may be on the
  screen; of a current schema, that nothing was selected since. `RevocationInv`: of the
  revocations that go on with a selection or a hide, the latest is the one that cleared the
  page last, so that finishing an earlier one changes nothing, and while it is the last
  the rows are suppressed. `PageGrantInv`: only the first revocation of the queue may have been
  handled by the server, and the page counts those outstanding (`QueueInv`); while no
  request has failed, a living grant is known to a revocation not handled yet, to the
  reveal that is being answered, or to a mounted page that may have one, or it was
  `overtaken` (`GrantKnown`); a page that is left while a reveal is under way will revoke it
  unless a revocation is outstanding (`AnswerRevokes`).
- **Browser spool**: an accepted event is in the store, in a tab's memory, with the
  collector, or counted as discarded (`Accounted`). An enqueue has already chosen what it
  evicts when it writes (`TabIsTrue`); that the choice leaves room needs the position of
  an event among the sorted ones (`SurplusRemoved`).
- **Captures**: `IdsAreOwn`, `SecondaryOnce`, `PrimaryOnce`. An object and its later
  occurrences are kept apart: the object itself counts as delivered from the time its
  capture is under way, an occurrence is deferred or pending, never both. The exception
  is an object whose report failed, which the code lets be captured again.
- **Gate**: a nonce that let a copy pass is stored until the window of its request is over
  (`NoncesKept`), and copies that arrive after it are refused by their timestamp. So each
  request passes once while its window is open (`PassesOnce`); at its last instant the
  nonce is already forgotten and the timestamp still accepted, so that a late copy may pass.
- **Notifier**: what a notifier read of an activity stays true of its issue
  (`RowIsTrue`), so two notifiers plan the same delivery for the same news
  (`FirstDelivery`) and the outbox's key tells the copies apart from the new ones.

### Operations

- **Protocol**: a request that was handled is among the remembered ids as long as its
  frame would be accepted, or it is excused: its id lapsed in the instant of the expiry,
  was crowded out, or was forgotten in a restart (`RememberedInv`). What is on the
  client's own connection was handled in the request's time (`InTimeInv`).
- **Artifacts**: between a call's change of a file and of the index the file is already
  right (`FilesBetween`); when no call is between the two, an artifact that no race and
  no death touched has a file exactly if it has an entry (`EntriesFollow`). A snapshot is
  stored by one call (`SnapshotsOnce`), and one the cleanup is removing had expired and was
  no evidence when it was chosen (`CleanedAreExpired`).
- **Source file**: as long as the modification time has not moved, what was read in two
  halves is what is there (`ReadSoFar`); until somebody touches the file between the
  comparison and the rename, the rename replaces what was planned from
  (`PlannedIsThere`); the name keeps what was written (`WrittenStays`).
- **Release**: `ActivatedSoFar` and `UndoneSoFar` follow the script and its trap through
  their loops, index by index. While services may die and restart by themselves, a
  service that the script has not yet touched is as before or restarting (`Untouched`),
  and one that the rollback has started is as before, runs the previous release, or is
  down because there is none (`BackAgain`).
- **Agent deployment**: what a deployment has behind it at each step (`DeployedSoFar`); a
  flag is set only after a version answered (`FlagsFollow`).
- **Variables page**: of the unlocks the page waits for there is one, and its grant is
  newer than all the page was told of, so that a late answer cannot bring back what was
  locked (`UnlockInv`). A proof is for one digest, is consumed once, and no other call
  holds it (`ProofInv`); a row that the page confirmed keeps its digest.
- **Draft**: the inventory is of one reading of each source (`ShownIsRead`); each item that
  is validated was found once in the sources read again (`Found`). That the value shown as
  effective is the one loaded last rests on `PrecedenceIsOrder`: ranks order the
  definitions of a name strictly, because the manifest lists a source once and a source
  its definitions in order (`Ordinals`).
- **What a draft writes**: after each replacement the text is the source with the
  replacements made so far, and up to the place of the last one it is still the source
  itself (`SerializedIsExact`); this is why they are made from the end. No two are at one
  place, because an item names a definition and the validation found one of its name.
  That the replacements can be put in order, and made one after the other, is an induction
  over their number, each time by the least number for which it fails (`HasLeast`).
- **Pages**: what came is where the rows that nobody wrote begin (`Beginning`); the cursor
  parts these rows into those that came and those to come (`CursorTypes`). Without a key
  it is an offset, which skips as many rows as came: the same ones, where no rows tie and
  none was written; only then such a walk promises anything (`Ordered`).

### Found while proving

Writing these proofs corrected the model or a property where it said something else
than the code does; each was confirmed by TLC or by the source before it was changed.

- "Each request passes the gate once" was stated over the nonces that are stored; the
  cleanup of nonces makes that vacuous after the window. `PassesOnce` counts passes, and
  then it turned out to be false at the last instant of the window.
- A tab's memory may be larger than the limit after an enqueue that finds the store gone;
  what is bounded is what an enqueue adds to (`EnqueueIsBounded`).
- A rollback of the very first release has no previous one to return to: services that
  are down then are not a failure (`BackAgain`).
- A draft may be stored again while its earlier version is being sealed; the change that
  is sealed is then the earlier one, and only of it something is promised
  (`SealKeepsTheChange`).
- `IncidentMatchesLevel` was false with two cycles given up, and `ActiveIsAlerted` and
  `RecoveryIsAnnounced` with no recipient, for the hub's probe, and in outages that outlast
  the history; `NoFlapping` was false for the hub's probe from the fifth cycle on, which no
  run reached then. They now name these cases (`skipped`, `nameless`, `OneReason`); the cases
  themselves are among the deviations. `NoFlapping` has the cron monitor in exchange.
- With the check and the update of an acknowledgement taken apart, as they are in the code,
  a recovered incident becomes active again, next to another one or alone: the properties of
  the collector speak of the incidents it has opened and not closed (`Open`). With a
  revocation's handling taken apart from its answer, a grant outlives the page
  (`overtaken`). Both are among the deviations.
- An offset walk was said to be complete if it ended on a page that is not longer than the
  largest offset allows; it is only if what came is within the largest offset, since the
  page after that has no cursor although more rows may follow (`rowReader.ts:352`).

### What is only model-checked

Liveness, because fairness and ENABLED are out of the prover's reach: `EveryRunEnds`,
`RecoveryEnds`, `FailureIsBlocked`, `ServicesProgress`, `MonitorProgress`.

The invariants were checked with TLC on the instances of the runs, or on ones of similar
size, before they were proved; those of `PromiseInv`, `CompletedInv` and `SingleInv` have no
run of their own, and `ExplorerInv` was checked but for `OneReveal`.

## Plan

What is left: the delivery worker and the processor's retention, if a process is ever to
start them; mutation previews and restores of the SQL worker, once they have a caller.

## Not modelled

Adapters and manifest (parsing of files), envelope encryption, SQL classification,
rendering and the other pages, database migrations and client, the drill of disaster
recovery, and the static analysers and codemods in `scripts/`: sequential or stateless
code whose hard cases are data, not interleavings. Of the partly modelled components:
the processor's retention and source maps, the notifier's delivery worker (nothing
starts it), mutation previews and restores of the SQL worker (one rolled-back
transaction; no caller), assignment and comments of issues. The delivery of signals, and
the kernel's side of sockets and files, are represented by their outcomes.
