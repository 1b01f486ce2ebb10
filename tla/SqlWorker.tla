------ MODULE SqlWorker ------
(* The SQL worker and the API in front of it.  Two parts:
   
   A read preview of the SQL workspace: SqlReadPreviewService.preview in the
   API, the signed command on the worker's socket, the worker's nonce store
   and the read-only transaction that runs the statement.
   
   The worker process: startOpsSqlWorker with its pools, the target registry
   with its health probes, and close. *)
EXTENDS Integers, FiniteSets

CONSTANTS Previews,         \* preview requests of one session
          Skew,             \* a command is accepted this long around issuedAt
          NonceLifetime,    \* timeToLiveMilliseconds of the nonce store
          NonceEntries,     \* maximumEntries of the nonce store
          IdleWindow,       \* sliding lifetime of the elevation
          AbsoluteWindow,   \* absolute lifetime of the elevation
          PoolSize,         \* connections of the read pool
          MaxSqlSecond,        \* bound of the clock
          MaxDeliveries,    \* times a command reaches the worker
          MaxSqlMishaps     \* failing calls of the API and restarts of the worker

ASSUME SqlPreviewAssumption ==
    /\ Skew \in Nat /\ NonceLifetime \in Nat /\ PoolSize \in Nat \ {0}
    /\ IdleWindow \in Nat /\ AbsoluteWindow \in Nat /\ NonceEntries \in Nat
    /\ Skew < NonceLifetime           \* 60 and 120 seconds
    /\ IdleWindow <= AbsoluteWindow

VARIABLES
    preview,    \* preview[p]: where a request is and when its command was issued
    execution,  \* status of its row in sql_executions
    entries,    \* its entries in the audit ledger
    elevation,  \* the session's row in ops_sql_elevations
    query,      \* query[p]: the worker's side of the command
    runs,       \* times this worker process ran the statement
    delivered,  \* times the command reached a worker
    usedNonces,     \* expiry of each nonce in the store
    sqlSecond, sqlMishaps

apiVars    == <<preview, execution, entries, elevation>>
workerVars == <<query, runs, delivered, usedNonces>>
sqlVars    == <<apiVars, workerVars, sqlSecond, sqlMishaps>>

NoNonce == -1
NotSent == -1

SqlInit ==
    /\ preview = [p \in Previews |-> [pc |-> "new", issued |-> NotSent, failure |-> FALSE]]
    /\ execution = [p \in Previews |-> "none"]
    /\ entries = [p \in Previews |-> {}]
    /\ elevation = [granted |-> FALSE, idle |-> 0, absolute |-> 0]
    /\ query = [p \in Previews |-> "none"]
    /\ runs = [p \in Previews |-> 0] /\ delivered = [p \in Previews |-> 0]
    /\ usedNonces = [p \in Previews |-> NoNonce]
    /\ sqlSecond = 0 /\ sqlMishaps = 0

PreviewAt(p, pc) == [preview EXCEPT ![p].pc = pc]

\* SqlElevationService.grant: the row of the session is inserted or replaced.
GrantElevation ==
    /\ elevation' = [granted |-> TRUE, idle |-> sqlSecond + IdleWindow, absolute |-> sqlSecond + AbsoluteWindow]
    /\ elevation' # elevation
    /\ UNCHANGED <<preview, execution, entries, workerVars, sqlSecond, sqlMishaps>>

Elevated == elevation.granted /\ elevation.idle > sqlSecond /\ elevation.absolute > sqlSecond

Earlier(a, b) == IF a < b THEN a ELSE b

\* consumeActive: a live elevation slides, never past its absolute expiry.
ConsumeElevation(p) ==
    /\ preview[p].pc = "new"
    /\ IF Elevated
       THEN /\ elevation' = [elevation EXCEPT !.idle = Earlier(sqlSecond + IdleWindow, elevation.absolute)]
            /\ preview' = PreviewAt(p, "elevated")
       ELSE preview' = PreviewAt(p, "denied") /\ UNCHANGED elevation
    /\ UNCHANGED <<execution, entries, workerVars, sqlSecond, sqlMishaps>>

\* startReadPreview: the record of the execution is inserted as running.
StartReadPreview(p) ==
    /\ preview[p].pc = "elevated" /\ execution[p] = "none"
    /\ execution' = [execution EXCEPT ![p] = "running"]
    /\ preview' = PreviewAt(p, "recorded")
    /\ UNCHANGED <<entries, elevation, workerVars, sqlSecond, sqlMishaps>>

\* The start is in the ledger before the command is signed and sent.
AuditStarted(p) ==
    /\ preview[p].pc = "recorded"
    /\ entries' = [entries EXCEPT ![p] = @ \cup {"started"}]
    /\ preview' = [preview EXCEPT ![p].pc = "calling", ![p].issued = sqlSecond]
    /\ UNCHANGED <<execution, elevation, workerVars, sqlSecond, sqlMishaps>>

Used == {p \in Previews : usedNonces[p] # NoNonce /\ usedNonces[p] > sqlSecond}

\* authenticateWorkerCommand: the command is young, and its nonce is neither
\* used nor without room in the store.
Accepts(p) ==
    /\ sqlSecond - preview[p].issued <= Skew
    /\ p \notin Used /\ Cardinality(Used) < NonceEntries

\* A copy of the command reaches the worker.  consume drops expired nonces
\* only for a command that is young enough to get there.
DeliverCommand(p) ==
    /\ preview[p].issued # NotSent
    /\ delivered[p] < MaxDeliveries /\ query[p] \in {"none", "denied", "answered"}
    /\ delivered' = [delivered EXCEPT ![p] = @ + 1]
    /\ query' = [query EXCEPT ![p] = IF Accepts(p) THEN "waiting" ELSE "denied"]
    /\ usedNonces' = IF sqlSecond - preview[p].issued > Skew THEN usedNonces
                 ELSE [q \in Previews |->
                         IF q = p /\ Accepts(p) THEN sqlSecond + NonceLifetime
                         ELSE IF q \in Used THEN usedNonces[q] ELSE NoNonce]
    /\ UNCHANGED <<apiVars, runs, sqlSecond, sqlMishaps>>

\* createReadPreviewer, executeReadOnly: a connection of the pool, BEGIN READ
\* ONLY and the cursor.
BeginRead(p) ==
    /\ query[p] = "waiting"
    /\ Cardinality({q \in Previews : query[q] = "reading"}) < PoolSize
    /\ query' = [query EXCEPT ![p] = "reading"]
    /\ runs' = [runs EXCEPT ![p] = @ + 1]
    /\ UNCHANGED <<apiVars, delivered, usedNonces, sqlSecond, sqlMishaps>>

\* ROLLBACK in every case; rows, a failure, or a frame too large for the
\* protocol.  Only the first copy came on the client's socket, and a client
\* that gave up no longer listens.
EndRead(p, outcome) ==
    /\ query[p] = "reading"
    /\ query' = [query EXCEPT ![p] = "answered"]
    /\ preview' = IF preview[p].pc = "calling" /\ delivered[p] = 1
                  THEN [preview EXCEPT ![p].pc = "finish", ![p].failure = outcome # "rows"]
                  ELSE preview
    /\ UNCHANGED <<execution, entries, elevation, runs, delivered, usedNonces, sqlSecond, sqlMishaps>>

\* A refusal reaches the client as WORKER_COMMAND_DENIED.
Denied(p) ==
    /\ query[p] = "denied" /\ preview[p].pc = "calling" /\ delivered[p] = 1
    /\ preview' = [preview EXCEPT ![p].pc = "finish", ![p].failure = TRUE]
    /\ UNCHANGED <<execution, entries, elevation, workerVars, sqlSecond, sqlMishaps>>

\* SQL_WORKER_COMMAND_TIMEOUT_MS passes, or the socket fails.
GiveUp(p) ==
    /\ preview[p].pc = "calling"
    /\ preview' = [preview EXCEPT ![p].pc = "finish", ![p].failure = TRUE]
    /\ UNCHANGED <<execution, entries, elevation, workerVars, sqlSecond, sqlMishaps>>

\* finishReadPreview: only a running record is finished.
FinishReadPreview(p) ==
    /\ preview[p].pc = "finish"
    /\ execution' = [execution EXCEPT ![p] = IF @ = "running" THEN (IF preview[p].failure THEN "failed" ELSE "previewed") ELSE @]
    /\ preview' = PreviewAt(p, "finished")
    /\ UNCHANGED <<entries, elevation, workerVars, sqlSecond, sqlMishaps>>

\* The outcome is in the ledger before it is answered.
AuditFinished(p) ==
    /\ preview[p].pc = "finished"
    /\ entries' = [entries EXCEPT ![p] = @ \cup {IF preview[p].failure THEN "failed" ELSE "previewed"}]
    /\ preview' = PreviewAt(p, IF preview[p].failure THEN "failed" ELSE "rows")
    /\ UNCHANGED <<execution, elevation, workerVars, sqlSecond, sqlMishaps>>

\* A database or audit call throws: the request ends where it is, and nothing
\* repairs a record that is still running.
CallThrows(p) ==
    /\ preview[p].pc \in {"new", "elevated", "recorded", "finish", "finished"}
    /\ sqlMishaps < MaxSqlMishaps /\ sqlMishaps' = sqlMishaps + 1
    /\ preview' = PreviewAt(p, "error")
    /\ UNCHANGED <<execution, entries, elevation, workerVars, sqlSecond>>

\* The worker restarts: its nonces and queries are gone, and the client's
\* socket closes without an error, so the client waits for its timeout.
WorkerRestarts ==
    /\ sqlMishaps < MaxSqlMishaps /\ sqlMishaps' = sqlMishaps + 1
    /\ usedNonces' = [p \in Previews |-> NoNonce]
    /\ query' = [p \in Previews |-> IF query[p] = "none" THEN "none" ELSE "answered"]
    /\ runs' = [p \in Previews |-> 0]
    /\ UNCHANGED <<apiVars, delivered, sqlSecond>>

SqlSecondPasses ==
    /\ sqlSecond < MaxSqlSecond /\ sqlSecond' = sqlSecond + 1
    /\ UNCHANGED <<apiVars, workerVars, sqlMishaps>>

SqlNext ==
    \/ GrantElevation \/ WorkerRestarts \/ SqlSecondPasses
    \/ \E p \in Previews :
         \/ ConsumeElevation(p) \/ StartReadPreview(p) \/ AuditStarted(p) \/ CallThrows(p)
         \/ DeliverCommand(p) \/ BeginRead(p) \/ Denied(p) \/ GiveUp(p)
         \/ FinishReadPreview(p) \/ AuditFinished(p)
         \/ \E outcome \in {"rows", "failed", "too large"} : EndRead(p, outcome)

SqlSpec == SqlInit /\ [][SqlNext]_sqlVars

-----
\* Rows are answered only for a statement whose record says previewed and
\* whose start and outcome are both in the audit ledger.
RowsAreAudited == \A p \in Previews : preview[p].pc = "rows" =>
    execution[p] = "previewed" /\ {"started", "previewed"} \subseteq entries[p]

\* No worker runs a statement whose start is not in the ledger, and one worker
\* process runs a command once, however often it is delivered.
RunOnce == \A p \in Previews : runs[p] > 0 => "started" \in entries[p] /\ runs[p] = 1

\* Using an elevation never keeps it alive past the absolute expiry it was
\* granted with.
ElevationIsBounded == elevation.idle <= elevation.absolute

SqlPreviewIsSafe == RowsAreAudited /\ RunOnce /\ ElevationIsBounded

-----
CONSTANTS Pools,            \* the pools, in the order in which they are opened
          Target,           \* the explorer pool whose target is probed
          HealthInterval,   \* TARGET_HEALTH_INTERVAL_MS
          MaxActiveProbes,  \* maxActiveProbes
          MaxProbes,        \* bound of the probe ids
          MaxTick,          \* bound of the clock
          MaxCloseFaults    \* pools that fail to close

ASSUME RegistryAssumption ==
    /\ Pools \in Nat \ {0} /\ Target \in 1..Pools
    /\ MaxActiveProbes \in Nat \ {0} /\ MaxProbes \in Nat

VARIABLES
    workerStep,   \* where startOpsSqlWorker or close is
    pool,         \* pool[i]: none, open, or closed (end was called)
    targetEntry,  \* what setupTarget recorded of the target
    status,       \* state.status of the registry
    lastProbeAt, latestProbeId,
    inFlight,     \* the probe whose promise summaries awaits, 0 for none
    probe,        \* probe[i]: new, active, late (timed out) or settled
    verdict,      \* history: what probe i found, when it counted
    tick, closeFaults

registryVars == <<workerStep, pool, targetEntry, status, lastProbeAt, latestProbeId,
                  inFlight, probe, verdict, tick, closeFaults>>
probeVars    == <<status, lastProbeAt, latestProbeId, inFlight, probe, verdict>>

RegistryInit ==
    /\ workerStep = [pc |-> "opening", at |-> 1]
    /\ pool = [i \in 1..Pools |-> "none"] /\ targetEntry = "disabled"
    /\ status = "disabled" /\ lastProbeAt = 0 /\ latestProbeId = 0 /\ inFlight = 0
    /\ probe = [i \in 1..MaxProbes |-> "new"] /\ verdict = [i \in 1..MaxProbes |-> "none"]
    /\ tick = 0 /\ closeFaults = 0

Step(pc, at) == workerStep' = [pc |-> pc, at |-> at]

\* A pool is created and the identity of its connection checked, unless its
\* URL is refused before.
CreatePool(healthy) ==
    /\ \/ pool' = [pool EXCEPT ![workerStep.at] = "open"]
       \/ ~healthy /\ UNCHANGED pool
    /\ UNCHANGED <<probeVars, tick, closeFaults>>

\* The read and the mutation pool: a failing one ends the start.
OpenPool(healthy) ==
    /\ workerStep.pc = "opening" /\ workerStep.at \in 1..(Target - 1)
    /\ CreatePool(healthy)
    /\ IF healthy THEN Step("opening", workerStep.at + 1) ELSE Step("failing", 1)
    /\ UNCHANGED targetEntry

\* An explorer target that fails is recorded as unavailable.
SetupTarget(healthy) ==
    /\ workerStep.pc = "opening" /\ workerStep.at \in Target..Pools
    /\ CreatePool(healthy)
    /\ targetEntry' = IF workerStep.at # Target THEN targetEntry
                      ELSE IF healthy THEN "available" ELSE "unavailable"
    /\ Step("opening", workerStep.at + 1)

\* createTargetRegistry, and the socket: listening may fail.
Listen(ok) ==
    /\ workerStep.pc = "opening" /\ workerStep.at > Pools
    /\ IF ok THEN Step("serving", 1) ELSE Step("failing", 1)
    /\ status' = targetEntry /\ lastProbeAt' = tick
    /\ UNCHANGED <<pool, targetEntry, latestProbeId, inFlight, probe, verdict, tick, closeFaults>>

Active == {i \in 1..MaxProbes : probe[i] \in {"active", "late"}}

\* refresh, called by summaries: at most one probe in flight, one per
\* interval, and no more than maxActiveProbes that have not settled.
Refresh ==
    /\ workerStep.pc = "serving" /\ targetEntry = "available"
    /\ inFlight = 0 /\ tick - lastProbeAt >= HealthInterval
    /\ Cardinality(Active) < MaxActiveProbes
    /\ latestProbeId < MaxProbes
    /\ latestProbeId' = latestProbeId + 1 /\ inFlight' = latestProbeId + 1
    /\ lastProbeAt' = tick
    /\ probe' = [probe EXCEPT ![latestProbeId + 1] = "active"]
    /\ UNCHANGED <<workerStep, pool, targetEntry, status, verdict, tick, closeFaults>>

\* Mutant of ProbeSettles: a probe that timed out still has its say.
ProbeSettlesLate(i, up) ==
    /\ i \in Active
    /\ probe' = [probe EXCEPT ![i] = "settled"]
    /\ status' = IF up THEN "available" ELSE "unavailable"
    /\ verdict' = [verdict EXCEPT ![i] = IF probe[i] = "late" THEN @ ELSE IF up THEN "available" ELSE "unavailable"]
    /\ inFlight' = IF inFlight = i THEN 0 ELSE inFlight
    /\ UNCHANGED <<workerStep, pool, targetEntry, lastProbeAt, latestProbeId, tick, closeFaults>>

\* The probe answers or fails; only the latest one, in time, sets the status.
ProbeSettles(i, up) ==
    /\ i \in Active
    /\ probe' = [probe EXCEPT ![i] = "settled"]
    /\ LET says == IF up THEN "available" ELSE "unavailable" IN
       IF i = latestProbeId /\ probe[i] = "active"
       THEN status' = says /\ verdict' = [verdict EXCEPT ![i] = says]
       ELSE UNCHANGED <<status, verdict>>
    /\ inFlight' = IF inFlight = i THEN 0 ELSE inFlight
    /\ UNCHANGED <<workerStep, pool, targetEntry, lastProbeAt, latestProbeId, tick, closeFaults>>

\* probeTimeoutMs passes: the target is unavailable and summaries goes on.
ProbeTimesOut(i) ==
    /\ probe[i] = "active"
    /\ probe' = [probe EXCEPT ![i] = "late"]
    /\ IF i = latestProbeId
       THEN status' = "unavailable" /\ verdict' = [verdict EXCEPT ![i] = "unavailable"]
       ELSE UNCHANGED <<status, verdict>>
    /\ inFlight' = IF inFlight = i THEN 0 ELSE inFlight
    /\ UNCHANGED <<workerStep, pool, targetEntry, lastProbeAt, latestProbeId, tick, closeFaults>>

\* close, called any number of times; the first call does the work.
CloseWorker ==
    /\ workerStep.pc = "serving" /\ Step("closing", 1)
    /\ UNCHANGED <<pool, targetEntry, probeVars, tick, closeFaults>>

\* end() of one pool.  When it throws the error is remembered and the next
\* pool follows.
EndPool ==
    /\ workerStep.at <= Pools
    /\ pool' = [pool EXCEPT ![workerStep.at] = IF @ = "open" THEN "closed" ELSE @]
    /\ Step(workerStep.pc, workerStep.at + 1)
    /\ \/ UNCHANGED closeFaults
       \/ closeFaults < MaxCloseFaults /\ closeFaults' = closeFaults + 1
    /\ UNCHANGED <<targetEntry, probeVars, tick>>

ClosePool == workerStep.pc = "closing" /\ EndPool
CleanUpPool == workerStep.pc = "failing" /\ EndPool

WorkerClosed ==
    /\ workerStep.pc \in {"closing", "failing"} /\ workerStep.at > Pools
    /\ Step(IF workerStep.pc = "closing" THEN "stopped" ELSE "refused", 0)
    /\ UNCHANGED <<pool, targetEntry, probeVars, tick, closeFaults>>

TickPasses ==
    /\ tick < MaxTick /\ workerStep.pc = "serving" /\ tick' = tick + 1
    /\ UNCHANGED <<workerStep, pool, targetEntry, probeVars, closeFaults>>

RegistryNext ==
    \/ \E b \in BOOLEAN : OpenPool(b) \/ SetupTarget(b) \/ Listen(b)
    \/ Refresh \/ CloseWorker \/ ClosePool \/ CleanUpPool \/ WorkerClosed \/ TickPasses
    \/ \E i \in 1..MaxProbes : ProbeTimesOut(i) \/ \E up \in BOOLEAN : ProbeSettles(i, up)

RegistrySpec == RegistryInit /\ [][RegistryNext]_registryVars

-----
\* The status the registry shows is the verdict of the youngest probe that has
\* one: neither an abandoned probe nor one that settles after its time-out
\* changes it back.
StatusIsTheLatestVerdict ==
    LET heard == {i \in 1..latestProbeId : verdict[i] # "none"} IN
    \A i \in heard : (\A j \in heard : j <= i) => status = verdict[i]

\* Probes that ignore their abort signal never pile up.
OrphansAreBounded == Cardinality(Active) <= MaxActiveProbes /\ Cardinality({i \in 1..MaxProbes : probe[i] = "active"}) <= 1

\* A worker that stopped or refused to start leaves no pool open, whatever
\* failed on the way.
PoolsAreReleased == workerStep.pc \in {"stopped", "refused"} => \A i \in 1..Pools : pool[i] # "open"

RegistryIsSound == StatusIsTheLatestVerdict /\ OrphansAreBounded /\ PoolsAreReleased

\* The SQL worker runs a preview once, audited, and reports of its targets what
\* their latest probe found.
WorkerIsSafe == SqlPreviewIsSafe /\ RegistryIsSound
======
