------ MODULE MonitorStore ------
(* The SQLite store of the legacy monitor
   (apps/web/src/server/storage/store.ts).  Two parts:
   
   Opening the file (createOpsStore): the schema and its migrations in one
   transaction, then, outside of it, VACUUM and the version number.  The
   collector and the web process open the file side by side, and either can
   die between the two.
   
   Retention (pruneRetentionBatch): a run fixes its cutoffs in the table
   retention_state; each call of the collector then commits at most one batch:
   old samples move to a stage table as counts per day and monitor, the stage
   moves to daily_rollups, old rollups and old rows of the event tables go, and
   the run is closed.  The process may die after any commit.  Time is counted
   in ticks, DayTicks of them to a day. *)
EXTENDS Integers, FiniteSets, FiniteSetsExt, SequencesExt

CONSTANTS
    Openers,        \* processes that open the file
    SchemaVersion,  \* SCHEMA_VERSION (4)
    MaxDeaths       \* bound on crashes and failed VACUUMs

ASSUME VersionAssumption == SchemaVersion \in Nat /\ SchemaVersion > 3

VARIABLES
    version,        \* schema_version.version, 0 in an empty file
    recipients,     \* recipient column of alert_deliveries: "plain" or "cipher"
    zaloColumns,    \* owner column of the Zalo tables: "account" or "principal"
    residue,        \* plaintext recipients remain in free pages of the file
    legacyRows,     \* the file has deliveries of an old version
    opener,         \* what each process is at: "closed", "vacuum", "open"
    deaths

migrationVars == <<version, recipients, zaloColumns, residue, legacyRows, opener, deaths>>

MigrationInit ==
    /\ \/ version = 0 /\ recipients = "cipher" /\ zaloColumns = "principal" /\ legacyRows = FALSE
       \/ version = 2 /\ recipients = "plain" /\ zaloColumns = "account" /\ legacyRows \in BOOLEAN
       \/ version = 3 /\ recipients = "cipher" /\ zaloColumns = "account" /\ legacyRows \in BOOLEAN
    /\ residue = FALSE /\ deaths = 0
    /\ opener = [p \in Openers |-> "closed"]

\* migrateDeliveryRecipients returns whether the file has to be sanitized: the
\* rows were encrypted now, or by an opener that did not finish.
RecipientsNeedSanitizing == version < 3 /\ (recipients = "cipher" \/ legacyRows)

\* migrateZaloPrincipals: the tables are renamed and copied.
ZaloNeedsSanitizing == version < SchemaVersion /\ zaloColumns = "account"

\* The transaction of the opening: the version is raised at once only when
\* there is nothing to sanitize.
OpenTransaction(p) ==
    /\ opener[p] = "closed"
    /\ LET sanitize == version # 0 /\ (RecipientsNeedSanitizing \/ ZaloNeedsSanitizing)
       IN  /\ version' = IF sanitize THEN version ELSE SchemaVersion
           /\ opener' = [opener EXCEPT ![p] = IF sanitize THEN "vacuum" ELSE "open"]
    /\ residue' = (residue \/ (recipients = "plain" /\ legacyRows))
    /\ recipients' = "cipher" /\ zaloColumns' = "principal"
    /\ UNCHANGED <<legacyRows, deaths>>

\* VACUUM, checkpoint and the version number, each a statement of its own.
Vacuum(p) ==
    /\ opener[p] = "vacuum" /\ residue' = FALSE
    /\ opener' = [opener EXCEPT ![p] = "version"]
    /\ UNCHANGED <<version, recipients, zaloColumns, legacyRows, deaths>>

RaiseVersion(p) ==
    /\ opener[p] = "version" /\ version' = SchemaVersion
    /\ opener' = [opener EXCEPT ![p] = "open"]
    /\ UNCHANGED <<recipients, zaloColumns, residue, legacyRows, deaths>>

\* A crash, or a VACUUM that finds the file locked: the process closes it and
\* is started again.
Die(p) ==
    /\ opener[p] # "closed" /\ deaths < MaxDeaths
    /\ opener' = [opener EXCEPT ![p] = "closed"] /\ deaths' = deaths + 1
    /\ UNCHANGED <<version, recipients, zaloColumns, residue, legacyRows>>

MigrationNext ==
    \E p \in Openers : OpenTransaction(p) \/ Vacuum(p) \/ RaiseVersion(p) \/ Die(p)

MigrationSpec == MigrationInit /\ [][MigrationNext]_migrationVars

\* A file that says it has the current version holds no plaintext recipient,
\* in its tables or in its free pages, whoever migrated it and wherever an
\* opener died, and no process serves a file in another state.
CurrentIsSanitized ==
    version = SchemaVersion \/ (\E p \in Openers : opener[p] = "open") =>
        ~residue /\ recipients = "cipher" /\ zaloColumns = "principal"

-----
CONSTANTS
    SampledMonitors,   \* monitors that record samples
    RecordedRanks,     \* the levels they record, as ranks
    EventTicks,        \* the first ticks, in which event rows are written
    DayTicks,          \* ticks in a day
    RawKeep,           \* ticks a raw sample is kept (30 days in the code)
    RollupKeep,        \* ticks a rollup is kept (365 days)
    EventKeep,         \* ticks an incident, delivery or audit row is kept (90 days)
    RunInterval,       \* ticks between two runs (24 hours)
    BatchSize,         \* RETENTION_BATCH_SIZE
    MaxTicks           \* bound on the clock

ASSUME RetentionAssumption ==
    /\ {DayTicks, RawKeep, RollupKeep, EventKeep, RunInterval, BatchSize} \subseteq Nat \ {0}
    /\ RawKeep <= RollupKeep /\ MaxTicks \in Nat

VARIABLES
    clock,
    samples,      \* table monitor_samples: [id, at, mon, rank]
    stage,        \* table retention_rollup_stage, by <<day, monitor>>
    rollups,      \* table daily_rollups, by <<day, monitor>>
    eventRows,    \* rows of the event tables: [table, at, settled]
    run,          \* retention_state: the cutoffs of the run, or NoRun
    lastCompleted,\* retention_state.last_completed_at, or Unset
    ever,         \* every sample ever recorded
    forgotten     \* the highest rollup cutoff any run has used

storeTables == <<samples, stage, rollups, eventRows>>
retentionVars == <<clock, storeTables, run, lastCompleted, ever, forgotten>>

Unset == -1
NoRun == [raw |-> Unset, rollup |-> Unset, event |-> Unset]
Running == run # NoRun

CleanupTables == <<"incidents", "alert_deliveries", "audit_events", "login_attempts">>

Day(t) == t \div DayTicks
KeyOf(s) == <<Day(s.at), s.mon>>
Empty == [k \in {} |-> 0]

RetentionInit ==
    /\ clock = 0 /\ samples = {} /\ stage = Empty /\ rollups = Empty /\ eventRows = {}
    /\ run = NoRun /\ lastCompleted = Unset /\ ever = {} /\ forgotten = Unset

-----
\* recordSample, and time passing to the next cycle.
RecordSample ==
    /\ clock < MaxTicks
    /\ \E mon \in SampledMonitors, rank \in RecordedRanks :
        LET s == [id |-> Cardinality(ever) + 1, at |-> clock, mon |-> mon, rank |-> rank]
        IN  samples' = samples \cup {s} /\ ever' = ever \cup {s}
    /\ clock' = clock + 1
    /\ UNCHANGED <<stage, rollups, eventRows, run, lastCompleted, forgotten>>

\* A row of an event table is written: an incident still open or a delivery
\* still queued is not settled, every other row is.
RecordEvent ==
    /\ clock < EventTicks /\ eventRows = {}
    /\ \E t \in Range(CleanupTables), settled \in BOOLEAN :
        /\ settled \/ t \in {"incidents", "alert_deliveries"}
        /\ eventRows' = eventRows \cup {[table |-> t, at |-> clock, settled |-> settled]}
    /\ UNCHANGED <<clock, samples, stage, rollups, run, lastCompleted, ever, forgotten>>

Idle15Seconds ==
    /\ clock < MaxTicks /\ clock' = clock + 1
    /\ UNCHANGED <<storeTables, run, lastCompleted, ever, forgotten>>

-----
\* startRun: the cutoffs of a new run, when none is under way and the last
\* one is a day old.
StartRun ==
    /\ ~Running
    /\ lastCompleted = Unset \/ clock - lastCompleted >= RunInterval
    /\ run' = [raw |-> clock - RawKeep, rollup |-> clock - RollupKeep, event |-> clock - EventKeep]
    /\ forgotten' = Max({forgotten, clock - RollupKeep})
    /\ UNCHANGED <<clock, storeTables, lastCompleted, ever>>

\* The oldest n members of a set of rows: those with less than n before them.
Older(a, b) == a.at < b.at \/ (a.at = b.at /\ a.id < b.id)
Oldest(rows, n) == {r \in rows : Cardinality({o \in rows : Older(o, r)}) < n}

OldSamples == {s \in samples : s.at < run.raw}

Summary(rows) == [count |-> Cardinality(rows), last |-> Max({s.at : s \in rows}), rank |-> Max({s.rank : s \in rows})]

\* stageUpsert: counts add up, the worst level stays.
StageUpsert(staged, new) ==
    [k \in DOMAIN staged \cup DOMAIN new |->
        IF k \notin DOMAIN new THEN staged[k]
        ELSE IF k \notin DOMAIN staged THEN new[k]
        ELSE [count |-> staged[k].count + new[k].count, last |-> Max({staged[k].last, new[k].last}),
              rank |-> Max({staged[k].rank, new[k].rank})]]

\* processRawBatch: the oldest samples before the cutoff are counted into the
\* stage (unless they are past the rollups' own cutoff) and deleted.
ProcessRawBatch ==
    /\ Running /\ OldSamples # {}
    /\ LET batch == Oldest(OldSamples, BatchSize)
           kept == {s \in batch : s.at >= run.rollup}
           groups == [k \in {KeyOf(s) : s \in kept} |-> Summary({s \in kept : KeyOf(s) = k})]
       IN  /\ stage' = StageUpsert(stage, groups)
           /\ samples' = samples \ batch
    /\ UNCHANGED <<clock, rollups, eventRows, run, lastCompleted, ever, forgotten>>

\* mergeStageBatch: staged rows are added to the rollups and leave the stage;
\* a rollup that is there already takes the level of the newer rows.
MergeStageBatch ==
    /\ Running /\ OldSamples = {} /\ DOMAIN stage # {}
    /\ \E k \in DOMAIN stage :
        /\ \A other \in DOMAIN stage : k[1] <= other[1]
        /\ rollups' = [x \in DOMAIN rollups \cup {k} |->
                IF x # k THEN rollups[x]
                ELSE IF k \notin DOMAIN rollups THEN stage[k]
                ELSE [count |-> rollups[k].count + stage[k].count,
                      last |-> Max({rollups[k].last, stage[k].last}), rank |-> stage[k].rank]]
        /\ stage' = [x \in DOMAIN stage \ {k} |-> stage[x]]
    /\ UNCHANGED <<clock, samples, eventRows, run, lastCompleted, ever, forgotten>>

StaleRollups == {k \in DOMAIN rollups : k[1] < Day(run.rollup)}
StaleEvents(t) == {e \in eventRows : e.table = t /\ e.settled /\ e.at < run.event}

\* deleteOldestBatch over the cleanup tables, in their order.
DeleteOldestBatch ==
    /\ Running /\ OldSamples = {} /\ DOMAIN stage = {}
    /\ \/ /\ StaleRollups # {}
          /\ \E k \in StaleRollups :
                /\ \A other \in StaleRollups : k[1] <= other[1]
                /\ rollups' = [x \in DOMAIN rollups \ {k} |-> rollups[x]]
          /\ UNCHANGED eventRows
       \/ /\ StaleRollups = {}
          /\ \E i \in 1..Len(CleanupTables) :
                /\ StaleEvents(CleanupTables[i]) # {}
                /\ \A j \in 1..(i - 1) : StaleEvents(CleanupTables[j]) = {}
                /\ \E e \in StaleEvents(CleanupTables[i]) : eventRows' = eventRows \ {e}
          /\ UNCHANGED rollups
    /\ UNCHANGED <<clock, samples, stage, run, lastCompleted, ever, forgotten>>

\* Mutant of FinishRun: a run may be closed before its stage is merged.
FinishRunEarly ==
    /\ Running /\ OldSamples = {} /\ StaleRollups = {}
    /\ run' = NoRun /\ lastCompleted' = clock
    /\ UNCHANGED <<clock, storeTables, ever, forgotten>>

FinishRun ==
    /\ Running /\ OldSamples = {} /\ DOMAIN stage = {} /\ StaleRollups = {}
    /\ \A i \in 1..Len(CleanupTables) : StaleEvents(CleanupTables[i]) = {}
    /\ run' = NoRun /\ lastCompleted' = clock
    /\ UNCHANGED <<clock, storeTables, ever, forgotten>>

PruneBatch == StartRun \/ ProcessRawBatch \/ MergeStageBatch \/ DeleteOldestBatch \/ FinishRun

RetentionNext == RecordSample \/ RecordEvent \/ Idle15Seconds \/ PruneBatch

RetentionSpec == RetentionInit /\ [][RetentionNext]_retentionVars

-----
Count(f, k) == IF k \in DOMAIN f THEN f[k].count ELSE 0

\* Wherever the process dies between two commits, no sample is lost and none
\* is counted twice: for every day and monitor that no run has let go, the raw
\* samples, the staged and the rolled up counts add up to what was recorded.
SamplesCountedOnce ==
    \A k \in {KeyOf(s) : s \in ever} :
        k[1] > Day(forgotten) =>
            Cardinality({s \in samples : KeyOf(s) = k}) + Count(stage, k) + Count(rollups, k)
                = Cardinality({s \in ever : KeyOf(s) = k})

\* Counts are staged only while a run is under way: nothing is left in the
\* stage, where no reader looks, between two runs.
StageIsTransient == ~Running => DOMAIN stage = {}

\* The tables account for every sample.
RetentionIsExact == SamplesCountedOnce /\ StageIsTransient

\* The file keeps every sample counted once over retention, and no plaintext
\* recipient once it says it is migrated.
StoreIsSound == RetentionIsExact /\ CurrentIsSanitized

\* A run that has started is completed: samples recorded meanwhile are past
\* its cutoff and cannot keep it busy.
RunCompletes == Running ~> ~Running
======
