------ MODULE ServerSpool ------
(* The server side telemetry client: packages/telemetry-sdk/src
   serverSpool.ts, server.ts, runtimeTelemetry.ts, serverTransport.ts.
   Processes share a spool directory: a file of records that is replaced
   as a whole, under a lock file that is created exclusively.  A process
   enqueues a captured event and flushes the spool to the collector at the
   same time.  A flush holds the lock while it delivers.  A process that
   is killed leaves its lock file behind. *)
EXTENDS Integers, FiniteSets

CONSTANTS
    Senders,        \* processes that share the spool directory
    SentEvents,     \* events, in the order in which they are captured
    Oversized,      \* events larger than the whole spool
    SpoolSize,      \* records that fit into maxBytes
    SpoolAge,       \* days a record is kept (maxAgeMilliseconds is one)
    MaxDay,         \* bound on the days that pass
    MaxSendFaults,  \* bound on failing deliveries
    MaxKills        \* bound on killed processes

ASSUME ServerSpoolAssumption ==
    /\ SentEvents \subseteq Nat /\ Oversized \subseteq SentEvents
    /\ SpoolSize \in Nat \ {0} /\ SpoolAge \in Nat
    /\ {MaxDay, MaxSendFaults, MaxKills} \subseteq Nat

VARIABLES
    spool,         \* events.ndjson: records [key, at, waiting]
    lockFile,      \* .events.lock: the job that created it, NoLock or StaleLock
    job,           \* the enqueue and the flush of every process
    healthy,       \* the health flags of every process
    undeliverable,
    day,
    captured,      \* events captured so far
    collected,     \* events the collector has stored
    queued,        \* history: events a process was told are queued
    own,           \* history: those it queued itself since it started
    given,         \* history: events evicted or expired
    sendFaults, kills

spoolFiles == <<spool, lockFile>>
healthVars == <<healthy, undeliverable>>
spoolHistory == <<queued, own, given>>
spoolVars == <<spoolFiles, job, healthVars, day, captured, collected, spoolHistory, sendFaults, kills>>

Jobs == Senders \X {"enqueue", "flush"}
NoLock == <<"none", "none">>
StaleLock == <<"none", "stale">>
IdleJob == [pc |-> "idle", key |-> 0, now |-> 0, todo |-> {}, retained |-> {}, delivered |-> 0]
SpooledKeys(records) == {r.key : r \in records}
Expired(record, now) == record.at < now - SpoolAge

\* chronological: the order in which the records of the file are handled.
Precedes(left, right) == left.at < right.at \/ (left.at = right.at /\ left.key < right.key)
Preceding(r, records) == {o \in records : Precedes(o, r)}

\* The file is replaced by a rename, so every line of it is a whole record.
ReadRecords == spool
WriteRecords(records) == spool' = records

\* The collector stores the event; the answer may still be lost.
Transport(key) == collected' = collected \cup {key}

ServerSpoolInit ==
    /\ spool = {} /\ lockFile = NoLock /\ job = [j \in Jobs |-> IdleJob]
    /\ healthy = [p \in Senders |-> TRUE] /\ undeliverable = [p \in Senders |-> FALSE]
    /\ day = 0 /\ captured = {} /\ collected = {} /\ queued = {} /\ given = {}
    /\ own = [p \in Senders |-> {}] /\ sendFaults = 0 /\ kills = 0

-----
\* captureException: the event goes to the spool, unless it alone is too large.
Capture(p) ==
    \E e \in SentEvents \ captured :
        /\ \A other \in SentEvents \ captured : e <= other
        /\ job[<<p, "enqueue">>].pc = "idle"
        /\ captured' = captured \cup {e}
        /\ IF e \in Oversized
           THEN /\ healthy' = [healthy EXCEPT ![p] = FALSE]
                /\ undeliverable' = [undeliverable EXCEPT ![p] = TRUE]
                /\ UNCHANGED job
           ELSE /\ job' = [job EXCEPT ![<<p, "enqueue">>] = [IdleJob EXCEPT !.pc = "lock", !.key = e, !.now = day]]
                /\ UNCHANGED healthVars
        /\ UNCHANGED <<spoolFiles, day, collected, spoolHistory, sendFaults, kills>>

\* withLock of an enqueue: the lock file is created.
TakeLock(p) ==
    /\ job[<<p, "enqueue">>].pc = "lock" /\ lockFile = NoLock
    /\ lockFile' = <<p, "enqueue">>
    /\ job' = [job EXCEPT ![<<p, "enqueue">>].pc = "locked"]
    /\ UNCHANGED <<spool, healthVars, day, captured, collected, spoolHistory, sendFaults, kills>>

\* A flush, by startRuntimeTelemetryMaintenance or after a capture, gets the
\* lock and reads the records.
StartFlush(p) ==
    /\ job[<<p, "flush">>].pc = "idle" /\ lockFile = NoLock
    /\ lockFile' = <<p, "flush">>
    /\ job' = [job EXCEPT ![<<p, "flush">>] = [IdleJob EXCEPT !.pc = "locked", !.now = day, !.todo = ReadRecords]]
    /\ UNCHANGED <<spool, healthVars, day, captured, collected, spoolHistory, sendFaults, kills>>

\* 40 attempts of 25 ms are over: the operation, of which nothing is left,
\* throws.
LockTimesOut(p) ==
    /\ lockFile # NoLock
    /\ \/ job[<<p, "enqueue">>].pc = "lock" /\ job' = [job EXCEPT ![<<p, "enqueue">>] = IdleJob]
       \/ job[<<p, "flush">>].pc = "idle" /\ healthy[p] /\ UNCHANGED job
    /\ healthy' = [healthy EXCEPT ![p] = FALSE]
    /\ UNCHANGED <<spoolFiles, undeliverable, day, captured, collected, spoolHistory, sendFaults, kills>>

\* The records enqueue keeps: those not expired, less the oldest until the
\* new one fits.
Retained(now) ==
    LET young == {r \in ReadRecords : ~Expired(r, now)}
        surplus == Cardinality(young) + 1 - SpoolSize
    IN  {r \in young : Cardinality(Preceding(r, young)) >= surplus}

\* What a process makes of the answer to its own enqueue and to its flush.
QueuedReported(p, evicted) ==
    /\ healthy' = [healthy EXCEPT ![p] = FALSE]
    /\ undeliverable' = [undeliverable EXCEPT ![p] = @ \/ evicted # {}]

FlushReported(p, deferred, delivered) ==
    LET fine == deferred = 0 /\ ~(undeliverable[p] /\ delivered = 0)
    IN  /\ healthy' = [healthy EXCEPT ![p] = fine]
        /\ undeliverable' = [undeliverable EXCEPT ![p] = @ /\ ~fine]

Enqueue(p) ==
    LET this == job[<<p, "enqueue">>]
        kept == Retained(this.now)
        evicted == SpooledKeys(spool) \ SpooledKeys(kept)
    IN  /\ this.pc = "locked"
        /\ WriteRecords(kept \cup {[key |-> this.key, at |-> this.now, waiting |-> FALSE]})
        /\ lockFile' = NoLock
        /\ queued' = queued \cup {this.key} /\ given' = given \cup evicted
        /\ own' = [own EXCEPT ![p] = @ \cup {this.key}]
        /\ QueuedReported(p, evicted)
        /\ job' = [job EXCEPT ![<<p, "enqueue">>] = IdleJob]
        /\ UNCHANGED <<day, captured, collected, sendFaults, kills>>

\* Mutant of FlushNext: a record is given up after its first failure.
FlushNextWithoutRetry(p) ==
    LET this == job[<<p, "flush">>] IN
    \E record \in this.todo :
        /\ this.pc = "locked" /\ Preceding(record, this.todo) = {}
        /\ job' = [job EXCEPT ![<<p, "flush">>].todo = @ \ {record}]
        /\ \/ Transport(record.key) /\ UNCHANGED sendFaults
           \/ sendFaults < MaxSendFaults /\ sendFaults' = sendFaults + 1 /\ UNCHANGED collected
        /\ UNCHANGED <<spoolFiles, healthVars, day, captured, spoolHistory, kills>>

\* One record of a flush: an expired one is dropped, one whose backoff is not
\* over is kept, every other one is sent.  A delivery that fails, although the
\* collector may have stored the event, is kept with a new backoff.
FlushNext(p) ==
    LET this == job[<<p, "flush">>] IN
    \E record \in this.todo :
        LET rest == this.todo \ {record}
            Keep(r) == job' = [job EXCEPT ![<<p, "flush">>].todo = rest, ![<<p, "flush">>].retained = @ \cup {r}]
        IN  /\ this.pc = "locked" /\ Preceding(record, this.todo) = {}
            /\ \/ /\ Expired(record, this.now)
                  /\ given' = given \cup {record.key}
                  /\ job' = [job EXCEPT ![<<p, "flush">>].todo = rest]
                  /\ UNCHANGED <<collected, sendFaults>>
               \/ /\ ~Expired(record, this.now) /\ record.waiting
                  /\ Keep(record)
                  /\ UNCHANGED <<collected, given, sendFaults>>
               \/ /\ ~Expired(record, this.now) /\ ~record.waiting
                  /\ Transport(record.key)
                  /\ job' = [job EXCEPT ![<<p, "flush">>].todo = rest, ![<<p, "flush">>].delivered = @ + 1]
                  /\ UNCHANGED <<given, sendFaults>>
               \/ /\ ~Expired(record, this.now) /\ ~record.waiting
                  /\ sendFaults < MaxSendFaults /\ sendFaults' = sendFaults + 1
                  /\ \/ UNCHANGED collected
                     \/ Transport(record.key)
                  /\ Keep([record EXCEPT !.waiting = TRUE])
                  /\ UNCHANGED given
            /\ UNCHANGED <<spoolFiles, healthVars, day, captured, queued, own, kills>>

\* The flush writes what it kept, releases the lock and reports its health.
FlushEnd(p) ==
    LET this == job[<<p, "flush">>]
    IN  /\ this.pc = "locked" /\ this.todo = {}
        /\ WriteRecords(this.retained) /\ lockFile' = NoLock
        /\ job' = [job EXCEPT ![<<p, "flush">>] = IdleJob]
        /\ FlushReported(p, Cardinality(this.retained), this.delivered)
        /\ UNCHANGED <<day, captured, collected, spoolHistory, sendFaults, kills>>

-----
\* A backoff of at most 23 minutes is over; a flush in progress, which compares
\* with the time it started at, does not notice.
BackoffOver ==
    /\ \A p \in Senders : job[<<p, "flush">>].pc # "locked"
    /\ \E r \in spool : r.waiting
    /\ spool' = {[r EXCEPT !.waiting = FALSE] : r \in spool}
    /\ UNCHANGED <<lockFile, job, healthVars, day, captured, collected, spoolHistory, sendFaults, kills>>

NextDay ==
    /\ day < MaxDay /\ day' = day + 1
    /\ UNCHANGED <<spoolFiles, job, healthVars, captured, collected, spoolHistory, sendFaults, kills>>

\* A process is killed and restarted; a lock file it created stays.
Kill(p) ==
    /\ kills < MaxKills /\ kills' = kills + 1
    /\ job' = [j \in Jobs |-> IF j[1] = p THEN IdleJob ELSE job[j]]
    /\ lockFile' = IF lockFile \in {<<p, "enqueue">>, <<p, "flush">>} THEN StaleLock ELSE lockFile
    /\ healthy' = [healthy EXCEPT ![p] = TRUE] /\ undeliverable' = [undeliverable EXCEPT ![p] = FALSE]
    /\ own' = [own EXCEPT ![p] = {}]
    /\ UNCHANGED <<spool, day, captured, collected, queued, given, sendFaults>>

ServerSpoolStep(p) == TakeLock(p) \/ Enqueue(p) \/ StartFlush(p) \/ FlushNext(p) \/ FlushEnd(p)

ServerSpoolNext ==
    \/ \E p \in Senders : Capture(p) \/ ServerSpoolStep(p) \/ LockTimesOut(p) \/ Kill(p)
    \/ BackoffOver \/ NextDay

ServerSpoolSpec == ServerSpoolInit /\ [][ServerSpoolNext]_spoolVars

-----
\* Whatever is killed, times out or fails, an event a process was told is
\* queued is in the spool file, or stored by the collector, or was evicted or
\* expired: a flush that writes its remainder never overwrites an event that
\* was enqueued meanwhile.
SpoolConserves == queued \subseteq SpooledKeys(spool) \cup collected \cup given

\* The spool never outgrows its bound.
SpoolFits == Cardinality(spool) <= SpoolSize

\* A process that calls itself healthy has none of its events in the spool.
HealthIsHonest == \A p \in Senders : healthy[p] => own[p] \cap SpooledKeys(spool) = {}

ServerSpoolIsSafe == SpoolConserves /\ SpoolFits /\ HealthIsHonest

\* Again and again: all that was spooled has left the spool, unless a killed
\* process left its lock file behind, which nobody ever removes.
SpoolSettled == spool = {} \/ lockFile = StaleLock
======
