------ MODULE ProcessorQueue ------
(* The path of an error report from the ingest endpoint to an issue.
   
   The API stores each envelope once, under the idempotency key of its
   client (apps/api/src/modules/ingest/postgresIngestStore.ts), with a row
   of ingest_processing.  Processor workers (apps/processor/src) claim
   rows, count the occurrence in an issue within one transaction, retry
   what fails and give up after a number of attempts.  A claim older than
   five minutes is released, whether or not its worker is still at work.
   Operators move issues along meanwhile (postgresIssueWorkflow.ts).
   
   A fingerprint is a function of the payload; so is the affected user.
   Delays are left out: a row that waits for its next attempt becomes due,
   and a claim becomes five minutes old, at any time. *)
EXTENDS Integers, Sequences, FiniteSets, SequencesExt, FiniteSetsExt

CONSTANTS
    Keys,              \* idempotency keys of the ingest clients
    Payloads,          \* contents of envelopes
    Fingerprints,      \* fingerprints, each of one issue
    Users,             \* user references in envelopes
    Workers,           \* processor processes
    Fingerprint,       \* [Payloads -> Fingerprints], fingerprintEvent
    UserRef,           \* the signed identity of a payload's user, if it has one
    NoValue,           \* the absent value
    MaxAttempts,       \* OPS_PROCESSOR_MAX_ATTEMPTS, default 10
    QueueMaxAttempts,  \* maxAttempts of PostgresProcessorQueue, always 10
    MaxFaults,         \* bound on failing transactions, lost answers, crashes
    MaxOvertakes,      \* bound on rows released, once each, under a living worker
    MaxTransitions     \* bound on operator transitions

\* What an operator may set (postgresIssueWorkflow.ts:6), and all there is.
OperatorStatus == {"acknowledged", "investigating", "resolved", "ignored"}
IssueStatus == OperatorStatus \union {"new", "regressed"}

\* A row of error_issues, with its activity and its affected users.
Issues ==
    [status : IssueStatus, count : Nat, affected : Nat, users : SUBSET Users,
     log : Seq(IssueStatus)]

ASSUME QueueConstants ==
    /\ Fingerprint \in [Payloads -> Fingerprints]
    /\ UserRef \in [Payloads -> Users \union {NoValue}]
    /\ NoValue \notin Workers \union Users \union Issues
    /\ {MaxAttempts, QueueMaxAttempts} \subseteq Nat \ {0}
    /\ {MaxFaults, MaxOvertakes, MaxTransitions} \subseteq Nat

VARIABLES
    queue,        \* ingest_processing with its envelope, in order of arrival;
                  \* events and letters count its rows of error_events and of
                  \* ingest_dead_letters
    issue,        \* error_issues with activity and affected users, or NoValue
    lock,         \* the worker whose transaction holds the issue's row
    worker,       \* what each worker's runProcessorOnce is doing
    overtaken,    \* history: rows released while their worker was at work
    faults,       \* history: failures so far
    transitions   \* history: operator transitions so far

vars == <<queue, issue, lock, worker, overtaken, faults, transitions>>

Rows == DOMAIN queue

\* States a row of ingest_processing does not leave.
Finished == {"processed", "dead_lettered"}

\* A worker between two calls of runProcessorOnce.
Idle == [pc |-> "idle", row |-> 0, attempts |-> 0, seen |-> NoValue]

\* fingerprintEvent: the issue an envelope belongs to.
FingerprintOf(r) == Fingerprint[queue[r].payload]

\* normalizeEvent keeps the user reference of a signed identity.
UserOf(r) == UserRef[queue[r].payload]

-----
Init ==
    /\ queue = <<>>
    /\ issue = [f \in Fingerprints |-> NoValue]
    /\ lock = [f \in Fingerprints |-> NoValue]
    /\ worker = [w \in Workers |-> Idle]
    /\ overtaken = {}
    /\ faults = 0
    /\ transitions = 0

-----
(* Ingest.  A key already stored is a duplicate or a conflict, and either
   way the transaction stores nothing. *)
NewRow(k, p) ==
    [key |-> k, payload |-> p, state |-> "pending", attempts |-> 0,
     events |-> 0, letters |-> 0]

\* Mutant of InsertRaw: the key is compared together with the payload.
InsertRawComparingPayloads(k, p) ==
    /\ \A r \in Rows : queue[r].key # k \/ queue[r].payload # p
    /\ queue' = Append(queue, NewRow(k, p))
    /\ UNCHANGED <<issue, lock, worker, overtaken, faults, transitions>>

InsertRaw(k, p) ==
    /\ \A r \in Rows : queue[r].key # k
    /\ queue' = Append(queue, NewRow(k, p))
    /\ UNCHANGED <<issue, lock, worker, overtaken, faults, transitions>>

ClaimNext(w) ==
    /\ worker[w].pc = "idle"
    /\ \E r \in Rows :
          /\ queue[r].state \in {"pending", "retrying"}
          /\ \A q \in 1 .. (r - 1) : queue[q].state # "pending"
          /\ queue' = [queue EXCEPT ![r].state = "claimed"]
          /\ worker' = [worker EXCEPT ![w] =
                [pc |-> "claimed", row |-> r, attempts |-> queue[r].attempts,
                 seen |-> NoValue]]
    /\ UNCHANGED <<issue, lock, overtaken, faults, transitions>>

\* A daemon that is between two envelopes releases claims that are too old.
\* The age of a claim says nothing of its worker.
AtWork(r) == \E w \in Workers : worker[w].pc # "idle" /\ worker[w].row = r

ReleaseExpiredClaims(w) ==
    /\ worker[w].pc = "idle"
    /\ \E r \in Rows :
          /\ queue[r].state = "claimed"
          /\ AtWork(r) => r \notin overtaken /\ Cardinality(overtaken) < MaxOvertakes
          /\ queue' = [queue EXCEPT ![r].state = "retrying"]
          /\ overtaken' = IF AtWork(r) THEN overtaken \union {r} ELSE overtaken
    /\ UNCHANGED <<issue, lock, worker, faults, transitions>>

-----
(* processEnvelope: one transaction per envelope.  It begins by locking
   the issue's row, or by inserting it; an insertion by another
   transaction makes it wait in the same way.  It commits what it computed
   from the row it read. *)
\* createIssue inserts the issue and its first activity.
FreshIssue == [status |-> "new", count |-> 0, affected |-> 0, users |-> {},
               log |-> <<"new">>]

\* findIssue, or createIssue where there is none.
Stored(f) == IF issue[f] = NoValue THEN FreshIssue ELSE issue[f]

\* Mutant of FindOrCreateIssue: the issue is read without FOR UPDATE.
FindOrCreateIssueUnlocked(w) ==
    LET f == FingerprintOf(worker[w].row) IN
    /\ worker[w].pc = "claimed"
    /\ worker' = [worker EXCEPT
          ![w].pc = "tx",
          ![w].seen = Stored(f)]
    /\ UNCHANGED <<queue, issue, lock, overtaken, faults, transitions>>

FindOrCreateIssue(w) ==
    LET f == FingerprintOf(worker[w].row) IN
    /\ worker[w].pc = "claimed"
    /\ lock[f] = NoValue
    /\ lock' = [lock EXCEPT ![f] = w]
    /\ worker' = [worker EXCEPT
          ![w].pc = "tx",
          ![w].seen = Stored(f)]
    /\ UNCHANGED <<queue, issue, overtaken, faults, transitions>>

\* insertOccurrence, appendActivity and updateIssue: the counters and the
\* status come from what the transaction read, the activity and the affected
\* users are rows of their own tables.
Occurrence(seen, now, u) ==
    LET regresses == seen.status = "resolved"
        users == {u} \ {NoValue}
    IN  [status   |-> IF regresses THEN "regressed" ELSE seen.status,
         count    |-> seen.count + 1,
         affected |-> seen.affected + Cardinality(users \ now.users),
         users    |-> now.users \union users,
         log      |-> IF regresses THEN Append(now.log, "regressed") ELSE now.log]

\* markProcessed sees only a claimed row, whoever claimed it.
MarkProcessed(row) ==
    [row EXCEPT !.events = @ + 1,
                !.state = IF @ = "claimed" THEN "processed" ELSE @]

Commit(w) ==
    LET r == worker[w].row
        f == FingerprintOf(r)
    IN  /\ worker[w].pc = "tx"
        /\ issue' = [issue EXCEPT ![f] = Occurrence(worker[w].seen, Stored(f), UserOf(r))]
        /\ queue' = [queue EXCEPT ![r] = MarkProcessed(@)]
        /\ lock' = [lock EXCEPT ![f] = NoValue]
        /\ UNCHANGED <<overtaken, transitions>>

\* The worker learns of the commit.
CommitAnswered(w) ==
    /\ Commit(w)
    /\ worker' = [worker EXCEPT ![w] = Idle]
    /\ UNCHANGED faults

\* The connection breaks after the commit: runProcessorOnce sees a failure.
CommitUnanswered(w) ==
    /\ faults < MaxFaults
    /\ Commit(w)
    /\ worker' = [worker EXCEPT ![w].pc = "failed"]
    /\ faults' = faults + 1

Unlock(w) == [f \in Fingerprints |-> IF lock[f] = w THEN NoValue ELSE lock[f]]

\* The transaction fails before its commit and is rolled back.
TransactionFails(w) ==
    /\ faults < MaxFaults
    /\ worker[w].pc \in {"claimed", "tx"}
    /\ lock' = Unlock(w)
    /\ worker' = [worker EXCEPT ![w].pc = "failed"]
    /\ faults' = faults + 1
    /\ UNCHANGED <<queue, issue, overtaken, transitions>>

-----
(* After a failure.  runProcessorOnce decides with the attempts it read
   when it claimed the row; the queue decides again, with its own limit. *)
DeadLetter(row, attempts) ==
    IF row.state = "claimed"
    THEN [row EXCEPT !.state = "dead_lettered", !.letters = @ + 1,
                     !.attempts = Max({@, attempts})]
    ELSE row

\* Mutant of MarkRetry: the queue gives up one attempt too early.
MarkRetryOneShort(row) ==
    IF row.state = "claimed"
    THEN [row EXCEPT
            !.attempts = @ + 1,
            !.state = IF row.attempts + 2 >= QueueMaxAttempts
                      THEN "dead_lettered" ELSE "retrying"]
    ELSE row

MarkRetry(row) ==
    IF row.state = "claimed"
    THEN [row EXCEPT
            !.attempts = @ + 1,
            !.state = IF row.attempts + 1 >= QueueMaxAttempts
                      THEN "dead_lettered" ELSE "retrying"]
    ELSE row

HandleFailure(w) ==
    LET attempts == worker[w].attempts + 1 IN
    /\ worker[w].pc = "failed"
    /\ queue' = [queue EXCEPT ![worker[w].row] =
          IF attempts >= MaxAttempts THEN DeadLetter(@, attempts) ELSE MarkRetry(@)]
    /\ worker' = [worker EXCEPT ![w] = Idle]
    /\ UNCHANGED <<issue, lock, overtaken, faults, transitions>>

\* The process ends at any point, also because handling a failure failed (the
\* daemon does not catch it).  The service manager starts it again.
Crash(w) ==
    /\ faults < MaxFaults
    /\ worker[w].pc # "idle"
    /\ lock' = Unlock(w)
    /\ worker' = [worker EXCEPT ![w] = Idle]
    /\ faults' = faults + 1
    /\ UNCHANGED <<queue, issue, overtaken, transitions>>

-----
\* PostgresIssueWorkflow.transition: one statement, which waits for the row's
\* lock.  Any status may follow any other.
Transition(f, s) ==
    /\ transitions < MaxTransitions
    /\ issue[f] # NoValue
    /\ lock[f] = NoValue
    /\ issue' = [issue EXCEPT ![f].status = s, ![f].log = Append(@, s)]
    /\ transitions' = transitions + 1
    /\ UNCHANGED <<queue, lock, worker, overtaken, faults>>

-----
WorkerStep(w) ==
    \/ FindOrCreateIssue(w)
    \/ CommitAnswered(w)
    \/ HandleFailure(w)

Next ==
    \/ \E k \in Keys, p \in Payloads : InsertRaw(k, p)
    \/ \E w \in Workers :
          \/ ClaimNext(w)
          \/ ReleaseExpiredClaims(w)
          \/ WorkerStep(w)
          \/ CommitUnanswered(w)
          \/ TransactionFails(w)
          \/ Crash(w)
    \/ \E f \in Fingerprints, s \in OperatorStatus : Transition(f, s)

Spec == Init /\ [][Next]_vars

-----
(* Properties. *)
\* The rows of error_events that were made from the given envelopes.
EventRows(rows) == UNION {{r} \X (1 .. queue[r].events) : r \in rows}

Events(rows) == Cardinality(EventRows(rows))

RowsOfKey(k) == {r \in Rows : queue[r].key = k}

RowsOfIssue(f) == {r \in Rows : FingerprintOf(r) = f}

\* An accepted envelope is counted once, whatever is retried, answered too
\* late or sent again under its key, and a row that says processed was
\* counted; only a claim released under a living worker is excepted
\* (postgresIngestStore.ts:99, postgresIssueRepository.ts:220).
CountedOnce ==
    \A k \in Keys : RowsOfKey(k) \intersect overtaken = {} =>
        /\ Events(RowsOfKey(k)) <= 1
        /\ \A r \in RowsOfKey(k) :
              queue[r].state = "processed" <=> queue[r].events = 1

\* An issue's counters are the occurrences and the users stored for it: no
\* update is lost between overlapping transactions and operator transitions,
\* also when a row is counted twice (postgresIssueRepository.ts:48).
CountsAgree ==
    \A f \in Fingerprints :
        LET counted == {r \in RowsOfIssue(f) : queue[r].events > 0}
            users == {UserOf(r) : r \in counted} \ {NoValue}
        IN  IF issue[f] = NoValue
            THEN counted = {}
            ELSE /\ issue[f].count = Events(counted)
                 /\ issue[f].users = users
                 /\ issue[f].affected = Cardinality(users)

\* The status of an issue is the last one of its activity log, and the log
\* has a regression only, and once, after a resolution: a transaction cannot
\* overwrite a transition it did not see (processEnvelope.ts:123).
StatusFollowsLog ==
    \A f \in Fingerprints : issue[f] # NoValue =>
        LET log == issue[f].log IN
        /\ issue[f].status = Last(log)
        /\ \A i \in DOMAIN log :
              log[i] = "regressed" => i > 1 /\ log[i - 1] = "resolved"

\* Both: what the issue says agrees with the rows it was made from.
IssueAgreesWithLog == CountsAgree /\ StatusFollowsLog

\* What was given up and not counted has its one record in
\* ingest_dead_letters, and no other row has one.  This needs a configured
\* limit within the queue's own, and again excepts overtaken rows, whose late
\* worker decides with the attempts of its own claim (processor/src/index.ts:97,
\* postgresProcessorQueue.ts:155).
DeadLetterIsRecorded ==
    \A r \in Rows :
        /\ queue[r].letters <= 1
        /\ queue[r].letters = 1 => queue[r].state = "dead_lettered"
        /\ queue[r].state = "dead_lettered" /\ r \notin overtaken =>
              queue[r].letters = 1 /\ queue[r].events = 0

\* Both: what becomes of an envelope is on record.  It is counted once, and one
\* that is given up is in the dead letters.
EnvelopesAreAccounted == CountedOnce /\ DeadLetterIsRecorded

\* Again and again: all that was accepted is counted or given up, over crashes, lost
\* answers and expired claims (runProcessorDaemon.ts:14).
EnvelopesSettled == \A k \in Keys : \A r \in RowsOfKey(k) : queue[r].state \in Finished
======
