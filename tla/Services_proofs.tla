------ MODULE Services_proofs ------
(* What the services behind the console guarantee, for any number of
   events, processes, envelopes, workers, issues, callers and appends, and
   any number of failures, kills and timeouts: the spool that the
   processes of a server share, the queue of the processor, the life of a
   process, the runtime actions of the agent and the audit ledger. *)
EXTENDS MCServices, FiniteSetTheorems, SequenceTheorems, TLAPS

-----
(* The telemetry client of a server: the spool its processes share. *)
Records == [key : SentEvents, at : Nat, waiting : BOOLEAN]
SpoolJobs ==
    [pc : {"idle", "lock", "locked"}, key : Nat, now : Nat,
     todo : SUBSET Records, retained : SUBSET Records, delivered : Nat]
UniqueKeys(records) == \A r, o \in records : r.key = o.key => r = o

\* A flush has read the whole file, has still to do what it has not dealt with,
\* and keeps no more records than there were.
FlushInv(f) ==
    /\ f.todo \subseteq spool /\ IsFiniteSet(f.retained) /\ UniqueKeys(f.retained)
    /\ SpooledKeys(f.retained) \subseteq SpooledKeys(spool) \ SpooledKeys(f.todo)
    /\ Cardinality(f.todo) + Cardinality(f.retained) <= Cardinality(spool)
    /\ SpooledKeys(spool) \subseteq SpooledKeys(f.todo) \cup SpooledKeys(f.retained) \cup collected \cup given

SpoolTypeOK ==
    /\ spool \subseteq Records /\ IsFiniteSet(spool) /\ UniqueKeys(spool)
    /\ job \in [Jobs -> SpoolJobs] /\ day \in Nat
    /\ healthy \in [Senders -> BOOLEAN] /\ undeliverable \in [Senders -> BOOLEAN]
    /\ own \in [Senders -> SUBSET queued]

\* An event that is being enqueued is nobody else's and was not queued before.
EnqueueInv ==
    /\ queued \subseteq captured /\ captured \subseteq SentEvents
    /\ \A p \in Senders : job[<<p, "enqueue">>].pc # "idle" => job[<<p, "enqueue">>].key \in captured \ queued
    /\ \A p, q \in Senders :
         /\ job[<<p, "enqueue">>].pc # "idle" /\ job[<<q, "enqueue">>].pc # "idle"
         /\ job[<<p, "enqueue">>].key = job[<<q, "enqueue">>].key
         => p = q

\* Whoever reads and writes the file has created the lock file.
LockInv == \A j \in Jobs : job[j].pc = "locked" => lockFile = j

SpoolInv ==
    /\ SpoolTypeOK /\ EnqueueInv /\ LockInv
    /\ SpooledKeys(spool) \subseteq queued
    /\ \A p \in Senders : job[<<p, "flush">>].pc = "locked" => FlushInv(job[<<p, "flush">>])
    /\ SpoolConserves /\ SpoolFits /\ HealthIsHonest

-----
\* Of n + k records at most n have k or more before them.
LEMMA NewestAreFew ==
    ASSUME NEW S \in SUBSET Records, IsFiniteSet(S), UniqueKeys(S), NEW n \in Nat, n <= Cardinality(S),
           NEW T, T = {r \in S : Cardinality(Preceding(r, S)) >= n}
    PROVE  IsFiniteSet(T) /\ Cardinality(T) <= Cardinality(S) - n
<1> DEFINE rank(r) == Cardinality(Preceding(r, S))
<1>1. Cardinality(S) \in Nat  BY FS_CardinalityType
<1>2. \A r \in S : r.at \in Nat /\ r.key \in Nat  BY ServerSpoolAssumption DEF Records
<1>3. ASSUME NEW r \in S PROVE IsFiniteSet(Preceding(r, S)) /\ rank(r) \in Nat /\ rank(r) < Cardinality(S)
  <2>1. Preceding(r, S) \in SUBSET S /\ r \notin Preceding(r, S)  BY <1>2 DEF Preceding, Precedes
  <2>2. Preceding(r, S) # S  BY <2>1
  <2>3. /\ IsFiniteSet(Preceding(r, S)) /\ rank(r) <= Cardinality(S)
        /\ (Cardinality(S) = rank(r) => S = Preceding(r, S))
    BY <2>1, FS_Subset
  <2>4. rank(r) \in Nat  BY <2>3, FS_CardinalityType
  <2> QED BY <1>1, <2>2, <2>3, <2>4
<1>4. ASSUME NEW r \in S, NEW o \in S, Precedes(r, o) PROVE rank(r) < rank(o)
  <2>1. Preceding(r, S) \in SUBSET Preceding(o, S)  BY <1>2, <1>4 DEF Preceding, Precedes
  <2>2. r \in Preceding(o, S) /\ r \notin Preceding(r, S)  BY <1>2, <1>4 DEF Preceding, Precedes
  <2>3. rank(r) <= rank(o) /\ (rank(o) = rank(r) => Preceding(o, S) = Preceding(r, S))  BY <1>3, <2>1, FS_Subset
  <2>4. rank(r) \in Nat /\ rank(o) \in Nat
    <3> HIDE DEF rank
    <3> QED BY <1>3
  <2> QED BY <2>2, <2>3, <2>4
<1>5. ASSUME NEW r \in S, NEW o \in S, rank(r) = rank(o) PROVE r = o
  <2>1. ~Precedes(r, o) /\ ~Precedes(o, r)
    <3>1. rank(r) \in Nat /\ rank(o) \in Nat  BY <1>3
    <3> QED BY <1>4, <1>5, <3>1
  <2>2. r.at = o.at /\ r.key = o.key  BY <1>2, <2>1 DEF Precedes
  <2> QED BY <2>2 DEF UniqueKeys
<1> DEFINE f == [r \in T |-> rank(r)]
           U == n..(Cardinality(S) - 1)
<1>6. f \in Injection(T, U)
  <2>1. \A r \in T : rank(r) \in U  BY <1>1, <1>3
  <2>2. f \in [T -> U]  BY <2>1
  <2>3. \A r, o \in T : f[r] = f[o] => r = o  BY <1>5
  <2> HIDE DEF f, U
  <2> QED BY <2>2, <2>3 DEF Injection, IsInjective
<1>7. IsFiniteSet(U) /\ Cardinality(U) = Cardinality(S) - n
  <2>1. Cardinality(S) - 1 \in Int /\ n \in Int  BY <1>1
  <2>2. /\ IsFiniteSet(U)
        /\ Cardinality(U) = IF n > Cardinality(S) - 1 THEN 0 ELSE (Cardinality(S) - 1) - n + 1
    BY ONLY <2>1, FS_Interval
  <2> HIDE DEF U
  <2> QED BY <1>1, <2>2
<1> HIDE DEF f, U
<1>8. IsFiniteSet(T) /\ Cardinality(T) <= Cardinality(U)  BY <1>6, <1>7, FS_Injection
<1> QED BY <1>7, <1>8

\* What an enqueue keeps leaves room for its own record.
LEMMA RetainedFits ==
    ASSUME SpoolInv, NEW now \in Nat
    PROVE  /\ Retained(now) \subseteq spool /\ IsFiniteSet(Retained(now))
           /\ Cardinality(Retained(now)) \in Nat /\ Cardinality(Retained(now)) + 1 <= SpoolSize
<1> DEFINE young == {r \in ReadRecords : ~Expired(r, now)}
           surplus == Cardinality(young) + 1 - SpoolSize
           kept == {r \in young : Cardinality(Preceding(r, young)) >= surplus}
<1>1. Retained(now) = kept  BY DEF Retained
<1>2. young \in SUBSET spool  BY DEF ReadRecords
<1>3. IsFiniteSet(spool) /\ spool \in SUBSET Records /\ UniqueKeys(spool) /\ Cardinality(spool) <= SpoolSize
  BY DEF SpoolInv, SpoolTypeOK, SpoolFits
<1> HIDE DEF young
<1>4. IsFiniteSet(young) /\ young \in SUBSET Records /\ UniqueKeys(young)  BY <1>2, <1>3, FS_Subset DEF UniqueKeys
<1>5. Cardinality(young) \in Nat /\ SpoolSize \in Nat /\ SpoolSize > 0
  BY <1>4, FS_CardinalityType, ServerSpoolAssumption
<1>6. kept \in SUBSET young  OBVIOUS
<1>7. IsFiniteSet(kept) /\ Cardinality(kept) <= Cardinality(young) /\ Cardinality(kept) \in Nat
  BY <1>4, <1>6, FS_Subset, FS_CardinalityType
<1>8. CASE surplus <= 0  BY <1>1, <1>2, <1>5, <1>6, <1>7, <1>8
<1>9. CASE surplus > 0
  <2>1. surplus \in Nat /\ surplus <= Cardinality(young)  BY <1>5, <1>9
  <2>2. Cardinality(kept) <= Cardinality(young) - surplus
    <3> HIDE DEF surplus
    <3> QED BY <1>4, <2>1, NewestAreFew
  <2> QED BY <1>1, <1>2, <1>5, <1>6, <1>7, <2>2
<1> QED BY <1>5, <1>8, <1>9

-----
LEMMA JobsAre ==
    /\ \A p \in Senders : <<p, "enqueue">> \in Jobs /\ <<p, "flush">> \in Jobs
    /\ \A j \in Jobs : \E p \in Senders : j = <<p, "enqueue">> \/ j = <<p, "flush">>
    /\ \A p, q \in Senders : <<p, "enqueue">> # <<q, "flush">>
    /\ \A j \in Jobs : j # NoLock
  BY DEF Jobs, NoLock

LEMMA SpoolInitially == ServerSpoolInit => SpoolInv
<1> SUFFICES ASSUME ServerSpoolInit PROVE SpoolInv  OBVIOUS
<1>1. IdleJob \in SpoolJobs /\ IdleJob.pc = "idle"  BY DEF IdleJob, SpoolJobs
<1>2. \A j \in Jobs : job[j] = IdleJob  BY DEF ServerSpoolInit
<1>3. IsFiniteSet(spool) /\ Cardinality(spool) = 0 /\ SpooledKeys(spool) = {}
  BY FS_EmptySet DEF ServerSpoolInit, SpooledKeys
<1>4. SpoolTypeOK  BY <1>1, <1>3 DEF ServerSpoolInit, SpoolTypeOK, UniqueKeys
<1>5. EnqueueInv /\ LockInv /\ \A p \in Senders : job[<<p, "flush">>].pc # "locked"
  BY <1>1, <1>2, JobsAre DEF ServerSpoolInit, EnqueueInv, LockInv
<1>6. SpoolConserves /\ SpoolFits /\ HealthIsHonest
  BY <1>3, ServerSpoolAssumption DEF ServerSpoolInit, SpoolConserves, SpoolFits, HealthIsHonest
<1> QED BY <1>3, <1>4, <1>5, <1>6 DEF SpoolInv

LEMMA CaptureKeeps == ASSUME SpoolInv, NEW p \in Senders, Capture(p) PROVE SpoolInv'
<1>1. PICK e \in SentEvents \ captured :
        /\ captured' = captured \cup {e}
        /\ job[<<p, "enqueue">>].pc = "idle"
        /\ \/ UNCHANGED job
           \/ job' = [job EXCEPT ![<<p, "enqueue">>] = [IdleJob EXCEPT !.pc = "lock", !.key = e, !.now = day]]
        /\ \/ healthy' = [healthy EXCEPT ![p] = FALSE] /\ undeliverable' = [undeliverable EXCEPT ![p] = TRUE]
           \/ UNCHANGED healthVars
        /\ UNCHANGED <<spoolFiles, day, collected, spoolHistory>>
  BY DEF Capture
<1>2. UNCHANGED <<spool, lockFile, queued, own, given, collected, day>>  BY <1>1 DEF spoolFiles, spoolHistory
<1> DEFINE new == [IdleJob EXCEPT !.pc = "lock", !.key = e, !.now = day]
<1>3. new \in SpoolJobs /\ new.pc = "lock" /\ new.key = e
  BY ServerSpoolAssumption DEF IdleJob, SpoolJobs, SpoolInv, SpoolTypeOK
<1>4. /\ healthy' \in [Senders -> BOOLEAN] /\ undeliverable' \in [Senders -> BOOLEAN]
      /\ \A q \in Senders : healthy'[q] => healthy[q]
  BY <1>1 DEF SpoolInv, SpoolTypeOK, healthVars
<1> HIDE DEF new
<1>5. /\ job' \in [Jobs -> SpoolJobs]
      /\ \A j \in Jobs : j # <<p, "enqueue">> => job'[j] = job[j]
      /\ job'[<<p, "enqueue">>] = job[<<p, "enqueue">>] \/ job'[<<p, "enqueue">>] = new
  BY <1>1, <1>3, JobsAre DEF SpoolInv, SpoolTypeOK, new
<1>6. SpoolTypeOK'  BY <1>2, <1>4, <1>5 DEF SpoolInv, SpoolTypeOK, UniqueKeys
<1>7. EnqueueInv'
  <2>1. \A q \in Senders : q # p => job'[<<q, "enqueue">>] = job[<<q, "enqueue">>]  BY <1>5, JobsAre
  <2>2. \/ job'[<<p, "enqueue">>].pc = "idle"
        \/ job'[<<p, "enqueue">>].key = e
    BY <1>1, <1>3, <1>5
  <2>3. e \in SentEvents /\ e \notin captured /\ e \notin queued /\ captured' = captured \cup {e} /\ queued' = queued
    BY <1>1, <1>2 DEF SpoolInv, EnqueueInv
  <2>4. \A q \in Senders : q # p /\ job'[<<q, "enqueue">>].pc # "idle" =>
          job'[<<q, "enqueue">>].key \in captured \ queued
    BY <2>1 DEF SpoolInv, EnqueueInv
  <2>5. \A q, r \in Senders :
          /\ q # p /\ r # p /\ job'[<<q, "enqueue">>].pc # "idle" /\ job'[<<r, "enqueue">>].pc # "idle"
          /\ job'[<<q, "enqueue">>].key = job'[<<r, "enqueue">>].key
          => q = r
    BY <2>1 DEF SpoolInv, EnqueueInv
  <2> QED BY <2>2, <2>3, <2>4, <2>5 DEF SpoolInv, EnqueueInv
<1>8. LockInv'  BY <1>1, <1>2, <1>3, <1>5 DEF SpoolInv, LockInv
<1>9. \A q \in Senders : job'[<<q, "flush">>] = job[<<q, "flush">>]  BY <1>5, JobsAre
<1> QED BY <1>2, <1>4, <1>6, <1>7, <1>8, <1>9 DEF SpoolInv, FlushInv, SpooledKeys, SpoolConserves, SpoolFits,
  HealthIsHonest

LEMMA TakeLockKeeps == ASSUME SpoolInv, NEW p \in Senders, TakeLock(p) PROVE SpoolInv'
<1>1. /\ job[<<p, "enqueue">>].pc = "lock" /\ lockFile = NoLock /\ lockFile' = <<p, "enqueue">>
      /\ job' = [job EXCEPT ![<<p, "enqueue">>].pc = "locked"]
      /\ UNCHANGED <<spool, healthy, undeliverable, day, captured, collected, queued, own, given>>
  BY DEF TakeLock, healthVars, spoolHistory
<1>2. /\ job' \in [Jobs -> SpoolJobs]
      /\ \A j \in Jobs : j # <<p, "enqueue">> => job'[j] = job[j]
      /\ job'[<<p, "enqueue">>].key = job[<<p, "enqueue">>].key
  BY <1>1, JobsAre, ZenonT(60) DEF SpoolInv, SpoolTypeOK, SpoolJobs
<1>3. SpoolTypeOK'  BY <1>1, <1>2 DEF SpoolInv, SpoolTypeOK, UniqueKeys
<1>4. EnqueueInv'  BY <1>1, <1>2, JobsAre DEF SpoolInv, EnqueueInv
<1>5. LockInv'  BY <1>1, <1>2, JobsAre DEF SpoolInv, LockInv
<1>6. \A q \in Senders : job'[<<q, "flush">>] = job[<<q, "flush">>]  BY <1>2, JobsAre
<1> QED BY <1>1, <1>3, <1>4, <1>5, <1>6 DEF SpoolInv, FlushInv, SpooledKeys, SpoolConserves, SpoolFits, HealthIsHonest

LEMMA StartFlushKeeps == ASSUME SpoolInv, NEW p \in Senders, StartFlush(p) PROVE SpoolInv'
<1> DEFINE new == [IdleJob EXCEPT !.pc = "locked", !.now = day, !.todo = ReadRecords]
<1>1. /\ lockFile = NoLock /\ lockFile' = <<p, "flush">>
      /\ job' = [job EXCEPT ![<<p, "flush">>] = new]
      /\ UNCHANGED <<spool, healthy, undeliverable, day, captured, collected, queued, own, given>>
  BY DEF StartFlush, healthVars, spoolHistory
<1>2. new \in SpoolJobs /\ new.todo = spool /\ new.retained = {}
  BY DEF IdleJob, SpoolJobs, SpoolInv, SpoolTypeOK, ReadRecords
<1> HIDE DEF new
<1>3. /\ job' \in [Jobs -> SpoolJobs] /\ job'[<<p, "flush">>] = new
      /\ \A j \in Jobs : j # <<p, "flush">> => job'[j] = job[j]
  BY <1>1, <1>2, JobsAre DEF SpoolInv, SpoolTypeOK
<1>4. SpoolTypeOK'  BY <1>1, <1>3 DEF SpoolInv, SpoolTypeOK, UniqueKeys
<1>5. EnqueueInv'  BY <1>1, <1>3, JobsAre DEF SpoolInv, EnqueueInv
<1>6. LockInv'  BY <1>1, <1>3, JobsAre DEF SpoolInv, LockInv
<1>7. \A q \in Senders : job'[<<q, "flush">>].pc = "locked" => q = p  BY <1>1, <1>3, JobsAre DEF SpoolInv, LockInv
<1>8. FlushInv(job[<<p, "flush">>])'
  <2>1. FlushInv(new)
    <3>1. IsFiniteSet({}) /\ Cardinality({}) = 0  BY FS_EmptySet
    <3>2. Cardinality(spool) \in Nat  BY FS_CardinalityType DEF SpoolInv, SpoolTypeOK
    <3> QED BY <1>2, <3>1, <3>2 DEF FlushInv, UniqueKeys, SpooledKeys
  <2> QED BY <1>1, <1>3, <2>1 DEF FlushInv, SpooledKeys
<1> QED BY <1>1, <1>4, <1>5, <1>6, <1>7, <1>8 DEF SpoolInv, SpooledKeys, SpoolConserves, SpoolFits, HealthIsHonest

\* A job that gives up the lock, or never had it, becomes idle.
LEMMA LockTimesOutKeeps == ASSUME SpoolInv, NEW p \in Senders, LockTimesOut(p) PROVE SpoolInv'
<1>1. /\ \/ job[<<p, "enqueue">>].pc = "lock" /\ job' = [job EXCEPT ![<<p, "enqueue">>] = IdleJob]
         \/ UNCHANGED job
      /\ healthy' = [healthy EXCEPT ![p] = FALSE]
      /\ UNCHANGED <<spool, lockFile, undeliverable, day, captured, collected, queued, own, given>>
  BY DEF LockTimesOut, spoolFiles, spoolHistory
<1>2. IdleJob \in SpoolJobs /\ IdleJob.pc = "idle"  BY DEF IdleJob, SpoolJobs
<1>3. /\ job' \in [Jobs -> SpoolJobs]
      /\ \A j \in Jobs : job'[j] = job[j] \/ job'[j].pc = "idle"
      /\ \A q \in Senders : job'[<<q, "flush">>] = job[<<q, "flush">>]
  BY <1>1, <1>2, JobsAre DEF SpoolInv, SpoolTypeOK
<1>4. healthy' \in [Senders -> BOOLEAN] /\ \A q \in Senders : healthy'[q] => healthy[q]
  BY <1>1 DEF SpoolInv, SpoolTypeOK
<1>5. SpoolTypeOK'  BY <1>1, <1>3, <1>4 DEF SpoolInv, SpoolTypeOK, UniqueKeys
<1>6. EnqueueInv' /\ LockInv'
  <2>1. \A q \in Senders : \/ job'[<<q, "enqueue">>] = job[<<q, "enqueue">>]
                           \/ job'[<<q, "enqueue">>].pc = "idle"
    BY <1>3, JobsAre
  <2> QED BY <1>1, <1>3, <2>1 DEF SpoolInv, EnqueueInv, LockInv
<1> QED BY <1>1, <1>3, <1>4, <1>5, <1>6 DEF SpoolInv, FlushInv, SpooledKeys, SpoolConserves, SpoolFits, HealthIsHonest

LEMMA KillKeeps == ASSUME SpoolInv, NEW p \in Senders, Kill(p) PROVE SpoolInv'
<1>1. /\ job' = [j \in Jobs |-> IF j[1] = p THEN IdleJob ELSE job[j]]
      /\ lockFile' = IF lockFile \in {<<p, "enqueue">>, <<p, "flush">>} THEN StaleLock ELSE lockFile
      /\ healthy' = [healthy EXCEPT ![p] = TRUE] /\ undeliverable' = [undeliverable EXCEPT ![p] = FALSE]
      /\ own' = [own EXCEPT ![p] = {}]
      /\ UNCHANGED <<spool, day, captured, collected, queued, given>>
  BY DEF Kill
<1>2. IdleJob \in SpoolJobs /\ IdleJob.pc = "idle"  BY DEF IdleJob, SpoolJobs
<1>3. job' \in [Jobs -> SpoolJobs]  BY <1>1, <1>2 DEF SpoolInv, SpoolTypeOK
<1>4. \A j \in Jobs : \/ job'[j].pc = "idle"
                      \/ job'[j] = job[j] /\ j # <<p, "enqueue">> /\ j # <<p, "flush">>
  BY <1>1, <1>2
<1>5. SpoolTypeOK'  BY <1>1, <1>3 DEF SpoolInv, SpoolTypeOK, UniqueKeys
<1>6. EnqueueInv'  BY <1>1, <1>4, JobsAre DEF SpoolInv, EnqueueInv
<1>7. LockInv'  BY <1>1, <1>4 DEF SpoolInv, LockInv
<1>8. HealthIsHonest'  BY <1>1 DEF SpoolInv, SpoolTypeOK, HealthIsHonest, SpooledKeys
<1> QED BY <1>1, <1>4, <1>5, <1>6, <1>7, <1>8, JobsAre DEF SpoolInv, FlushInv, SpooledKeys, SpoolConserves, SpoolFits

\* A backoff or a day that is over changes no record's key, and no flush.
LEMMA TimeKeeps == ASSUME SpoolInv, BackoffOver \/ NextDay PROVE SpoolInv'
<1>1. CASE NextDay
  <2>1. /\ day' \in Nat
        /\ UNCHANGED <<spool, lockFile, job, healthy, undeliverable, captured, collected, queued, own, given>>
    BY <1>1 DEF NextDay, spoolFiles, healthVars, spoolHistory, SpoolInv, SpoolTypeOK
  <2> QED BY <2>1 DEF SpoolInv, SpoolTypeOK, EnqueueInv, LockInv, FlushInv, UniqueKeys, SpooledKeys, SpoolConserves,
    SpoolFits, HealthIsHonest
<1>2. CASE BackoffOver
  <2> DEFINE over == [r \in spool |-> [r EXCEPT !.waiting = FALSE]]
  <2>1. /\ \A p \in Senders : job[<<p, "flush">>].pc # "locked"
        /\ spool' = {[r EXCEPT !.waiting = FALSE] : r \in spool}
        /\ UNCHANGED <<lockFile, job, healthy, undeliverable, day, captured, collected, queued, own, given>>
    BY <1>2 DEF BackoffOver, healthVars, spoolHistory
  <2>2. \A r \in spool : over[r] \in Records /\ over[r].key = r.key  BY DEF SpoolInv, SpoolTypeOK, Records
  <2>3. spool' = {over[r] : r \in spool}  BY <2>1
  <2> HIDE DEF over
  <2>4. spool' \subseteq Records /\ UniqueKeys(spool)' /\ SpooledKeys(spool)' = SpooledKeys(spool)
    BY <2>2, <2>3 DEF SpoolInv, SpoolTypeOK, UniqueKeys, SpooledKeys
  <2>5. IsFiniteSet(spool') /\ Cardinality(spool') <= Cardinality(spool)
    <3>1. over \in Surjection(spool, spool')  BY <2>3 DEF Surjection, over
    <3> QED BY <3>1, FS_Surjection DEF SpoolInv, SpoolTypeOK
  <2>6. SpoolFits'
    <3>1. Cardinality(spool) \in Nat /\ Cardinality(spool') \in Nat /\ SpoolSize \in Nat
      BY <2>5, FS_CardinalityType, ServerSpoolAssumption DEF SpoolInv, SpoolTypeOK
    <3> QED BY <2>5, <3>1 DEF SpoolInv, SpoolFits
  <2> QED BY <2>1, <2>4, <2>5, <2>6 DEF SpoolInv, SpoolTypeOK, EnqueueInv, LockInv, SpoolConserves, HealthIsHonest
<1> QED BY <1>1, <1>2

LEMMA EnqueueKeeps == ASSUME SpoolInv, NEW p \in Senders, Enqueue(p) PROVE SpoolInv'
<1> DEFINE this == job[<<p, "enqueue">>]
           kept == Retained(this.now)
           evicted == SpooledKeys(spool) \ SpooledKeys(kept)
           new == [key |-> this.key, at |-> this.now, waiting |-> FALSE]
<1>1. /\ this.pc = "locked" /\ spool' = kept \cup {new} /\ lockFile' = NoLock
      /\ queued' = queued \cup {this.key} /\ given' = given \cup evicted
      /\ own' = [own EXCEPT ![p] = @ \cup {this.key}]
      /\ healthy' = [healthy EXCEPT ![p] = FALSE]
      /\ undeliverable' = [undeliverable EXCEPT ![p] = @ \/ evicted # {}]
      /\ job' = [job EXCEPT ![<<p, "enqueue">>] = IdleJob]
      /\ UNCHANGED <<day, captured, collected>>
  BY DEF Enqueue, WriteRecords, QueuedReported
<1>2. this \in SpoolJobs /\ this.now \in Nat /\ this.key \in captured \ queued /\ this.key \in SentEvents
  BY <1>1, JobsAre DEF SpoolInv, SpoolTypeOK, SpoolJobs, EnqueueInv
<1>3. /\ kept \subseteq spool /\ IsFiniteSet(kept)
      /\ Cardinality(kept) \in Nat /\ Cardinality(kept) + 1 <= SpoolSize
  BY <1>2, RetainedFits
<1> HIDE DEF kept
<1>4. /\ spool' \subseteq Records /\ UniqueKeys(spool)'
      /\ SpooledKeys(spool') = SpooledKeys(kept) \cup {this.key}
      /\ SpooledKeys(kept) \subseteq SpooledKeys(spool) /\ SpooledKeys(spool) \subseteq queued
  <2>1. new \in Records /\ new.key = this.key  BY <1>2 DEF Records
  <2>2. \A r \in kept : r \in Records /\ r \in spool /\ r.key # this.key
    BY <1>2, <1>3 DEF SpoolInv, SpoolTypeOK, SpooledKeys
  <2> HIDE DEF this, new
  <2>3. \A r, o \in kept : r.key = o.key => r = o  BY <1>3 DEF SpoolInv, SpoolTypeOK, UniqueKeys
  <2>4. UniqueKeys(spool)'  BY <1>1, <2>1, <2>2, <2>3 DEF UniqueKeys
  <2> QED BY <1>1, <1>3, <2>1, <2>2, <2>4 DEF SpooledKeys, SpoolInv
<1>5. IsFiniteSet(spool') /\ Cardinality(spool') <= SpoolSize
  <2>1. IsFiniteSet(spool') /\ Cardinality(spool') \in {Cardinality(kept), Cardinality(kept) + 1}
    BY <1>1, <1>3, FS_AddElement
  <2> QED BY <1>3, <2>1, ServerSpoolAssumption
<1>6. /\ job' \in [Jobs -> SpoolJobs] /\ job'[<<p, "enqueue">>].pc = "idle"
      /\ \A j \in Jobs : j # <<p, "enqueue">> => job'[j] = job[j]
  BY <1>1, JobsAre DEF SpoolInv, SpoolTypeOK, IdleJob, SpoolJobs
<1>7. SpoolTypeOK'
  <2>1. healthy' \in [Senders -> BOOLEAN] /\ undeliverable' \in [Senders -> BOOLEAN]
    BY <1>1 DEF SpoolInv, SpoolTypeOK
  <2>2. own' \in [Senders -> SUBSET queued']  BY <1>1 DEF SpoolInv, SpoolTypeOK
  <2> QED BY <1>1, <1>4, <1>5, <1>6, <2>1, <2>2 DEF SpoolInv, SpoolTypeOK
<1>8. EnqueueInv'
  <2>1. \A q \in Senders : q # p => job'[<<q, "enqueue">>] = job[<<q, "enqueue">>]  BY <1>6, JobsAre
  <2>2. \A q \in Senders : q # p /\ job[<<q, "enqueue">>].pc # "idle" => job[<<q, "enqueue">>].key # this.key
    BY <1>1 DEF SpoolInv, EnqueueInv
  <2> QED BY <1>1, <1>2, <1>6, <2>1, <2>2 DEF SpoolInv, EnqueueInv
<1>9. LockInv' /\ \A q \in Senders : job'[<<q, "flush">>].pc # "locked"
  <2>1. \A j \in Jobs : job'[j].pc # "locked"  BY <1>1, <1>6, JobsAre DEF SpoolInv, LockInv
  <2> QED BY <2>1, JobsAre DEF LockInv
<1>10. SpoolConserves'  BY <1>1, <1>4 DEF SpoolInv, SpoolConserves
<1>11. HealthIsHonest'
  <2>1. \A q \in Senders : healthy'[q] => q # p /\ healthy[q] /\ own'[q] = own[q]  BY <1>1 DEF SpoolInv, SpoolTypeOK
  <2>2. \A q \in Senders : own[q] \subseteq queued  BY DEF SpoolInv, SpoolTypeOK
  <2> QED BY <1>2, <1>4, <2>1, <2>2 DEF SpoolInv, HealthIsHonest
<1>12. SpooledKeys(spool') \subseteq queued'  BY <1>1, <1>4
<1> QED BY <1>5, <1>7, <1>8, <1>9, <1>10, <1>11, <1>12 DEF SpoolInv, SpoolFits

\* A record that is dealt with leaves what is to do, and is kept, or is with
\* the collector, or is given up.
LEMMA DealtWithKeeps ==
    ASSUME SpoolInv, NEW f \in SpoolJobs, FlushInv(f), NEW record \in f.todo,
           NEW g \in SpoolJobs, g.todo = f.todo \ {record}, UNCHANGED spool,
           collected \subseteq collected', given \subseteq given',
           \/ g.retained = f.retained /\ record.key \in collected' \cup given'
           \/ \E r \in Records : r.key = record.key /\ g.retained = f.retained \cup {r}
    PROVE  FlushInv(g)'
<1>1. /\ f.todo \subseteq spool /\ IsFiniteSet(spool) /\ IsFiniteSet(f.retained) /\ UniqueKeys(f.retained)
      /\ SpooledKeys(f.retained) \subseteq SpooledKeys(spool) \ SpooledKeys(f.todo)
      /\ Cardinality(f.todo) + Cardinality(f.retained) <= Cardinality(spool)
      /\ SpooledKeys(spool) \subseteq SpooledKeys(f.todo) \cup SpooledKeys(f.retained) \cup collected \cup given
  BY DEF SpoolInv, SpoolTypeOK, FlushInv
<1>2. IsFiniteSet(f.todo) /\ Cardinality(f.todo) \in Nat /\ Cardinality(f.retained) \in Nat
      /\ Cardinality(spool) \in Nat
  BY <1>1, FS_Subset, FS_CardinalityType
<1>3. Cardinality(g.todo) = Cardinality(f.todo) - 1
  <2>1. Cardinality(f.todo \ {record}) = Cardinality(f.todo) - 1  BY <1>2, FS_RemoveElement
  <2> QED BY <2>1
<1>4. /\ SpooledKeys(f.todo) = SpooledKeys(g.todo) \cup {record.key}
      /\ record.key \notin SpooledKeys(g.todo) /\ g.todo \subseteq spool
      /\ record.key \in SpooledKeys(spool)
  BY <1>1 DEF SpooledKeys, SpoolInv, SpoolTypeOK, UniqueKeys
<1>5. CASE g.retained = f.retained /\ record.key \in collected' \cup given'
  <2>1. Cardinality(g.todo) + Cardinality(g.retained) <= Cardinality(spool)  BY <1>1, <1>2, <1>3, <1>5
  <2>2. SpooledKeys(g.retained) \subseteq SpooledKeys(spool) \ SpooledKeys(g.todo)  BY <1>1, <1>4, <1>5
  <2>3. SpooledKeys(spool) \subseteq SpooledKeys(g.todo) \cup SpooledKeys(g.retained) \cup collected' \cup given'
    BY <1>1, <1>4, <1>5
  <2>4. g.todo \subseteq spool /\ IsFiniteSet(g.retained) /\ UniqueKeys(g.retained)  BY <1>1, <1>4, <1>5
  <2> QED BY <2>1, <2>2, <2>3, <2>4 DEF FlushInv, SpooledKeys
<1>6. ASSUME NEW r \in Records, r.key = record.key, g.retained = f.retained \cup {r} PROVE FlushInv(g)'
  <2>1. r \notin f.retained  BY <1>1, <1>4, <1>6 DEF SpooledKeys
  <2>2. IsFiniteSet(g.retained) /\ Cardinality(g.retained) = Cardinality(f.retained) + 1
    <3>1. /\ IsFiniteSet(f.retained \cup {r})
          /\ Cardinality(f.retained \cup {r}) = Cardinality(f.retained) + 1
      BY <1>1, <2>1, FS_AddElement
    <3> QED BY <1>6, <3>1
  <2>3. SpooledKeys(g.retained) = SpooledKeys(f.retained) \cup {record.key}  BY <1>6 DEF SpooledKeys
  <2>4. UniqueKeys(g.retained)  BY <1>1, <1>4, <1>6 DEF UniqueKeys, SpooledKeys
  <2>5. Cardinality(g.todo) + Cardinality(g.retained) <= Cardinality(spool)  BY <1>1, <1>2, <1>3, <2>2
  <2>6. SpooledKeys(g.retained) \subseteq SpooledKeys(spool) \ SpooledKeys(g.todo)  BY <1>1, <1>4, <2>3
  <2>7. SpooledKeys(spool) \subseteq SpooledKeys(g.todo) \cup SpooledKeys(g.retained) \cup collected' \cup given'
    BY <1>1, <1>4, <2>3
  <2> QED BY <1>4, <2>2, <2>4, <2>5, <2>6, <2>7 DEF FlushInv, SpooledKeys
<1> QED BY <1>5, <1>6

LEMMA FlushNextKeeps == ASSUME SpoolInv, NEW p \in Senders, FlushNext(p) PROVE SpoolInv'
<1> DEFINE this == job[<<p, "flush">>]
           new == job'[<<p, "flush">>]
<1>1. this \in SpoolJobs /\ this.todo \subseteq Records /\ this.retained \subseteq Records /\ this.delivered \in Nat
  BY JobsAre DEF SpoolInv, SpoolTypeOK, SpoolJobs
<1>2. PICK record \in this.todo :
        /\ this.pc = "locked"
        /\ \/ /\ given' = given \cup {record.key} /\ UNCHANGED collected
              /\ job' = [job EXCEPT ![<<p, "flush">>].todo = this.todo \ {record}]
           \/ /\ collected' = collected \cup {record.key} /\ UNCHANGED given
              /\ job' = [job EXCEPT ![<<p, "flush">>].todo = this.todo \ {record},
                                   ![<<p, "flush">>].delivered = @ + 1]
           \/ /\ UNCHANGED given /\ collected \subseteq collected'
              /\ \E r \in {record, [record EXCEPT !.waiting = TRUE]} :
                   job' = [job EXCEPT ![<<p, "flush">>].todo = this.todo \ {record},
                                      ![<<p, "flush">>].retained = @ \cup {r}]
        /\ UNCHANGED <<spoolFiles, healthVars, day, captured, queued, own>>
  BY DEF FlushNext, Transport
<1>3. /\ UNCHANGED <<spool, lockFile, healthy, undeliverable, day, captured, queued, own>>
      /\ collected \subseteq collected' /\ given \subseteq given'
  BY <1>2 DEF spoolFiles, healthVars
<1>4. \A r \in {record, [record EXCEPT !.waiting = TRUE]} : r \in Records /\ r.key = record.key  BY <1>1 DEF Records
<1>5. /\ job' \in [Jobs -> SpoolJobs]
      /\ \A j \in Jobs : j # <<p, "flush">> => job'[j] = job[j]
      /\ new.pc = "locked" /\ new \in SpoolJobs
      /\ new.todo = this.todo \ {record}
      /\ \/ new.retained = this.retained /\ record.key \in collected' \cup given'
         \/ \E r \in Records : r.key = record.key /\ new.retained = this.retained \cup {r}
  <2>1. job \in [Jobs -> SpoolJobs] /\ <<p, "flush">> \in Jobs  BY JobsAre DEF SpoolInv, SpoolTypeOK
  <2>2. CASE job' = [job EXCEPT ![<<p, "flush">>].todo = this.todo \ {record}]
             /\ record.key \in collected' \cup given'
    BY <1>1, <1>2, <2>1, <2>2 DEF SpoolJobs
  <2>3. CASE job' = [job EXCEPT ![<<p, "flush">>].todo = this.todo \ {record}, ![<<p, "flush">>].delivered = @ + 1]
             /\ record.key \in collected' \cup given'
    BY <1>1, <1>2, <2>1, <2>3, SMTT(30) DEF SpoolJobs
  <2>4. ASSUME NEW r \in Records, r.key = record.key,
               job' = [job EXCEPT ![<<p, "flush">>].todo = this.todo \ {record}, ![<<p, "flush">>].retained = @ \cup {r}]
        PROVE  <1>5!:
    BY <1>1, <1>2, <2>1, <2>4 DEF SpoolJobs
  <2> QED BY <1>2, <1>4, <2>2, <2>3, <2>4
<1> HIDE DEF this, new
<1>6. SpoolTypeOK'  BY <1>3, <1>5 DEF SpoolInv, SpoolTypeOK, UniqueKeys
<1>7. EnqueueInv'
  <2>1. \A q \in Senders : job'[<<q, "enqueue">>] = job[<<q, "enqueue">>]  BY <1>5, JobsAre
  <2> QED BY <1>3, <2>1 DEF SpoolInv, EnqueueInv
<1>8. LockInv'  BY <1>2, <1>3, <1>5, JobsAre DEF SpoolInv, LockInv, this
<1>9. \A q \in Senders : job'[<<q, "flush">>].pc = "locked" => q = p
  BY <1>2, <1>3, <1>5, JobsAre, ZenonT(60) DEF SpoolInv, LockInv, this
<1>10. FlushInv(job[<<p, "flush">>])'
  <2>1. FlushInv(this)  BY <1>2 DEF SpoolInv, this
  <2>2. PICK g \in SpoolJobs : g = new  BY <1>5
  <2>3. FlushInv(g)'  BY <1>1, <1>3, <1>5, <2>1, <2>2, DealtWithKeeps
  <2> QED BY <2>2, <2>3 DEF new, FlushInv, SpooledKeys
<1> QED BY <1>3, <1>6, <1>7, <1>8, <1>9, <1>10 DEF SpoolInv, SpooledKeys, SpoolConserves, SpoolFits, HealthIsHonest

LEMMA FlushEndKeeps == ASSUME SpoolInv, NEW p \in Senders, FlushEnd(p) PROVE SpoolInv'
<1> DEFINE this == job[<<p, "flush">>]
           fine == Cardinality(this.retained) = 0 /\ ~(undeliverable[p] /\ this.delivered = 0)
<1>1. /\ this.pc = "locked" /\ this.todo = {} /\ spool' = this.retained /\ lockFile' = NoLock
      /\ job' = [job EXCEPT ![<<p, "flush">>] = IdleJob]
      /\ healthy' = [healthy EXCEPT ![p] = fine]
      /\ undeliverable' = [undeliverable EXCEPT ![p] = @ /\ ~fine]
      /\ UNCHANGED <<day, captured, collected, queued, own, given>>
  BY DEF FlushEnd, WriteRecords, FlushReported, spoolHistory
<1>2. FlushInv(this) /\ this.retained \subseteq Records  BY <1>1, JobsAre DEF SpoolInv, SpoolTypeOK, SpoolJobs
<1>3. /\ spool' \subseteq Records /\ IsFiniteSet(spool') /\ UniqueKeys(spool)'
      /\ SpooledKeys(spool') \subseteq SpooledKeys(spool)
      /\ SpooledKeys(spool) \subseteq SpooledKeys(spool') \cup collected \cup given
  <2>1. SpooledKeys({}) = {}  BY DEF SpooledKeys
  <2> HIDE DEF this
  <2> QED BY <1>1, <1>2, <2>1 DEF FlushInv, UniqueKeys
<1>4. Cardinality(spool') <= SpoolSize
  <2>1. Cardinality({}) = 0 /\ Cardinality(spool') \in Nat /\ Cardinality(spool) \in Nat
    BY <1>3, FS_EmptySet, FS_CardinalityType DEF SpoolInv, SpoolTypeOK
  <2>2. Cardinality(spool') <= Cardinality(spool) /\ Cardinality(spool) <= SpoolSize
    BY <1>1, <1>2, <2>1 DEF FlushInv, SpoolInv, SpoolFits
  <2> QED BY <2>1, <2>2, ServerSpoolAssumption
<1>5. /\ job' \in [Jobs -> SpoolJobs] /\ job'[<<p, "flush">>].pc = "idle"
      /\ \A j \in Jobs : j # <<p, "flush">> => job'[j] = job[j]
  BY <1>1, JobsAre DEF SpoolInv, SpoolTypeOK, IdleJob, SpoolJobs
<1>6. healthy' \in [Senders -> BOOLEAN] /\ undeliverable' \in [Senders -> BOOLEAN]  BY <1>1 DEF SpoolInv, SpoolTypeOK
<1>7. SpoolTypeOK'  BY <1>1, <1>3, <1>5, <1>6 DEF SpoolInv, SpoolTypeOK
<1>8. EnqueueInv'  BY <1>1, <1>5, JobsAre DEF SpoolInv, EnqueueInv
<1>9. LockInv' /\ \A q \in Senders : job'[<<q, "flush">>].pc # "locked"
  <2>1. \A j \in Jobs : job'[j].pc # "locked"  BY <1>1, <1>5, JobsAre DEF SpoolInv, LockInv
  <2> QED BY <2>1, JobsAre DEF LockInv
<1>10. HealthIsHonest'
  <2>1. ASSUME healthy'[p] PROVE SpooledKeys(spool') = {}
    <3>1. Cardinality(this.retained) = 0  BY <1>1, <2>1 DEF SpoolInv, SpoolTypeOK
    <3>2. spool' = {}  BY <1>1, <1>3, <3>1, FS_EmptySet
    <3> QED BY <3>2 DEF SpooledKeys
  <2>2. \A q \in Senders : q # p => healthy'[q] = healthy[q]  BY <1>1 DEF SpoolInv, SpoolTypeOK
  <2> QED BY <1>1, <1>3, <2>1, <2>2 DEF SpoolInv, HealthIsHonest
<1> QED BY <1>1, <1>3, <1>4, <1>7, <1>8, <1>9, <1>10 DEF SpoolInv, SpoolConserves, SpoolFits

LEMMA SpoolStep == SpoolInv /\ [ServerSpoolNext]_spoolVars => SpoolInv'
<1> SUFFICES ASSUME SpoolInv, [ServerSpoolNext]_spoolVars PROVE SpoolInv'  OBVIOUS
<1>1. CASE UNCHANGED spoolVars
  BY <1>1 DEF spoolVars, spoolFiles, healthVars, spoolHistory, SpoolInv, SpoolTypeOK, EnqueueInv, LockInv, FlushInv,
    UniqueKeys, SpooledKeys, SpoolConserves, SpoolFits, HealthIsHonest
<1> QED BY <1>1, CaptureKeeps, TakeLockKeeps, EnqueueKeeps, StartFlushKeeps, FlushNextKeeps, FlushEndKeeps,
  LockTimesOutKeeps, KillKeeps, TimeKeeps DEF ServerSpoolNext, ServerSpoolStep

\* Whatever processes share a spool, and whenever they time out, are killed
\* or fail to deliver: an event that was queued is in the file, with the
\* collector, or was given up; the file keeps to its bound; and a process
\* that calls itself healthy has nothing of its own in it.
THEOREM ServerSpoolSafe == ServerSpoolSpec => []ServerSpoolIsSafe
<1>1. SpoolInv => ServerSpoolIsSafe  BY DEF SpoolInv, ServerSpoolIsSafe
<1> QED BY <1>1, SpoolInitially, SpoolStep, PTL DEF ServerSpoolSpec

-----
(* The inductive invariant. *)
RowStates == {"pending", "claimed", "retrying"} \cup Finished

Envelopes ==
    [key : Keys, payload : Payloads, state : RowStates, attempts : Nat,
     events : Nat, letters : Nat]

QueueJobs ==
    [pc : {"idle", "claimed", "tx", "failed"}, row : Nat, attempts : Nat,
     seen : Issues \cup {NoValue}]

QueueTypeOK ==
    /\ queue \in Seq(Envelopes)
    /\ issue \in [Fingerprints -> Issues \cup {NoValue}]
    /\ lock \in [Fingerprints -> Workers \cup {NoValue}]
    /\ worker \in [Workers -> QueueJobs]
    /\ overtaken \subseteq Rows
    /\ faults \in Nat /\ transitions \in Nat

WorksOn(w, r) == worker[w].pc # "idle" /\ worker[w].row = r

\* A transaction holds the lock of the issue it writes to, and what it read is
\* what is stored.
TransactionInv ==
    /\ \A w \in Workers :
          /\ worker[w].pc # "idle" => worker[w].row \in Rows
          /\ worker[w].pc = "tx" =>
                LET f == FingerprintOf(worker[w].row)
                IN  lock[f] = w /\ worker[w].seen = Stored(f)
    /\ \A f \in Fingerprints : lock[f] # NoValue =>
          worker[lock[f]].pc = "tx" /\ FingerprintOf(worker[lock[f]].row) = f

KeysInv == \A r, q \in Rows : queue[r].key = queue[q].key => r = q

\* A dead letter is written with the state, which nothing leaves.
LettersInv ==
    \A r \in Rows : queue[r].letters # 0 =>
        queue[r].letters = 1 /\ queue[r].state = "dead_lettered"

\* A row that was not released under its worker has one worker, which knows its
\* attempts and has not yet counted it, or has and was not told so.
ClaimInv ==
    \A r \in Rows \ overtaken :
        /\ queue[r].events = IF queue[r].state = "processed" THEN 1 ELSE 0
        /\ MaxAttempts <= QueueMaxAttempts /\ queue[r].state = "dead_lettered" => queue[r].letters = 1
        /\ \A w \in Workers : WorksOn(w, r) =>
              /\ queue[r].state \in {"claimed", "processed"}
              /\ worker[w].pc # "failed" => queue[r].state = "claimed"
              /\ worker[w].attempts = queue[r].attempts
              /\ \A v \in Workers : WorksOn(v, r) => v = w

\* The counters of an issue are the numbers of its rows in the other tables.
CountInv ==
    \A f \in Fingerprints :
        /\ IsFiniteSet(EventRows(RowsOfIssue(f)))
        /\ issue[f] = NoValue => \A r \in RowsOfIssue(f) : queue[r].events = 0
        /\ issue[f] # NoValue =>
              /\ issue[f].count = Cardinality(EventRows(RowsOfIssue(f)))
              /\ issue[f].users = {UserOf(r) : r \in {q \in RowsOfIssue(f) : queue[q].events > 0}} \ {NoValue}
              /\ IsFiniteSet(issue[f].users)
              /\ issue[f].affected = Cardinality(issue[f].users)

\* The activity log of an issue: not empty, its last entry is the status, and a
\* regression follows a resolution.
LogFits(i) ==
    /\ i.log # <<>>
    /\ i.status = i.log[Len(i.log)]
    /\ \A n \in 1 .. Len(i.log) : i.log[n] = "regressed" => n > 1 /\ i.log[n - 1] = "resolved"

LogInv == \A f \in Fingerprints : issue[f] # NoValue => LogFits(issue[f])

QueueInv ==
    /\ QueueTypeOK /\ TransactionInv /\ KeysInv /\ LettersInv
    /\ ClaimInv /\ CountInv /\ LogInv

-----
(* The rows of the tables. *)

\* A row of error_events names its envelope and a number.
LEMMA EventRow ==
    ASSUME NEW rows, NEW x
    PROVE  x \in EventRows(rows) <=> \E r \in rows : \E n \in 1 .. queue[r].events : x = <<r, n>>
BY DEF EventRows

\* Writing one row of ingest_processing leaves the others, and what the
\* envelopes say.
LEMMA RowWritten ==
    ASSUME QueueTypeOK, NEW r \in Rows, NEW row \in Envelopes,
           queue' = [queue EXCEPT ![r] = row],
           row.key = queue[r].key, row.payload = queue[r].payload
    PROVE  /\ queue' \in Seq(Envelopes) /\ Rows' = Rows
           /\ queue'[r] = row
           /\ \A q \in Rows : q # r => queue'[q] = queue[q]
           /\ \A q \in Rows :
                 /\ queue'[q].key = queue[q].key
                 /\ FingerprintOf(q)' = FingerprintOf(q)
                 /\ UserOf(q)' = UserOf(q)
           /\ \A f : RowsOfIssue(f)' = RowsOfIssue(f)
<1>1. queue' \in Seq(Envelopes) /\ Rows' = Rows /\ queue'[r] = row
      /\ \A q \in Rows : q # r => queue'[q] = queue[q]
  BY DEF QueueTypeOK, Rows
<1>2. \A q \in Rows : queue'[q].key = queue[q].key /\ queue'[q].payload = queue[q].payload  BY <1>1
<1> QED BY <1>1, <1>2 DEF FingerprintOf, UserOf, RowsOfIssue

\* A row read is a row of the table.
LEMMA RowRead ==
    ASSUME QueueTypeOK, NEW r \in Rows
    PROVE  /\ queue[r] \in Envelopes
           /\ FingerprintOf(r) \in Fingerprints /\ UserOf(r) \in Users \cup {NoValue}
           /\ r \in Nat
<1>1. queue[r] \in Envelopes /\ r \in Nat  BY DEF QueueTypeOK, Rows
<1> QED BY <1>1, QueueConstants DEF Envelopes, FingerprintOf, UserOf

\* Steps that store no occurrence leave the counts.
LEMMA SameCounts ==
    ASSUME QueueTypeOK, CountInv,
           \A r \in Rows : /\ r \in Rows' /\ queue'[r].events = queue[r].events
                           /\ FingerprintOf(r)' = FingerprintOf(r) /\ UserOf(r)' = UserOf(r),
           \A r \in Rows' : r \in Rows \/ queue'[r].events = 0,
           \A f \in Fingerprints :
              \/ issue'[f] = issue[f]
              \/ /\ issue[f] # NoValue /\ issue'[f] # NoValue
                 /\ issue'[f].count = issue[f].count /\ issue'[f].affected = issue[f].affected
                 /\ issue'[f].users = issue[f].users
    PROVE  CountInv'
<1> SUFFICES ASSUME NEW f \in Fingerprints
    PROVE  /\ IsFiniteSet(EventRows(RowsOfIssue(f)))'
           /\ issue'[f] = NoValue => \A r \in RowsOfIssue(f)' : queue'[r].events = 0
           /\ issue'[f] # NoValue =>
                 /\ issue'[f].count = Cardinality(EventRows(RowsOfIssue(f))')
                 /\ issue'[f].users = {UserOf(r) : r \in {q \in RowsOfIssue(f) : queue[q].events > 0}}' \ {NoValue}
                 /\ IsFiniteSet(issue'[f].users)
                 /\ issue'[f].affected = Cardinality(issue'[f].users)
  BY DEF CountInv
<1>1. \A r \in RowsOfIssue(f)' : r \in RowsOfIssue(f) \/ queue'[r].events = 0  BY DEF RowsOfIssue
<1>2. \A r \in RowsOfIssue(f) : r \in RowsOfIssue(f)' /\ queue'[r].events = queue[r].events /\ UserOf(r)' = UserOf(r)
  BY DEF RowsOfIssue
<1>3. EventRows(RowsOfIssue(f))' = EventRows(RowsOfIssue(f))
  <2>1. ASSUME NEW x, x \in EventRows(RowsOfIssue(f))' PROVE x \in EventRows(RowsOfIssue(f))
    <3>1. PICK r \in RowsOfIssue(f)' : \E n \in 1 .. queue'[r].events : x = <<r, n>>  BY <2>1 DEF EventRows
    <3>2. r \in RowsOfIssue(f) /\ queue'[r].events = queue[r].events  BY <1>1, <1>2, <3>1
    <3> QED BY <3>1, <3>2, EventRow
  <2>2. ASSUME NEW x, x \in EventRows(RowsOfIssue(f)) PROVE x \in EventRows(RowsOfIssue(f))'
    <3>1. PICK r \in RowsOfIssue(f) : \E n \in 1 .. queue[r].events : x = <<r, n>>  BY <2>2, EventRow
    <3> QED BY <1>2, <3>1 DEF EventRows
  <2> QED BY <2>1, <2>2
<1>4. {UserOf(r) : r \in {q \in RowsOfIssue(f) : queue[q].events > 0}}'
      = {UserOf(r) : r \in {q \in RowsOfIssue(f) : queue[q].events > 0}}
  <2>1. {q \in RowsOfIssue(f) : queue[q].events > 0}' = {q \in RowsOfIssue(f) : queue[q].events > 0}  BY <1>1, <1>2
  <2> QED BY <1>2, <2>1
<1>5. (\A r \in RowsOfIssue(f) : queue[r].events = 0) => \A r \in RowsOfIssue(f)' : queue'[r].events = 0
  BY <1>1, <1>2
<1> QED BY <1>3, <1>4, <1>5 DEF CountInv

-----
(* The steps. *)
LEMMA QueueStarts == Init => QueueInv
<1> SUFFICES ASSUME Init PROVE QueueInv  OBVIOUS
<1>1. Rows = {}  BY DEF Init, Rows
<1>2. QueueTypeOK  BY <1>1, QueueConstants DEF Init, QueueTypeOK, Idle, QueueJobs
<1>3. TransactionInv  BY DEF Init, TransactionInv, Idle
<1>4. CountInv
  <2>1. \A f : RowsOfIssue(f) = {}  BY <1>1 DEF RowsOfIssue
  <2>2. EventRows({}) = {}  BY DEF EventRows
  <2> QED BY <2>1, <2>2, FS_EmptySet DEF Init, CountInv
<1> QED BY <1>1, <1>2, <1>3, <1>4 DEF QueueInv, KeysInv, LettersInv, ClaimInv, LogInv, Init

LEMMA InsertKeeps ==
    ASSUME QueueInv, NEW k \in Keys, NEW p \in Payloads, InsertRaw(k, p)
    PROVE  QueueInv'
<1>0. QueueTypeOK  BY DEF QueueInv
<1> DEFINE n == Len(queue) + 1
<1>1. /\ NewRow(k, p) \in Envelopes
      /\ NewRow(k, p).key = k /\ NewRow(k, p).events = 0 /\ NewRow(k, p).letters = 0
      /\ NewRow(k, p).state = "pending"
  BY DEF NewRow, Envelopes, RowStates
<1>2. /\ queue' \in Seq(Envelopes) /\ Rows' = Rows \cup {n} /\ n \notin Rows
      /\ queue'[n] = NewRow(k, p) /\ \A r \in Rows : queue'[r] = queue[r]
  <2>1. queue \in Seq(Envelopes) /\ queue' = Append(queue, NewRow(k, p))  BY <1>0 DEF QueueTypeOK, InsertRaw
  <2>2. Len(queue) \in Nat /\ Len(queue') = n /\ DOMAIN queue = 1 .. Len(queue) /\ DOMAIN queue' = 1 .. n
    BY <1>1, <2>1
  <2> QED BY <1>1, <2>1, <2>2 DEF Rows
<1>3. UNCHANGED <<issue, lock, worker, overtaken, faults, transitions>>  BY DEF InsertRaw
<1> HIDE DEF n
<1>4. \A r \in Rows : FingerprintOf(r)' = FingerprintOf(r) /\ UserOf(r)' = UserOf(r)
  BY <1>2 DEF FingerprintOf, UserOf
<1>5. QueueTypeOK'  BY <1>0, <1>2, <1>3 DEF QueueTypeOK
<1>6. TransactionInv'
  <2>1. TransactionInv  BY DEF QueueInv
  <2>2. \A f \in Fingerprints : Stored(f)' = Stored(f)  BY <1>3 DEF Stored
  <2>3. \A w \in Workers : worker[w].pc # "idle" => FingerprintOf(worker[w].row)' = FingerprintOf(worker[w].row)
                                               /\ FingerprintOf(worker[w].row) \in Fingerprints
    BY <1>0, <1>3, <1>4, <2>1, RowRead DEF TransactionInv
  <2>4. \A f \in Fingerprints : lock[f] # NoValue => lock[f] \in Workers  BY <1>0 DEF QueueTypeOK
  <2> QED BY <1>2, <1>3, <2>1, <2>2, <2>3, <2>4 DEF TransactionInv
<1>7. KeysInv' /\ LettersInv'
  <2>1. \A r \in Rows : queue[r].key # k  BY DEF InsertRaw
  <2> QED BY <1>1, <1>2, <2>1 DEF QueueInv, KeysInv, LettersInv
<1>8. ClaimInv'
  <2>1. \A w \in Workers : worker[w].pc # "idle" => worker[w].row \in Rows  BY DEF QueueInv, TransactionInv
  <2>2. \A w \in Workers : ~WorksOn(w, n)  BY <1>2, <2>1 DEF WorksOn
  <2>3. \A w \in Workers, r \in Rows' : WorksOn(w, r)' = WorksOn(w, r)  BY <1>3 DEF WorksOn
  <2> QED BY <1>1, <1>2, <1>3, <2>2, <2>3 DEF QueueInv, ClaimInv
<1>9. CountInv'  BY <1>0, <1>1, <1>2, <1>3, <1>4, SameCounts DEF QueueInv
<1>10. LogInv'  BY <1>3 DEF QueueInv, LogInv
<1> QED BY <1>5, <1>6, <1>7, <1>8, <1>9, <1>10 DEF QueueInv

LEMMA SameClaims ==
    ASSUME ClaimInv, UNCHANGED <<queue, overtaken>>,
           \A v \in Workers, r \in Rows : WorksOn(v, r)' =>
              /\ WorksOn(v, r) /\ worker'[v].attempts = worker[v].attempts
              /\ worker'[v].pc # "failed" => worker[v].pc # "failed"
    PROVE  ClaimInv'
<1>1. Rows' = Rows  BY DEF Rows
<1> QED BY <1>1 DEF ClaimInv

LEMMA ClaimKeeps == ASSUME QueueInv, NEW w \in Workers, ClaimNext(w) PROVE QueueInv'
<1>0. QueueTypeOK /\ TransactionInv /\ ClaimInv /\ UNCHANGED <<issue, lock, overtaken, faults, transitions>>
  BY DEF QueueInv, ClaimNext
<1>1. PICK r \in Rows :
         /\ queue[r].state \in {"pending", "retrying"}
         /\ queue' = [queue EXCEPT ![r].state = "claimed"]
         /\ worker' = [worker EXCEPT ![w] =
               [pc |-> "claimed", row |-> r, attempts |-> queue[r].attempts, seen |-> NoValue]]
  BY DEF ClaimNext
<1>2. PICK row : row = [queue[r] EXCEPT !.state = "claimed"]  OBVIOUS
<1>3. /\ row \in Envelopes /\ row.key = queue[r].key /\ row.payload = queue[r].payload
      /\ row.events = queue[r].events /\ row.letters = queue[r].letters
      /\ row.attempts = queue[r].attempts /\ row.state = "claimed"
  BY <1>0, <1>2, RowRead DEF Envelopes, RowStates
<1>4. /\ queue' \in Seq(Envelopes) /\ Rows' = Rows /\ queue'[r] = row
      /\ \A q \in Rows : q # r => queue'[q] = queue[q]
      /\ \A q \in Rows : /\ queue'[q].key = queue[q].key
                         /\ FingerprintOf(q)' = FingerprintOf(q)
                         /\ UserOf(q)' = UserOf(q)
  <2>1. queue' = [queue EXCEPT ![r] = row]  BY <1>1, <1>2
  <2> QED BY <1>0, <1>3, <2>1, RowWritten
<1>5. worker[w].pc = "idle" /\ worker'[w].pc = "claimed" /\ worker'[w].row = r
      /\ worker'[w].attempts = queue[r].attempts
      /\ \A v \in Workers : v # w => worker'[v] = worker[v]
  BY <1>0, <1>1 DEF ClaimNext, QueueTypeOK
<1>6. QueueTypeOK'
  <2>1. r \in Nat /\ queue[r].attempts \in Nat  BY <1>0, RowRead DEF Envelopes
  <2>2. worker' \in [Workers -> QueueJobs]  BY <1>0, <1>1, <2>1 DEF QueueTypeOK, QueueJobs
  <2> QED BY <1>0, <1>4, <2>2 DEF QueueTypeOK
<1>7. TransactionInv'
  <2>1. \A f \in Fingerprints : Stored(f)' = Stored(f) /\ lock[f] # w
    BY <1>0, <1>5, QueueConstants DEF Stored, TransactionInv, QueueTypeOK
  <2>2. \A v \in Workers : worker[v].pc # "idle" =>
            worker[v].row \in Rows /\ FingerprintOf(worker[v].row) \in Fingerprints
    BY <1>0, RowRead DEF TransactionInv
  <2>3. \A f \in Fingerprints : lock[f] # NoValue => lock[f] \in Workers /\ worker'[lock[f]] = worker[lock[f]]
    BY <1>0, <1>5, <2>1 DEF QueueTypeOK
  <2>4. ASSUME NEW v \in Workers, v # w
        PROVE  /\ worker'[v].pc # "idle" => worker'[v].row \in Rows'
               /\ worker'[v].pc = "tx" =>
                     lock[FingerprintOf(worker[v].row)]' = v /\ worker'[v].seen = Stored(FingerprintOf(worker[v].row))'
    BY <1>0, <1>4, <1>5, <2>1, <2>2, <2>4 DEF TransactionInv
  <2> QED BY <1>0, <1>4, <1>5, <2>2, <2>3, <2>4 DEF TransactionInv
<1>8. KeysInv' /\ LettersInv'
  <2>1. queue[r].letters = 0  BY <1>0, <1>1, RowRead DEF QueueInv, LettersInv
  <2> QED BY <1>3, <1>4, <2>1 DEF QueueInv, KeysInv, LettersInv
<1>9. ClaimInv'
  <2>1. ASSUME NEW q \in Rows \ overtaken, q # r
        PROVE  \A v \in Workers : WorksOn(v, q)' = WorksOn(v, q) /\ (WorksOn(v, q)' => worker'[v] = worker[v])
    BY <1>5, <2>1 DEF WorksOn
  <2>2. r \notin overtaken => \A v \in Workers : WorksOn(v, r)' <=> v = w  BY <1>0, <1>1, <1>5 DEF ClaimInv, WorksOn
  <2>3. r \notin overtaken => queue[r].events = 0  BY <1>0, <1>1 DEF ClaimInv
  <2> QED BY <1>0, <1>3, <1>4, <1>5, <2>1, <2>2, <2>3 DEF ClaimInv
<1>10. CountInv'  BY <1>0, <1>3, <1>4, SameCounts DEF QueueInv
<1>11. LogInv'  BY <1>0 DEF QueueInv, LogInv
<1> QED BY <1>6, <1>7, <1>8, <1>9, <1>10, <1>11 DEF QueueInv

LEMMA ReleaseKeeps == ASSUME QueueInv, NEW w \in Workers, ReleaseExpiredClaims(w) PROVE QueueInv'
<1>0. QueueTypeOK /\ TransactionInv /\ ClaimInv /\ UNCHANGED <<issue, lock, worker, faults, transitions>>
  BY DEF QueueInv, ReleaseExpiredClaims
<1>1. PICK r \in Rows :
         /\ queue[r].state = "claimed"
         /\ queue' = [queue EXCEPT ![r].state = "retrying"]
         /\ overtaken' = IF AtWork(r) THEN overtaken \union {r} ELSE overtaken
  BY DEF ReleaseExpiredClaims
<1>2. PICK row : row = [queue[r] EXCEPT !.state = "retrying"]  OBVIOUS
<1>3. /\ row \in Envelopes /\ row.key = queue[r].key /\ row.payload = queue[r].payload
      /\ row.events = queue[r].events /\ row.letters = queue[r].letters
      /\ row.attempts = queue[r].attempts /\ row.state = "retrying"
  BY <1>0, <1>2, RowRead DEF Envelopes, RowStates
<1>4. /\ queue' \in Seq(Envelopes) /\ Rows' = Rows /\ queue'[r] = row
      /\ \A q \in Rows : q # r => queue'[q] = queue[q]
      /\ \A q \in Rows : /\ queue'[q].key = queue[q].key
                         /\ FingerprintOf(q)' = FingerprintOf(q)
                         /\ UserOf(q)' = UserOf(q)
  <2>1. queue' = [queue EXCEPT ![r] = row]  BY <1>1, <1>2
  <2> QED BY <1>0, <1>3, <2>1, RowWritten
<1>5. QueueTypeOK'  BY <1>0, <1>1, <1>4 DEF QueueTypeOK
<1>6. TransactionInv'
  <2>1. \A f \in Fingerprints : Stored(f)' = Stored(f)  BY <1>0 DEF Stored
  <2>2. \A v \in Workers : worker[v].pc # "idle" =>
            FingerprintOf(worker[v].row)' = FingerprintOf(worker[v].row)
            /\ FingerprintOf(worker[v].row) \in Fingerprints
    BY <1>0, <1>4, RowRead DEF TransactionInv
  <2>3. \A f \in Fingerprints : lock[f] # NoValue => lock[f] \in Workers  BY <1>0 DEF QueueTypeOK
  <2> QED BY <1>0, <1>4, <2>1, <2>2, <2>3 DEF TransactionInv
<1>7. KeysInv' /\ LettersInv'
  <2>1. queue[r].letters = 0  BY <1>0, <1>1, RowRead DEF QueueInv, LettersInv
  <2> QED BY <1>3, <1>4, <2>1 DEF QueueInv, KeysInv, LettersInv
<1>8. ClaimInv'
  <2>1. \A v \in Workers, q \in Rows : WorksOn(v, q)' = WorksOn(v, q)  BY <1>0 DEF WorksOn
  <2>2. r \notin overtaken' => \A v \in Workers : ~WorksOn(v, r)  BY <1>1 DEF AtWork, WorksOn
  <2>3. r \notin overtaken => queue[r].events = 0  BY <1>0, <1>1 DEF ClaimInv
  <2>4. overtaken \subseteq overtaken'  BY <1>1
  <2> QED BY <1>0, <1>3, <1>4, <2>1, <2>2, <2>3, <2>4 DEF ClaimInv
<1>9. CountInv'  BY <1>0, <1>3, <1>4, SameCounts DEF QueueInv
<1>10. LogInv'  BY <1>0 DEF QueueInv, LogInv
<1> QED BY <1>5, <1>6, <1>7, <1>8, <1>9, <1>10 DEF QueueInv

\* Steps of a worker that leave the tables alone.
LEMMA QuietTables ==
    ASSUME QueueInv, UNCHANGED <<queue, issue, overtaken>>, QueueTypeOK', TransactionInv',
           \A v \in Workers, r \in Rows : WorksOn(v, r)' =>
              /\ WorksOn(v, r) /\ worker'[v].attempts = worker[v].attempts
              /\ worker'[v].pc # "failed" => worker[v].pc # "failed"
    PROVE  QueueInv'
<1>1. Rows' = Rows  BY DEF Rows
<1>2. ClaimInv'  BY SameClaims DEF QueueInv
<1>3. CountInv'  BY <1>1, SameCounts DEF QueueInv, FingerprintOf, UserOf
<1> QED BY <1>1, <1>2, <1>3 DEF QueueInv, KeysInv, LettersInv, LogInv

LEMMA FreshIssueType == FreshIssue \in Issues /\ LogFits(FreshIssue)
BY DEF FreshIssue, Issues, IssueStatus, LogFits

LEMMA StoredType == ASSUME QueueTypeOK, NEW f \in Fingerprints PROVE Stored(f) \in Issues
BY FreshIssueType DEF QueueTypeOK, Stored

LEMMA FindKeeps == ASSUME QueueInv, NEW w \in Workers, FindOrCreateIssue(w) PROVE QueueInv'
<1>0. QueueTypeOK /\ TransactionInv /\ worker[w].pc = "claimed" /\ UNCHANGED <<queue, issue, overtaken, faults, transitions>>
  BY DEF QueueInv, FindOrCreateIssue
<1>1. PICK f \in Fingerprints : f = FingerprintOf(worker[w].row)  BY <1>0, RowRead DEF TransactionInv
<1>2. /\ lock[f] = NoValue /\ lock' = [lock EXCEPT ![f] = w]
      /\ worker' = [worker EXCEPT ![w].pc = "tx", ![w].seen = Stored(f)]
  BY <1>1 DEF FindOrCreateIssue
<1>3. /\ worker'[w].pc = "tx" /\ worker'[w].seen = Stored(f) /\ worker'[w].row = worker[w].row
      /\ worker'[w].attempts = worker[w].attempts
      /\ \A v \in Workers : v # w => worker'[v] = worker[v]
      /\ worker' \in [Workers -> QueueJobs]
  <2>1. PICK held : held = [worker[w] EXCEPT !.pc = "tx", !.seen = Stored(f)]  OBVIOUS
  <2>2. worker' = [worker EXCEPT ![w] = held]  BY <1>0, <1>2, <2>1 DEF QueueTypeOK
  <2>3. worker[w] \in QueueJobs /\ Stored(f) \in Issues  BY <1>0, StoredType DEF QueueTypeOK
  <2>4. /\ held \in QueueJobs /\ held.pc = "tx" /\ held.seen = Stored(f)
        /\ held.row = worker[w].row /\ held.attempts = worker[w].attempts
    BY <2>1, <2>3 DEF QueueJobs
  <2> QED BY <1>0, <2>2, <2>4 DEF QueueTypeOK
<1>4. QueueTypeOK'  BY <1>0, <1>2, <1>3 DEF QueueTypeOK, Rows
<1>5. TransactionInv'
  <2>1. \A g \in Fingerprints : Stored(g)' = Stored(g)  BY <1>0 DEF Stored
  <2>2. \A r : FingerprintOf(r)' = FingerprintOf(r)  BY <1>0 DEF FingerprintOf
  <2>3. Rows' = Rows  BY <1>0 DEF Rows
  <2>4. /\ lock'[f] = w /\ \A g \in Fingerprints : g # f => lock'[g] = lock[g]
        /\ \A g \in Fingerprints : lock[g] # NoValue => lock[g] \in Workers /\ lock[g] # w
        /\ w # NoValue
    BY <1>0, <1>2, QueueConstants DEF QueueTypeOK, TransactionInv
  <2>5. \A v \in Workers : v # w /\ worker[v].pc = "tx" => FingerprintOf(worker[v].row) \in Fingerprints \ {f}
    BY <1>0, <1>2, RowRead, QueueConstants DEF TransactionInv
  <2>6. \A v \in Workers : worker'[v].pc # "idle" => worker'[v].row \in Rows'  BY <1>0, <1>3, <2>3 DEF TransactionInv
  <2>7. ASSUME NEW v \in Workers, worker'[v].pc = "tx"
        PROVE  lock[FingerprintOf(worker[v].row)]' = v /\ worker'[v].seen = Stored(FingerprintOf(worker[v].row))'
    <3>1. CASE v = w
      <4>1. FingerprintOf(worker[w].row)' = f  BY <1>1, <1>3, <2>2
      <4> QED BY <1>3, <2>1, <2>4, <3>1, <4>1
    <3>2. CASE v # w
      <4>1. worker'[v] = worker[v]  BY <1>3, <3>2
      <4>2. FingerprintOf(worker[v].row)' = FingerprintOf(worker[v].row)  BY <2>2, <4>1
      <4>3. FingerprintOf(worker[v].row) \in Fingerprints \ {f}  BY <2>5, <2>7, <3>2, <4>1
      <4> QED BY <1>0, <2>1, <2>4, <2>7, <4>1, <4>2, <4>3 DEF TransactionInv
    <3> QED BY <3>1, <3>2
  <2>8. ASSUME NEW g \in Fingerprints, lock'[g] # NoValue
        PROVE  worker'[lock'[g]].pc = "tx" /\ FingerprintOf(worker[lock[g]].row)' = g
    <3>1. CASE g = f  BY <1>1, <1>3, <2>2, <2>4, <3>1
    <3>2. CASE g # f
      <4>1. lock'[g] = lock[g] /\ worker'[lock[g]] = worker[lock[g]]  BY <1>3, <2>4, <2>8, <3>2
      <4> QED BY <1>0, <2>2, <2>8, <4>1 DEF TransactionInv
    <3> QED BY <3>1, <3>2
  <2> QED BY <2>6, <2>7, <2>8 DEF TransactionInv
<1>6. \A v \in Workers, r \in Rows : WorksOn(v, r)' =>
        /\ WorksOn(v, r) /\ worker'[v].attempts = worker[v].attempts
        /\ worker'[v].pc # "failed" => worker[v].pc # "failed"
  BY <1>0, <1>3 DEF WorksOn
<1> QED BY <1>0, <1>4, <1>5, <1>6, QuietTables

\* A rollback gives the lock back; the worker failed, or it is gone.
LEMMA RollbackKeeps ==
    ASSUME QueueInv, NEW w \in Workers, NEW held \in QueueJobs, held.pc \in {"idle", "failed"},
           worker[w].pc # "idle", held.pc = "failed" => held = [worker[w] EXCEPT !.pc = "failed"],
           lock' = Unlock(w), worker' = [worker EXCEPT ![w] = held], faults' = faults + 1,
           UNCHANGED <<queue, issue, overtaken, transitions>>
    PROVE  QueueInv'
<1>0. QueueTypeOK /\ TransactionInv  BY DEF QueueInv
<1>1. \A v \in Workers : worker'[v] = IF v = w THEN held ELSE worker[v]  BY <1>0 DEF QueueTypeOK
<1>2. \A g \in Fingerprints : lock'[g] = IF lock[g] = w THEN NoValue ELSE lock[g]  BY DEF Unlock
<1>3. Rows' = Rows /\ (\A r : FingerprintOf(r)' = FingerprintOf(r)) /\ (\A g \in Fingerprints : Stored(g)' = Stored(g))
  BY DEF Rows, FingerprintOf, Stored
<1>4. held.pc = "failed" => held.row = worker[w].row /\ held.attempts = worker[w].attempts
  BY <1>0 DEF QueueTypeOK, QueueJobs
<1>5. QueueTypeOK'
  <2>1. lock' \in [Fingerprints -> Workers \cup {NoValue}]  BY <1>0, <1>2 DEF QueueTypeOK, Unlock
  <2>2. worker' \in [Workers -> QueueJobs]  BY <1>0 DEF QueueTypeOK
  <2> QED BY <1>0, <1>3, <2>1, <2>2 DEF QueueTypeOK
<1>6. TransactionInv'
  <2>1. \A v \in Workers : worker'[v].pc # "idle" => worker'[v].row \in Rows'
    BY <1>0, <1>1, <1>3, <1>4 DEF TransactionInv
  <2>2. ASSUME NEW v \in Workers, worker'[v].pc = "tx"
        PROVE  lock[FingerprintOf(worker[v].row)]' = v /\ worker'[v].seen = Stored(FingerprintOf(worker[v].row))'
    <3>1. v # w /\ worker'[v] = worker[v]  BY <1>1, <2>2
    <3>2. PICK g \in Fingerprints : g = FingerprintOf(worker[v].row)  BY <1>0, <2>2, <3>1, RowRead DEF TransactionInv
    <3>3. FingerprintOf(worker[v].row)' = g  BY <1>3, <3>1, <3>2
    <3>4. lock[g] = v /\ worker[v].seen = Stored(g)  BY <1>0, <2>2, <3>1, <3>2 DEF TransactionInv
    <3> QED BY <1>2, <1>3, <3>1, <3>3, <3>4
  <2>3. ASSUME NEW g \in Fingerprints, lock'[g] # NoValue
        PROVE  worker'[lock'[g]].pc = "tx" /\ FingerprintOf(worker[lock[g]].row)' = g
    <3>1. lock'[g] = lock[g] /\ lock[g] # w /\ lock[g] \in Workers  BY <1>0, <1>2, <2>3 DEF QueueTypeOK
    <3> QED BY <1>0, <1>1, <1>3, <2>3, <3>1 DEF TransactionInv
  <2> QED BY <2>1, <2>2, <2>3 DEF TransactionInv
<1>7. \A v \in Workers, r \in Rows : WorksOn(v, r)' =>
        /\ WorksOn(v, r) /\ worker'[v].attempts = worker[v].attempts
        /\ worker'[v].pc # "failed" => worker[v].pc # "failed"
  BY <1>1, <1>4 DEF WorksOn
<1> QED BY <1>5, <1>6, <1>7, QuietTables

LEMMA FailKeeps == ASSUME QueueInv, NEW w \in Workers, TransactionFails(w) \/ Crash(w) PROVE QueueInv'
<1>0. worker[w] \in QueueJobs  BY DEF QueueInv, QueueTypeOK
<1>1. CASE TransactionFails(w)
  <2>1. PICK held : held = [worker[w] EXCEPT !.pc = "failed"]  OBVIOUS
  <2>2. held \in QueueJobs /\ held.pc = "failed"  BY <1>0, <2>1 DEF QueueJobs
  <2>3. worker' = [worker EXCEPT ![w] = held]  BY <1>1, <2>1 DEF TransactionFails
  <2> QED BY <1>1, <2>1, <2>2, <2>3, RollbackKeeps DEF TransactionFails
<1>2. CASE Crash(w)
  <2>1. Idle \in QueueJobs /\ Idle.pc = "idle"  BY DEF Idle, QueueJobs
  <2> QED BY <1>2, <2>1, RollbackKeeps DEF Crash
<1> QED BY <1>1, <1>2

LEMMA MaxOfTwo == ASSUME NEW a \in Nat, NEW b \in Nat PROVE Max({a, b}) \in Nat
<1>1. \E x \in {a, b} : \A y \in {a, b} : x >= y  OBVIOUS
<1> QED BY <1>1 DEF Max

\* After a failure a claimed row is retried or given up, any other row is left.
LEMMA FailureWritten ==
    ASSUME NEW row \in Envelopes, NEW n \in Nat, NEW new,
           new = IF n >= MaxAttempts THEN DeadLetter(row, n) ELSE MarkRetry(row)
    PROVE  /\ new \in Envelopes /\ new.key = row.key /\ new.payload = row.payload
           /\ new.events = row.events
           /\ row.state # "claimed" => new = row
           /\ row.state = "claimed" =>
                 \/ new.state = "dead_lettered" /\ new.letters = row.letters + 1
                 \/ new.state = "retrying" /\ new.letters = row.letters
                 \/ /\ new.state = "dead_lettered" /\ new.letters = row.letters
                    /\ n < MaxAttempts /\ row.attempts + 1 >= QueueMaxAttempts
<1>1. Max({row.attempts, n}) \in Nat /\ MaxAttempts \in Nat /\ QueueMaxAttempts \in Nat
  BY MaxOfTwo, QueueConstants DEF Envelopes
<1> HIDE DEF Max
<1>2. CASE row.state # "claimed"  BY <1>2 DEF DeadLetter, MarkRetry
<1>3. CASE row.state = "claimed" /\ n >= MaxAttempts
  <2>1. new = [row EXCEPT !.state = "dead_lettered", !.letters = row.letters + 1,
                          !.attempts = Max({row.attempts, n})]
    BY <1>3 DEF DeadLetter
  <2>2. PICK m \in Nat : m = Max({row.attempts, n})  BY <1>1
  <2>3. PICK l \in Nat : l = row.letters + 1  BY DEF Envelopes
  <2>4. new = [row EXCEPT !.state = "dead_lettered", !.letters = l, !.attempts = m]  BY <2>1, <2>2, <2>3
  <2>5. /\ new \in Envelopes /\ new.key = row.key /\ new.payload = row.payload
        /\ new.events = row.events /\ new.state = "dead_lettered" /\ new.letters = l
    BY <2>4 DEF Envelopes, RowStates, Finished
  <2> QED BY <1>3, <2>3, <2>5
<1>4. CASE row.state = "claimed" /\ ~(n >= MaxAttempts)
  <2>1. new = [row EXCEPT !.attempts = row.attempts + 1,
                          !.state = IF row.attempts + 1 >= QueueMaxAttempts THEN "dead_lettered" ELSE "retrying"]
    BY <1>4 DEF MarkRetry
  <2>2. PICK m \in Nat : m = row.attempts + 1  BY DEF Envelopes
  <2>3. PICK state \in RowStates : state = IF m >= QueueMaxAttempts THEN "dead_lettered" ELSE "retrying"
    BY DEF RowStates, Finished
  <2>4. new = [row EXCEPT !.attempts = m, !.state = state]  BY <2>1, <2>2, <2>3
  <2>5. /\ new \in Envelopes /\ new.key = row.key /\ new.payload = row.payload
        /\ new.events = row.events /\ new.state = state /\ new.letters = row.letters
    BY <2>4 DEF Envelopes
  <2> QED BY <1>1, <1>4, <2>2, <2>3, <2>5
<1> QED BY <1>2, <1>3, <1>4

LEMMA HandleFailureKeeps == ASSUME QueueInv, NEW w \in Workers, HandleFailure(w) PROVE QueueInv'
<1>0. /\ QueueTypeOK /\ TransactionInv /\ ClaimInv /\ LettersInv /\ worker[w].pc = "failed"
      /\ UNCHANGED <<issue, lock, overtaken, faults, transitions>>
  BY DEF QueueInv, HandleFailure
<1>1. PICK r \in Rows : r = worker[w].row  BY <1>0 DEF TransactionInv
<1>2. PICK n \in Nat : n = worker[w].attempts + 1  BY <1>0 DEF QueueTypeOK, QueueJobs
<1>3. PICK row : row = IF n >= MaxAttempts THEN DeadLetter(queue[r], n) ELSE MarkRetry(queue[r])  OBVIOUS
<1>4. /\ row \in Envelopes /\ row.key = queue[r].key /\ row.payload = queue[r].payload
      /\ row.events = queue[r].events
      /\ queue[r].state # "claimed" => row = queue[r]
      /\ queue[r].state = "claimed" =>
            \/ row.state = "dead_lettered" /\ row.letters = queue[r].letters + 1
            \/ row.state = "retrying" /\ row.letters = queue[r].letters
            \/ /\ row.state = "dead_lettered" /\ row.letters = queue[r].letters
               /\ n < MaxAttempts /\ queue[r].attempts + 1 >= QueueMaxAttempts
  BY <1>0, <1>3, RowRead, FailureWritten
<1>5. /\ queue' \in Seq(Envelopes) /\ Rows' = Rows /\ queue'[r] = row
      /\ \A q \in Rows : q # r => queue'[q] = queue[q]
      /\ \A q \in Rows : /\ queue'[q].key = queue[q].key
                         /\ FingerprintOf(q)' = FingerprintOf(q)
                         /\ UserOf(q)' = UserOf(q)
  <2>1. queue' = [queue EXCEPT ![r] = row]  BY <1>1, <1>2, <1>3 DEF HandleFailure
  <2> QED BY <1>0, <1>4, <2>1, RowWritten
<1>6. \A v \in Workers : worker'[v] = IF v = w THEN Idle ELSE worker[v]  BY <1>0 DEF HandleFailure, QueueTypeOK
<1>7. QueueTypeOK'
  <2>1. worker' \in [Workers -> QueueJobs]  BY <1>0 DEF HandleFailure, QueueTypeOK, Idle, QueueJobs
  <2> QED BY <1>0, <1>5, <2>1 DEF QueueTypeOK
<1>8. TransactionInv'
  <2>1. \A f \in Fingerprints : Stored(f)' = Stored(f) /\ lock[f] # w
    BY <1>0, QueueConstants DEF Stored, TransactionInv, QueueTypeOK
  <2>2. \A v \in Workers : worker[v].pc # "idle" =>
            worker[v].row \in Rows /\ FingerprintOf(worker[v].row) \in Fingerprints
    BY <1>0, RowRead DEF TransactionInv
  <2>3. \A f \in Fingerprints : lock[f] # NoValue => lock[f] \in Workers /\ worker'[lock[f]] = worker[lock[f]]
    BY <1>0, <1>6, <2>1 DEF QueueTypeOK
  <2>4. ASSUME NEW v \in Workers
        PROVE  /\ worker'[v].pc # "idle" => worker'[v].row \in Rows'
               /\ worker'[v].pc = "tx" =>
                     lock[FingerprintOf(worker[v].row)]' = v /\ worker'[v].seen = Stored(FingerprintOf(worker[v].row))'
    BY <1>0, <1>5, <1>6, <2>1, <2>2 DEF TransactionInv, Idle
  <2> QED BY <1>0, <1>5, <1>6, <2>2, <2>3, <2>4 DEF TransactionInv
<1>9. KeysInv' /\ LettersInv'
  <2>1. queue[r].state = "claimed" => queue[r].letters = 0  BY <1>0, RowRead DEF LettersInv
  <2>2. row.letters # 0 => row.letters = 1 /\ row.state = "dead_lettered"  BY <1>0, <1>4, <2>1, RowRead DEF LettersInv
  <2> QED BY <1>4, <1>5, <2>2 DEF QueueInv, KeysInv, LettersInv
<1>10. ClaimInv'
  <2>1. WorksOn(w, r)  BY <1>0, <1>1 DEF WorksOn
  <2>2. ASSUME NEW q \in Rows \ overtaken, q # r
        PROVE  \A v \in Workers : WorksOn(v, q)' = WorksOn(v, q) /\ (WorksOn(v, q)' => worker'[v] = worker[v])
    BY <1>1, <1>6, <2>2 DEF WorksOn, Idle
  <2>3. r \notin overtaken => \A v \in Workers : ~WorksOn(v, r)'  BY <1>0, <1>6, <2>1 DEF ClaimInv, WorksOn, Idle
  <2>4. ASSUME r \notin overtaken
        PROVE  /\ row.events = IF row.state = "processed" THEN 1 ELSE 0
               /\ MaxAttempts <= QueueMaxAttempts /\ row.state = "dead_lettered" => row.letters = 1
    <3>1. /\ queue[r].events = IF queue[r].state = "processed" THEN 1 ELSE 0
          /\ queue[r].state \in {"claimed", "processed"} /\ worker[w].attempts = queue[r].attempts
      BY <1>0, <2>1, <2>4 DEF ClaimInv
    <3>2. CASE queue[r].state = "processed"  BY <1>4, <3>1, <3>2
    <3>3. CASE queue[r].state = "claimed"
      <4>1. queue[r].letters = 0 /\ queue[r].attempts \in Nat  BY <1>0, <3>3, RowRead DEF LettersInv, Envelopes
      <4> QED BY <1>2, <1>4, <3>1, <3>3, <4>1, QueueConstants
    <3> QED BY <3>1, <3>2, <3>3
  <2> QED BY <1>0, <1>5, <2>2, <2>3, <2>4 DEF ClaimInv
<1>11. CountInv'  BY <1>0, <1>4, <1>5, SameCounts DEF QueueInv
<1>12. LogInv'  BY <1>0 DEF QueueInv, LogInv
<1> QED BY <1>7, <1>8, <1>9, <1>10, <1>11, <1>12 DEF QueueInv

\* What a transaction stores that has read what is stored.
LEMMA OccurrenceStored ==
    ASSUME NEW i \in Issues, NEW u \in Users \cup {NoValue}, LogFits(i),
           IsFiniteSet(i.users), i.affected = Cardinality(i.users),
           NEW o, o = Occurrence(i, i, u)
    PROVE  /\ o \in Issues /\ LogFits(o) /\ o.count = i.count + 1
           /\ o.users = i.users \cup ({u} \ {NoValue})
           /\ IsFiniteSet(o.users) /\ o.affected = Cardinality(o.users)
<1>1. PICK add : add = {u} \ {NoValue}  OBVIOUS
<1>2. PICK affected : affected = i.affected + Cardinality(add \ i.users)  OBVIOUS
<1>3. PICK log : log = IF i.status = "resolved" THEN Append(i.log, "regressed") ELSE i.log  OBVIOUS
<1>4. PICK status : status = IF i.status = "resolved" THEN "regressed" ELSE i.status  OBVIOUS
<1>5. o = [status |-> status, count |-> i.count + 1, affected |-> affected,
           users |-> i.users \cup add, log |-> log]
  BY <1>1, <1>2, <1>3, <1>4 DEF Occurrence
<1>6. /\ IsFiniteSet(i.users \cup add) /\ affected = Cardinality(i.users \cup add) /\ affected \in Nat
      /\ i.users \cup add \subseteq Users
  <2>0. i.users \subseteq Users  BY DEF Issues
  <2>1. CASE add \subseteq i.users
    <3>1. add \ i.users = {} /\ i.users \cup add = i.users  BY <2>1
    <3>2. Cardinality(add \ i.users) = 0 /\ Cardinality(i.users) \in Nat  BY <3>1, FS_EmptySet, FS_CardinalityType
    <3>3. affected = Cardinality(i.users)  BY <1>2, <3>2
    <3> QED BY <2>0, <3>1, <3>2, <3>3
  <2>2. CASE u # NoValue /\ u \notin i.users
    <3>1. add \ i.users = {u} /\ i.users \cup add = i.users \cup {u}  BY <1>1, <2>2
    <3>2. IsFiniteSet(i.users \cup {u}) /\ Cardinality(i.users \cup {u}) = Cardinality(i.users) + 1
      BY <2>2, FS_AddElement
    <3>3. Cardinality({u}) = 1 /\ Cardinality(i.users) \in Nat  BY FS_Singleton, FS_CardinalityType
    <3> QED BY <1>2, <2>0, <2>2, <3>1, <3>2, <3>3
  <2> QED BY <1>1, <2>1, <2>2
<1>7. i.log \in Seq(IssueStatus) /\ i.status \in IssueStatus /\ i.count \in Nat  BY DEF Issues
<1>8. log \in Seq(IssueStatus) /\ status \in IssueStatus  BY <1>3, <1>4, <1>7 DEF IssueStatus
<1>9. o \in Issues  BY <1>5, <1>6, <1>7, <1>8 DEF Issues
<1>10. LogFits(o)
  <2>1. o.log = log /\ o.status = status  BY <1>5
  <2>2. CASE i.status # "resolved"  BY <1>3, <1>4, <2>1, <2>2 DEF LogFits
  <2>3. CASE i.status = "resolved"
    <3>1. /\ log # <<>> /\ Len(log) = Len(i.log) + 1 /\ Len(i.log) \in Nat /\ Len(i.log) > 0
          /\ log[Len(i.log) + 1] = "regressed"
          /\ \A n \in 1 .. Len(i.log) : log[n] = i.log[n]
      BY <1>3, <1>7, <2>3 DEF LogFits
    <3>2. ASSUME NEW n \in 1 .. Len(log), log[n] = "regressed"
          PROVE  n > 1 /\ log[n - 1] = "resolved"
      <4>1. CASE n = Len(i.log) + 1
        <5>1. i.log[Len(i.log)] = "resolved"  BY <2>3 DEF LogFits
        <5>2. n > 1 /\ n - 1 = Len(i.log) /\ n - 1 \in 1 .. Len(i.log)  BY <3>1, <4>1
        <5> QED BY <3>1, <5>1, <5>2
      <4>2. CASE n \in 1 .. Len(i.log)
        <5>1. n > 1 /\ i.log[n - 1] = "resolved"  BY <3>1, <3>2, <4>2 DEF LogFits
        <5> QED BY <3>1, <4>2, <5>1
      <4> QED BY <3>1, <4>1, <4>2
    <3> QED BY <1>4, <2>1, <2>3, <3>1, <3>2 DEF LogFits
  <2> QED BY <2>2, <2>3
<1> QED BY <1>1, <1>5, <1>6, <1>9, <1>10

LEMMA CommitKeeps ==
    ASSUME QueueInv, NEW w \in Workers, Commit(w), NEW held \in QueueJobs, faults' \in Nat,
           worker' = [worker EXCEPT ![w] = held],
           \/ held = Idle
           \/ held.pc = "failed" /\ held.row = worker[w].row /\ held.attempts = worker[w].attempts
    PROVE  QueueInv'
<1>0. /\ QueueTypeOK /\ TransactionInv /\ ClaimInv /\ LettersInv /\ CountInv /\ LogInv
      /\ worker[w].pc = "tx" /\ UNCHANGED <<overtaken, transitions>>
  BY DEF QueueInv, Commit
<1>1. PICK r \in Rows : r = worker[w].row  BY <1>0 DEF TransactionInv
<1>2. PICK f \in Fingerprints : f = FingerprintOf(r)  BY <1>0, RowRead
<1>3. PICK u \in Users \cup {NoValue} : u = UserOf(r)  BY <1>0, RowRead
<1>4. PICK i \in Issues : i = Stored(f)  BY <1>0, StoredType
<1>5. PICK o : o = Occurrence(i, i, u)  OBVIOUS
<1>6. PICK row : row = MarkProcessed(queue[r])  OBVIOUS
<1>7. worker[w].seen = i /\ lock[f] = w  BY <1>0, <1>1, <1>2, <1>4 DEF TransactionInv
<1>8. /\ issue' = [issue EXCEPT ![f] = o]
      /\ queue' = [queue EXCEPT ![r] = row]
      /\ lock' = [lock EXCEPT ![f] = NoValue]
  BY <1>1, <1>2, <1>3, <1>4, <1>5, <1>6, <1>7 DEF Commit
<1>9. /\ row \in Envelopes /\ row.key = queue[r].key /\ row.payload = queue[r].payload
      /\ row.events = queue[r].events + 1 /\ row.letters = queue[r].letters
      /\ row.attempts = queue[r].attempts
      /\ row.state = IF queue[r].state = "claimed" THEN "processed" ELSE queue[r].state
  <2>1. queue[r] \in Envelopes  BY <1>0, RowRead
  <2>2. PICK n \in Nat : n = queue[r].events + 1  BY <2>1 DEF Envelopes
  <2>3. PICK state \in RowStates : state = IF queue[r].state = "claimed" THEN "processed" ELSE queue[r].state
    BY <2>1 DEF Envelopes, RowStates, Finished
  <2>4. row = [queue[r] EXCEPT !.events = n, !.state = state]  BY <1>6, <2>2, <2>3 DEF MarkProcessed
  <2>5. /\ row \in Envelopes /\ row.key = queue[r].key /\ row.payload = queue[r].payload
        /\ row.events = n /\ row.letters = queue[r].letters
        /\ row.attempts = queue[r].attempts /\ row.state = state
    BY <2>1, <2>4 DEF Envelopes
  <2> QED BY <2>2, <2>3, <2>5
<1>10. /\ queue' \in Seq(Envelopes) /\ Rows' = Rows /\ queue'[r] = row
       /\ \A q \in Rows : q # r => queue'[q] = queue[q]
       /\ \A q \in Rows : /\ queue'[q].key = queue[q].key
                          /\ FingerprintOf(q)' = FingerprintOf(q)
                          /\ UserOf(q)' = UserOf(q)
       /\ \A g : RowsOfIssue(g)' = RowsOfIssue(g)
  BY <1>0, <1>8, <1>9, RowWritten
<1>11. /\ IsFiniteSet(i.users) /\ i.affected = Cardinality(i.users) /\ LogFits(i)
       /\ i.count = Cardinality(EventRows(RowsOfIssue(f)))
       /\ IsFiniteSet(EventRows(RowsOfIssue(f)))
       /\ i.users = {UserOf(q) : q \in {p \in RowsOfIssue(f) : queue[p].events > 0}} \ {NoValue}
  <2>1. CASE issue[f] # NoValue  BY <1>0, <1>4, <2>1 DEF CountInv, LogInv, Stored
  <2>2. CASE issue[f] = NoValue
    <3>1. i = FreshIssue /\ i.users = {} /\ i.affected = 0 /\ i.count = 0  BY <1>4, <2>2 DEF Stored, FreshIssue
    <3>2. \A q \in RowsOfIssue(f) : queue[q].events = 0  BY <1>0, <2>2 DEF CountInv
    <3>3. EventRows(RowsOfIssue(f)) = {}  BY <3>2, EventRow
    <3>4. {p \in RowsOfIssue(f) : queue[p].events > 0} = {}  BY <3>2
    <3> QED BY <3>1, <3>3, <3>4, FS_EmptySet, FreshIssueType
  <2> QED BY <2>1, <2>2
<1>12. /\ o \in Issues /\ LogFits(o) /\ o.count = i.count + 1
       /\ o.users = i.users \cup ({u} \ {NoValue})
       /\ IsFiniteSet(o.users) /\ o.affected = Cardinality(o.users)
  BY <1>5, <1>11, OccurrenceStored
<1>13. issue'[f] = o /\ o # NoValue /\ \A g \in Fingerprints : g # f => issue'[g] = issue[g]
  BY <1>0, <1>8, <1>12, QueueConstants DEF QueueTypeOK
<1>14. lock'[f] = NoValue /\ \A g \in Fingerprints : g # f => lock'[g] = lock[g]  BY <1>0, <1>8 DEF QueueTypeOK
<1>15. \A v \in Workers : worker'[v] = IF v = w THEN held ELSE worker[v]  BY <1>0 DEF QueueTypeOK
<1>16. held.pc \in {"idle", "failed"} /\ (held.pc # "idle" => held.row = r /\ held.attempts = worker[w].attempts)
  BY <1>1 DEF Idle
<1>17. QueueTypeOK'
  <2>1. issue' \in [Fingerprints -> Issues \cup {NoValue}] /\ lock' \in [Fingerprints -> Workers \cup {NoValue}]
        /\ worker' \in [Workers -> QueueJobs]
    BY <1>0, <1>8, <1>12 DEF QueueTypeOK
  <2> QED BY <1>0, <1>10, <2>1 DEF QueueTypeOK
<1>18. TransactionInv'
  <2>1. \A v \in Workers : worker'[v].pc # "idle" => worker'[v].row \in Rows'
    BY <1>0, <1>10, <1>15, <1>16 DEF TransactionInv
  <2>2. ASSUME NEW v \in Workers, worker'[v].pc = "tx"
        PROVE  lock[FingerprintOf(worker[v].row)]' = v /\ worker'[v].seen = Stored(FingerprintOf(worker[v].row))'
    <3>1. v # w /\ worker'[v] = worker[v]  BY <1>15, <1>16, <2>2
    <3>2. PICK g \in Fingerprints : g = FingerprintOf(worker[v].row)  BY <1>0, <2>2, <3>1, RowRead DEF TransactionInv
    <3>3. lock[g] = v /\ worker[v].seen = Stored(g) /\ worker[v].row \in Rows
      BY <1>0, <2>2, <3>1, <3>2 DEF TransactionInv
    <3>4. g # f  BY <1>7, <3>1, <3>3
    <3>5. FingerprintOf(worker[v].row)' = g  BY <1>10, <3>1, <3>2, <3>3
    <3>6. Stored(g)' = Stored(g)  BY <1>13, <3>4 DEF Stored
    <3> QED BY <1>14, <3>1, <3>3, <3>4, <3>5, <3>6
  <2>3. ASSUME NEW g \in Fingerprints, lock'[g] # NoValue
        PROVE  worker'[lock'[g]].pc = "tx" /\ FingerprintOf(worker[lock[g]].row)' = g
    <3>1. g # f /\ lock'[g] = lock[g] /\ lock[g] \in Workers  BY <1>0, <1>14, <2>3 DEF QueueTypeOK
    <3>2. worker[lock[g]].pc = "tx" /\ FingerprintOf(worker[lock[g]].row) = g /\ worker[lock[g]].row \in Rows
      BY <1>0, <2>3, <3>1 DEF TransactionInv
    <3>3. lock[g] # w  BY <1>1, <1>2, <3>1, <3>2
    <3> QED BY <1>10, <1>15, <3>1, <3>2, <3>3
  <2> QED BY <2>1, <2>2, <2>3 DEF TransactionInv
<1>19. KeysInv' /\ LettersInv'  BY <1>0, <1>9, <1>10 DEF QueueInv, KeysInv, LettersInv
<1>20. ClaimInv'
  <2>1. WorksOn(w, r) /\ worker[w].pc # "failed"  BY <1>0, <1>1 DEF WorksOn
  <2>2. ASSUME NEW q \in Rows \ overtaken, q # r
        PROVE  \A v \in Workers : WorksOn(v, q)' = WorksOn(v, q) /\ (WorksOn(v, q)' => worker'[v] = worker[v])
    BY <1>1, <1>15, <1>16, <2>2 DEF WorksOn
  <2>3. ASSUME r \notin overtaken
        PROVE  /\ row.events = 1 /\ row.state = "processed"
               /\ \A v \in Workers : WorksOn(v, r)' => v = w /\ held.pc = "failed" /\ held.attempts = row.attempts
    <3>1. /\ queue[r].state = "claimed" /\ queue[r].events = 0
          /\ worker[w].attempts = queue[r].attempts
          /\ \A v \in Workers : WorksOn(v, r) => v = w
      BY <1>0, <2>1, <2>3 DEF ClaimInv
    <3> QED BY <1>9, <1>15, <1>16, <3>1 DEF WorksOn
  <2>4. ASSUME NEW q \in Rows \ overtaken
        PROVE  /\ queue'[q].events = IF queue'[q].state = "processed" THEN 1 ELSE 0
               /\ MaxAttempts <= QueueMaxAttempts /\ queue'[q].state = "dead_lettered" => queue'[q].letters = 1
               /\ \A v \in Workers : WorksOn(v, q)' =>
                     /\ queue'[q].state \in {"claimed", "processed"}
                     /\ worker'[v].pc # "failed" => queue'[q].state = "claimed"
                     /\ worker'[v].attempts = queue'[q].attempts
                     /\ \A x \in Workers : WorksOn(x, q)' => x = v
    <3>1. CASE q # r  BY <1>0, <1>10, <2>2, <3>1 DEF ClaimInv
    <3>2. CASE q = r  BY <1>10, <1>15, <2>3, <3>2
    <3> QED BY <3>1, <3>2
  <2> QED BY <1>0, <1>10, <2>4 DEF ClaimInv
<1>21. CountInv'
  <2>0. r \in RowsOfIssue(f) /\ \A g \in Fingerprints \ {f} : r \notin RowsOfIssue(g)  BY <1>2 DEF RowsOfIssue
  <2>n. queue[r].events \in Nat /\ \A g : RowsOfIssue(g) \subseteq Rows  BY <1>0, RowRead DEF Envelopes, RowsOfIssue
  <2>1. ASSUME NEW g \in Fingerprints, g # f
        PROVE  /\ EventRows(RowsOfIssue(g))' = EventRows(RowsOfIssue(g))
               /\ {UserOf(q) : q \in {p \in RowsOfIssue(g) : queue[p].events > 0}}'
                     = {UserOf(q) : q \in {p \in RowsOfIssue(g) : queue[p].events > 0}}
               /\ \A q \in RowsOfIssue(g)' : q \in RowsOfIssue(g) /\ queue'[q].events = queue[q].events
    <3>1. \A q \in RowsOfIssue(g) : queue'[q] = queue[q] /\ UserOf(q)' = UserOf(q)  BY <1>10, <2>0, <2>n, <2>1
    <3>2. RowsOfIssue(g)' = RowsOfIssue(g)  BY <1>10
    <3>3. EventRows(RowsOfIssue(g))' = EventRows(RowsOfIssue(g))  BY <3>1, <3>2 DEF EventRows
    <3>4. {p \in RowsOfIssue(g) : queue[p].events > 0}' = {p \in RowsOfIssue(g) : queue[p].events > 0}  BY <3>1, <3>2
    <3> QED BY <3>1, <3>2, <3>3, <3>4
  <2>2. EventRows(RowsOfIssue(f))' = EventRows(RowsOfIssue(f)) \cup {<<r, queue[r].events + 1>>}
    <3>1. ASSUME NEW x, x \in EventRows(RowsOfIssue(f))'
          PROVE  x \in EventRows(RowsOfIssue(f)) \cup {<<r, queue[r].events + 1>>}
      <4>1. PICK q \in RowsOfIssue(f) : \E n \in 1 .. queue'[q].events : x = <<q, n>>  BY <1>10, <3>1 DEF EventRows
      <4>2. PICK n \in 1 .. queue'[q].events : x = <<q, n>>  BY <4>1
      <4>3. CASE q # r
        <5>1. n \in 1 .. queue[q].events  BY <1>10, <2>n, <4>2, <4>3
        <5> QED BY <4>2, <5>1, EventRow
      <4>4. CASE q = r /\ n = queue[r].events + 1  BY <4>2, <4>4
      <4>5. CASE q = r /\ n # queue[r].events + 1
        <5>1. n \in 1 .. queue[r].events  BY <1>9, <1>10, <2>n, <4>2, <4>5, SMTT(20)
        <5> QED BY <4>2, <4>5, <5>1, EventRow
      <4> QED BY <4>3, <4>4, <4>5
    <3>2. ASSUME NEW x, x \in EventRows(RowsOfIssue(f))
          PROVE  x \in EventRows(RowsOfIssue(f))'
      <4>1. PICK q \in RowsOfIssue(f) : \E n \in 1 .. queue[q].events : x = <<q, n>>  BY <3>2, EventRow
      <4>2. PICK n \in 1 .. queue[q].events : x = <<q, n>>  BY <4>1
      <4>3. n \in 1 .. queue'[q].events  BY <1>9, <1>10, <2>n, <4>2
      <4> QED BY <1>10, <4>2, <4>3 DEF EventRows
    <3>3. <<r, queue[r].events + 1>> \in EventRows(RowsOfIssue(f))'
      <4>1. queue[r].events + 1 \in 1 .. queue'[r].events  BY <1>9, <1>10, <2>n
      <4> QED BY <1>10, <2>0, <4>1 DEF EventRows
    <3> QED BY <3>1, <3>2, <3>3
  <2>3. <<r, queue[r].events + 1>> \notin EventRows(RowsOfIssue(f))
    <3>1. SUFFICES ASSUME <<r, queue[r].events + 1>> \in EventRows(RowsOfIssue(f)) PROVE FALSE  OBVIOUS
    <3>2. PICK q \in RowsOfIssue(f) : \E n \in 1 .. queue[q].events : <<r, queue[r].events + 1>> = <<q, n>>
      BY <3>1, EventRow
    <3> QED BY <2>n, <3>2
  <2>4. /\ IsFiniteSet(EventRows(RowsOfIssue(f))')
        /\ Cardinality(EventRows(RowsOfIssue(f))') = i.count + 1
    <3>1. PICK rows, row1 : rows = EventRows(RowsOfIssue(f)) /\ row1 = <<r, queue[r].events + 1>>  OBVIOUS
    <3>2. IsFiniteSet(rows \cup {row1}) /\ Cardinality(rows \cup {row1}) = Cardinality(rows) + 1
      BY <1>11, <2>3, <3>1, FS_AddElement
    <3> QED BY <1>11, <2>2, <3>1, <3>2
  <2>5. {UserOf(q) : q \in {p \in RowsOfIssue(f) : queue[p].events > 0}}'
           = {UserOf(q) : q \in {p \in RowsOfIssue(f) : queue[p].events > 0}} \cup {u}
    <3>1. {p \in RowsOfIssue(f) : queue[p].events > 0}' = {p \in RowsOfIssue(f) : queue[p].events > 0} \cup {r}
      BY <1>9, <1>10, <2>0, <2>n
    <3>2. \A q \in RowsOfIssue(f) : UserOf(q)' = UserOf(q)  BY <1>10, <2>n
    <3> QED BY <1>3, <2>0, <3>1, <3>2
  <2>6. o.users = {UserOf(q) : q \in {p \in RowsOfIssue(f) : queue[p].events > 0}}' \ {NoValue}  BY <1>11, <1>12, <2>5
  <2> QED
    <3> SUFFICES ASSUME NEW g \in Fingerprints
        PROVE  /\ IsFiniteSet(EventRows(RowsOfIssue(g)))'
               /\ issue'[g] = NoValue => \A q \in RowsOfIssue(g)' : queue'[q].events = 0
               /\ issue'[g] # NoValue =>
                     /\ issue'[g].count = Cardinality(EventRows(RowsOfIssue(g))')
                     /\ issue'[g].users = {UserOf(q) : q \in {p \in RowsOfIssue(g) : queue[p].events > 0}}' \ {NoValue}
                     /\ IsFiniteSet(issue'[g].users)
                     /\ issue'[g].affected = Cardinality(issue'[g].users)
      BY DEF CountInv
    <3>1. CASE g = f  BY <1>12, <1>13, <2>4, <2>6, <3>1
    <3>2. CASE g # f  BY <1>0, <1>13, <2>1, <3>2 DEF CountInv
    <3> QED BY <3>1, <3>2
<1>22. LogInv'  BY <1>0, <1>12, <1>13 DEF LogInv
<1> QED BY <1>17, <1>18, <1>19, <1>20, <1>21, <1>22 DEF QueueInv

LEMMA TransitionKeeps ==
    ASSUME QueueInv, NEW f \in Fingerprints, NEW s \in OperatorStatus, Transition(f, s)
    PROVE  QueueInv'
<1>0. /\ QueueTypeOK /\ TransactionInv /\ ClaimInv /\ CountInv /\ LogInv
      /\ issue[f] # NoValue /\ lock[f] = NoValue
      /\ UNCHANGED <<queue, lock, worker, overtaken, faults>> /\ transitions' = transitions + 1
  BY DEF QueueInv, Transition
<1>1. PICK i \in Issues : i = issue[f]  BY <1>0 DEF QueueTypeOK
<1>2. PICK o : o = [i EXCEPT !.status = s, !.log = Append(i.log, s)]  OBVIOUS
<1>3. issue' = [issue EXCEPT ![f] = o]  BY <1>0, <1>1, <1>2 DEF Transition, QueueTypeOK
<1>4. i.log \in Seq(IssueStatus) /\ s \in IssueStatus  BY DEF Issues, IssueStatus
<1>5. /\ o \in Issues /\ o.count = i.count /\ o.affected = i.affected /\ o.users = i.users
      /\ o.status = s /\ o.log = Append(i.log, s)
  <2>0. Append(i.log, s) \in Seq(IssueStatus)  BY <1>4
  <2>1. PICK log \in Seq(IssueStatus) : log = Append(i.log, s)  BY <2>0
  <2>2. o = [i EXCEPT !.status = s, !.log = log]  BY <1>2, <2>1
  <2>3. /\ o \in Issues /\ o.count = i.count /\ o.affected = i.affected /\ o.users = i.users
        /\ o.status = s /\ o.log = log
    BY <1>4, <2>2 DEF Issues
  <2> QED BY <2>1, <2>3
<1>6. LogFits(o)
  <2>1. LogFits(i) /\ s # "regressed"  BY <1>0, <1>1 DEF LogInv, OperatorStatus
  <2>2. /\ o.log # <<>> /\ Len(o.log) = Len(i.log) + 1 /\ Len(i.log) \in Nat
        /\ o.log[Len(i.log) + 1] = s
        /\ \A n \in 1 .. Len(i.log) : o.log[n] = i.log[n]
    BY <1>4, <1>5
  <2>3. ASSUME NEW n \in 1 .. Len(o.log), o.log[n] = "regressed"
        PROVE  n > 1 /\ o.log[n - 1] = "resolved"
    <3>1. n \in 1 .. Len(i.log)  BY <2>1, <2>2, <2>3
    <3>2. n > 1 /\ i.log[n - 1] = "resolved"  BY <2>1, <2>2, <2>3, <3>1 DEF LogFits
    <3> QED BY <2>2, <3>1, <3>2
  <2> QED BY <1>5, <2>2, <2>3 DEF LogFits
<1>7. issue'[f] = o /\ o # NoValue /\ \A g \in Fingerprints : g # f => issue'[g] = issue[g]
  BY <1>0, <1>3, <1>5, QueueConstants DEF QueueTypeOK
<1>8. Rows' = Rows /\ \A r : FingerprintOf(r)' = FingerprintOf(r) /\ UserOf(r)' = UserOf(r)
  BY <1>0 DEF Rows, FingerprintOf, UserOf
<1>9. QueueTypeOK'  BY <1>0, <1>3, <1>5, <1>8 DEF QueueTypeOK
<1>10. TransactionInv'
  <2>1. ASSUME NEW v \in Workers, worker[v].pc = "tx"
        PROVE  lock[FingerprintOf(worker[v].row)] = v /\ worker[v].seen = Stored(FingerprintOf(worker[v].row))'
    <3>1. PICK g \in Fingerprints : g = FingerprintOf(worker[v].row)  BY <1>0, <2>1, RowRead DEF TransactionInv
    <3>2. lock[g] = v /\ worker[v].seen = Stored(g)  BY <1>0, <2>1, <3>1 DEF TransactionInv
    <3>3. g # f  BY <1>0, <3>2, QueueConstants
    <3>4. Stored(g)' = Stored(g)  BY <1>7, <3>3 DEF Stored
    <3>5. Stored(FingerprintOf(worker[v].row))' = Stored(g)'  BY <1>0, <1>8, <3>1 DEF Stored
    <3> QED BY <3>1, <3>2, <3>4, <3>5
  <2> QED BY <1>0, <1>8, <2>1 DEF TransactionInv
<1>11. ClaimInv'
  <2>1. \A v \in Workers, r \in Rows : WorksOn(v, r)' = WorksOn(v, r)  BY <1>0 DEF WorksOn
  <2> QED BY <1>0, <2>1, SameClaims
<1>12. CountInv'  BY <1>0, <1>1, <1>5, <1>7, <1>8, SameCounts
<1>13. KeysInv' /\ LettersInv' /\ LogInv'  BY <1>0, <1>6, <1>7, <1>8 DEF QueueInv, KeysInv, LettersInv, LogInv
<1> QED BY <1>9, <1>10, <1>11, <1>12, <1>13 DEF QueueInv

LEMMA StutterKeeps == QueueInv /\ UNCHANGED vars => QueueInv'
<1> SUFFICES ASSUME QueueInv, UNCHANGED vars PROVE QueueInv'  OBVIOUS
<1>1. /\ Rows' = Rows /\ UNCHANGED <<queue, issue, lock, worker, overtaken, faults, transitions>>
      /\ \A r : FingerprintOf(r)' = FingerprintOf(r)
      /\ \A f : Stored(f)' = Stored(f)
  BY DEF vars, Rows, FingerprintOf, Stored
<1>2. QueueTypeOK' /\ TransactionInv'  BY <1>1 DEF QueueInv, QueueTypeOK, TransactionInv
<1>3. \A v \in Workers, r \in Rows : WorksOn(v, r)' = WorksOn(v, r)  BY <1>1 DEF WorksOn
<1> QED BY <1>1, <1>2, <1>3, QuietTables

LEMMA QueueNext == QueueInv /\ [Next]_vars => QueueInv'
<1> SUFFICES ASSUME QueueInv, [Next]_vars PROVE QueueInv'  OBVIOUS
<1>1. CASE \E k \in Keys, p \in Payloads : InsertRaw(k, p)  BY <1>1, InsertKeeps
<1>2. CASE \E w \in Workers : ClaimNext(w) \/ ReleaseExpiredClaims(w) \/ FindOrCreateIssue(w) \/ HandleFailure(w)
  BY <1>2, ClaimKeeps, ReleaseKeeps, FindKeeps, HandleFailureKeeps
<1>3. CASE \E w \in Workers : TransactionFails(w) \/ Crash(w)  BY <1>3, FailKeeps
<1>4. CASE \E w \in Workers : CommitAnswered(w)
  <2>1. PICK w \in Workers : CommitAnswered(w)  BY <1>4
  <2>2. Idle \in QueueJobs /\ faults \in Nat  BY DEF Idle, QueueJobs, QueueInv, QueueTypeOK
  <2> QED BY <2>1, <2>2, CommitKeeps DEF CommitAnswered
<1>5. CASE \E w \in Workers : CommitUnanswered(w)
  <2>1. PICK w \in Workers : CommitUnanswered(w)  BY <1>5
  <2>2. worker[w] \in QueueJobs /\ faults \in Nat  BY DEF QueueInv, QueueTypeOK
  <2>3. PICK held : held = [worker[w] EXCEPT !.pc = "failed"]  OBVIOUS
  <2>4. held \in QueueJobs /\ held.pc = "failed" /\ held.row = worker[w].row /\ held.attempts = worker[w].attempts
    BY <2>2, <2>3 DEF QueueJobs
  <2>5. worker' = [worker EXCEPT ![w] = held]  BY <2>1, <2>3 DEF CommitUnanswered
  <2>6. Commit(w) /\ faults' = faults + 1  BY <2>1 DEF CommitUnanswered
  <2>7. faults' \in Nat  BY <2>2, <2>6
  <2> QED BY ONLY QueueInv, w \in Workers, <2>4, <2>5, <2>6, <2>7, CommitKeeps
<1>6. CASE \E f \in Fingerprints, s \in OperatorStatus : Transition(f, s)  BY <1>6, TransitionKeeps
<1>7. CASE UNCHANGED vars  BY <1>7, StutterKeeps
<1> QED BY <1>1, <1>2, <1>3, <1>4, <1>5, <1>6, <1>7 DEF Next, WorkerStep

LEMMA QueueInvariant == Spec => []QueueInv
BY QueueStarts, QueueNext, PTL DEF Spec

-----
(* What the queue promises. *)

\* The rows of one key are one row at most, so their occurrences are those of
\* this row.
LEMMA CountedAtMostOnce == QueueInv => CountedOnce
<1> SUFFICES ASSUME QueueInv, NEW k \in Keys, RowsOfKey(k) \intersect overtaken = {}
             PROVE  /\ Events(RowsOfKey(k)) <= 1
                    /\ \A r \in RowsOfKey(k) : queue[r].state = "processed" <=> queue[r].events = 1
  BY DEF CountedOnce
<1>1. \A r \in RowsOfKey(k) : r \in Rows \ overtaken /\ queue[r].key = k  BY DEF RowsOfKey
<1>2. \A r \in RowsOfKey(k) : queue[r].events = IF queue[r].state = "processed" THEN 1 ELSE 0
  BY <1>1 DEF QueueInv, ClaimInv
<1>3. \A r, q \in RowsOfKey(k) : r = q  BY <1>1 DEF QueueInv, KeysInv
<1>4. CASE EventRows(RowsOfKey(k)) = {}  BY <1>2, <1>4, FS_EmptySet DEF Events
<1>5. CASE EventRows(RowsOfKey(k)) # {}
  <2>1. PICK x : x \in EventRows(RowsOfKey(k))  BY <1>5
  <2>2. PICK r \in RowsOfKey(k) : \E n \in 1 .. queue[r].events : x = <<r, n>>  BY <2>1, EventRow
  <2>3. \A y \in EventRows(RowsOfKey(k)) : y = <<r, 1>>
    <3>1. TAKE y \in EventRows(RowsOfKey(k))
    <3>2. PICK q \in RowsOfKey(k) : \E n \in 1 .. queue[q].events : y = <<q, n>>  BY EventRow
    <3> QED BY <1>2, <1>3, <3>2
  <2>4. EventRows(RowsOfKey(k)) = {<<r, 1>>}  BY <2>1, <2>3
  <2>5. Events(RowsOfKey(k)) = 1  BY <2>4, FS_Singleton DEF Events
  <2>6. \A q \in RowsOfKey(k) : queue[q].state = "processed" <=> queue[q].events = 1  BY <1>2
  <2> QED BY <2>5, <2>6
<1> QED BY <1>4, <1>5

\* An accepted envelope is counted once, over retries, lost answers, crashes and
\* repeated deliveries, unless its claim was released under a living worker; and
\* with a limit within the queue's own, one that is given up has its one record
\* in ingest_dead_letters.
THEOREM EnvelopesAccounted ==
    ASSUME MaxAttempts <= QueueMaxAttempts
    PROVE  Spec => []EnvelopesAreAccounted
<1>1. QueueInv => DeadLetterIsRecorded
  <2> SUFFICES ASSUME QueueInv, NEW r \in Rows
               PROVE  /\ queue[r].letters <= 1
                      /\ queue[r].letters = 1 => queue[r].state = "dead_lettered"
                      /\ queue[r].state = "dead_lettered" /\ r \notin overtaken =>
                            queue[r].letters = 1 /\ queue[r].events = 0
    BY DEF DeadLetterIsRecorded
  <2>1. queue[r].letters \in Nat  BY RowRead DEF QueueInv, Envelopes
  <2> QED BY <2>1 DEF QueueInv, LettersInv, ClaimInv
<1>2. QueueInv => EnvelopesAreAccounted  BY <1>1, CountedAtMostOnce DEF EnvelopesAreAccounted
<1> QED BY <1>2, QueueInvariant, PTL

\* The counters, the users, the status and the log of an issue agree with the
\* rows they were made from, also when an envelope was counted twice.
THEOREM IssuesAgree == Spec => []IssueAgreesWithLog
<1>1. QueueInv => CountsAgree
  <2> SUFFICES ASSUME QueueInv, NEW f \in Fingerprints
               PROVE  LET counted == {r \in RowsOfIssue(f) : queue[r].events > 0}
                          users == {UserOf(r) : r \in counted} \ {NoValue}
                      IN  IF issue[f] = NoValue
                          THEN counted = {}
                          ELSE /\ issue[f].count = Events(counted)
                               /\ issue[f].users = users
                               /\ issue[f].affected = Cardinality(users)
    BY DEF CountsAgree
  <2> DEFINE counted == {r \in RowsOfIssue(f) : queue[r].events > 0}
  <2>1. \A r \in RowsOfIssue(f) : queue[r].events \in Nat  BY RowRead DEF QueueInv, RowsOfIssue, Envelopes
  <2>2. EventRows(counted) = EventRows(RowsOfIssue(f))
    <3>1. ASSUME NEW x, x \in EventRows(RowsOfIssue(f)) PROVE x \in EventRows(counted)
      <4>1. PICK r \in RowsOfIssue(f) : \E n \in 1 .. queue[r].events : x = <<r, n>>  BY <3>1, EventRow
      <4>2. r \in counted  BY <2>1, <4>1
      <4> QED BY <4>1, <4>2, EventRow
    <3>2. ASSUME NEW x, x \in EventRows(counted) PROVE x \in EventRows(RowsOfIssue(f))
      <4>1. PICK r \in counted : \E n \in 1 .. queue[r].events : x = <<r, n>>  BY <3>2, EventRow
      <4> QED BY <4>1, EventRow
    <3> QED BY <3>1, <3>2
  <2>3. issue[f] = NoValue => counted = {}  BY DEF QueueInv, CountInv
  <2> QED BY <2>2, <2>3 DEF QueueInv, CountInv, Events
<1>2. QueueInv => StatusFollowsLog
  <2> SUFFICES ASSUME QueueInv, NEW f \in Fingerprints, issue[f] # NoValue
               PROVE  /\ issue[f].status = Last(issue[f].log)
                      /\ \A i \in DOMAIN issue[f].log :
                            issue[f].log[i] = "regressed" => i > 1 /\ issue[f].log[i - 1] = "resolved"
    BY DEF StatusFollowsLog
  <2>1. issue[f].log \in Seq(IssueStatus) /\ LogFits(issue[f])  BY DEF QueueInv, QueueTypeOK, LogInv, Issues
  <2> QED BY <2>1 DEF LogFits, Last
<1>3. QueueInv => IssueAgreesWithLog  BY <1>1, <1>2 DEF IssueAgreesWithLog
<1> QED BY <1>3, QueueInvariant, PTL

-----
(* The life of a process. *)
StepNames ==
    {"credentials", "negotiate", "pool", "server", "daemon", "hmac", "read", "mutation", "explorer",
     "manifest", "keys", "separation", "recovery", "run"}
Listeners == Seq([kind : EventKinds, pc : {"capture", "flush", "done"}])

\* The server is the last step of a start, and who has one or a pool closes it.
OpensInOrder(s, who) ==
    \A i \in 1..Len(s) :
        /\ s[i] = "server" => i = Len(s) /\ who \in {"api", "worker", "agent"}
        /\ s[i] = "pool" => who \notin {"agent", "oneshot"}

ProcessTypes ==
    /\ service \in Services /\ steps \in Seq(StepNames) /\ listeners \in Listeners
    /\ open \subseteq {"telemetry", "pool", "server"} /\ exitStatus \in {-1, 0, 1}
    /\ mainPc \in {"configure", "start", "serving", "closing", "telemetry", "ended"}

\* What is open at each point of the main promise, and what will close it.
ResourcesKnown ==
    /\ mainPc \in {"configure", "start"} => steps # <<>> /\ OpensInOrder(steps, service)
    /\ mainPc = "configure" => open = {}
    /\ mainPc = "start" =>
          "server" \notin open /\ ("pool" \in open => service \notin {"agent", "oneshot"})
    /\ mainPc = "serving" =>
          /\ service # "oneshot" /\ ("pool" \in open => service # "agent")
          /\ "server" \in open => service \in {"api", "worker", "agent"}
    /\ mainPc = "closing" =>
          \A resource \in open \ {"telemetry"} : \E i \in 1..Len(steps) : steps[i] = resource
    /\ mainPc = "telemetry" => open = {"telemetry"}
    /\ mainPc = "ended" => open = {}

\* Whatever fails while the telemetry is bound is reported.
FailuresReported ==
    /\ mainPc \notin {"configure", "ended"} => Bound /\ failures \subseteq reported
    /\ mainPc = "configure" => failures = {}
    /\ mainPc = "ended" => failures \ {"configure"} \subseteq reported
    /\ firstFailure = "none" => failures = {}

\* An event in the hands of a listener was seen, and a fatal one is flushed
\* after its capture.
ListenersKnown ==
    /\ Running /\ "fatal" \in eventsSeen => listeners # <<>>
    /\ \A i \in 1..Len(listeners) :
          /\ listeners[i].kind \in eventsSeen
          /\ listeners[i] = [kind |-> "fatal", pc |-> "flush"] => "fatal" \in reported \/ "capture" \in hangs

LifecycleInv == ProcessTypes /\ ResourcesKnown /\ FailuresReported /\ ListenersKnown /\ ExitIsHonest

\* The starts of the worker and of the agent, written out.
LEMMA ConcatenationWrittenOut ==
    ASSUME NEW S, NEW s \in Seq(S), NEW t \in Seq(S), NEW i \in 1..Len(s \o t)
    PROVE  \/ i \in 1..Len(s) /\ (s \o t)[i] = s[i]
           \/ i - Len(s) \in 1..Len(t) /\ (s \o t)[i] = t[i - Len(s)]
<1>1. Len(s) \in Nat /\ Len(t) \in Nat /\ i \in 1..Len(s) + Len(t)  BY ConcatProperties, LenProperties
<1>2. (s \o t)[i] = IF i <= Len(s) THEN s[i] ELSE t[i - Len(s)]  BY <1>1, ConcatProperties
<1> QED  BY <1>1, <1>2

LEMMA StartsInOrder ==
    ASSUME service \in Services, steps = StartSteps[service]
    PROVE  steps \in Seq(StepNames) /\ steps # <<>> /\ OpensInOrder(steps, service)
<1> DEFINE K == <<"keys", "separation">>
           M == <<"manifest">>
           R == <<"recovery", "server">>
           C == <<"hmac", "read", "mutation", "explorer">>
           P == <<"pool", "server">>
<1>1. K \in Seq(StepNames) /\ M \in Seq(StepNames) /\ R \in Seq(StepNames) /\ C \in Seq(StepNames) /\ P \in Seq(StepNames)
  BY DEF StepNames
<1>2. CASE service = "api"  BY <1>2 DEF StartSteps, ApiStart, StepNames, OpensInOrder
<1>3. CASE service \in {"notifier", "processor"}
  <2>1. steps = <<"credentials", "pool", "daemon">>  BY <1>3 DEF StartSteps, NotifierStart, ProcessorStart
  <2> QED  BY <1>3, <2>1 DEF StepNames, OpensInOrder
<1>6. CASE service = "oneshot"
  <2>1. steps = <<"run">>  BY <1>6 DEF StartSteps, OneShotStart
  <2>2. steps \in Seq(StepNames) /\ Len(steps) = 1 /\ steps[1] = "run" /\ steps # <<>>
    BY <2>1, EmptySeq DEF StepNames
  <2> QED  BY <2>2 DEF OpensInOrder
<1>4. CASE service = "worker"
  <2>1. steps = C \o P  BY <1>4 DEF StartSteps, WorkerStart, WorkerCredentials
  <2>2. C \o P \in Seq(StepNames) /\ Len(C \o P) = 6  BY <1>1, ConcatProperties
  <2>3. ASSUME NEW i \in 1..Len(C \o P), (C \o P)[i] = "server" PROVE i = 6
    BY <1>1, <2>2, <2>3, ConcatenationWrittenOut
  <2>4. C \o P # <<>>  BY <2>2, EmptySeq
  <2> HIDE DEF C, P
  <2> QED  BY <1>4, <2>1, <2>2, <2>3, <2>4 DEF OpensInOrder
<1>5. CASE service = "agent"
  <2> DEFINE MK == M \o K
  <2>1. steps = MK \o R  BY <1>5 DEF StartSteps, AgentStart, AgentKeys
  <2>2. MK \in Seq(StepNames) /\ Len(MK) = 3  BY <1>1, ConcatProperties
  <2>3. MK \o R \in Seq(StepNames) /\ Len(MK \o R) = 5  BY <1>1, <2>2, ConcatProperties
  <2>4. ASSUME NEW i \in 1..Len(MK) PROVE MK[i] \notin {"server", "pool"}  BY <1>1, <2>4, ConcatenationWrittenOut
  <2> HIDE DEF MK
  <2>5. ASSUME NEW i \in 1..Len(MK \o R) PROVE (MK \o R)[i] # "pool" /\ ((MK \o R)[i] = "server" => i = 5)
    <3>1. CASE i \in 1..3 /\ (MK \o R)[i] = MK[i]  BY <3>1, <2>2, <2>4
    <3>2. CASE i - 3 \in 1..2 /\ (MK \o R)[i] = R[i - 3]  BY <3>2, <2>3
    <3> QED  BY <3>1, <3>2, <1>1, <2>2, <2>3, ConcatenationWrittenOut
  <2> QED  BY <1>5, <2>1, <2>3, <2>5, EmptySeq, SMTT(20) DEF OpensInOrder
<1> QED  BY <1>2, <1>3, <1>4, <1>5, <1>6 DEF Services

\* What is left of a start opens in order too.
LEMMA TailInOrder ==
    ASSUME NEW who, NEW s \in Seq(StepNames), s # <<>>, OpensInOrder(s, who), Tail(s) # <<>>
    PROVE  OpensInOrder(Tail(s), who) /\ Head(s) # "server"
<1> DEFINE rest == Tail(s)
<1>1. rest \in Seq(StepNames) /\ Len(rest) = Len(s) - 1 /\ Len(s) \in Nat  BY HeadTailProperties, LenProperties
<1>2. \A i \in 1..Len(rest) : rest[i] = s[i + 1]  BY HeadTailProperties
<1>3. Head(s) = s[1]  OBVIOUS
<1>4. Len(rest) > 0  BY <1>1, EmptySeq
<1> HIDE DEF rest
<1>5. OpensInOrder(rest, who)  BY <1>1, <1>2 DEF OpensInOrder
<1>6. s[1] # "server"  BY <1>1, <1>4 DEF OpensInOrder
<1> QED  BY <1>3, <1>5, <1>6 DEF rest

LEMMA LifecycleInitInv == LifecycleInit => LifecycleInv
<1> SUFFICES ASSUME LifecycleInit PROVE LifecycleInv  OBVIOUS
<1> USE DEF LifecycleInit
<1>1. steps \in Seq(StepNames) /\ steps # <<>> /\ OpensInOrder(steps, service)  BY StartsInOrder
<1>2. ProcessTypes  BY <1>1 DEF ProcessTypes, Listeners
<1>3. ResourcesKnown  BY <1>1 DEF ResourcesKnown
<1>4. FailuresReported /\ ListenersKnown /\ ExitIsHonest  BY DEF FailuresReported, ListenersKnown, ExitIsHonest
<1> QED  BY <1>2, <1>3, <1>4 DEF LifecycleInv

\* The steps of the main promise.
LEMMA MainPromiseInv ==
    ASSUME LifecycleInv, InstallTelemetry \/ ConfigureFails \/ Close \/ StopTelemetry \/ EndOfProcess
    PROVE  LifecycleInv'
<1> USE DEF Running, Bound, Fails
<1>1. CASE InstallTelemetry
  <2>1. ProcessTypes' /\ ResourcesKnown'  BY <1>1 DEF InstallTelemetry, LifecycleInv, ProcessTypes, ResourcesKnown
  <2>2. FailuresReported' /\ ListenersKnown' /\ ExitIsHonest'
    BY <1>1 DEF InstallTelemetry, LifecycleInv, ProcessTypes, FailuresReported, ListenersKnown, ExitIsHonest
  <2> QED  BY <2>1, <2>2 DEF LifecycleInv
<1>2. CASE ConfigureFails
  <2>1. ProcessTypes' /\ ResourcesKnown'  BY <1>2 DEF ConfigureFails, LifecycleInv, ProcessTypes, ResourcesKnown
  <2>2. FailuresReported' /\ ListenersKnown' /\ ExitIsHonest'
    BY <1>2 DEF ConfigureFails, LifecycleInv, ProcessTypes, FailuresReported, ListenersKnown, ExitIsHonest
  <2> QED  BY <2>1, <2>2 DEF LifecycleInv
<1>3. CASE Close
  <2>1. steps' \in Seq(StepNames)
        /\ \A resource \in open \ {"telemetry"} : \E i \in 1..Len(steps') : steps'[i] = resource
    <3>1. steps' = CloseSteps[service] /\ open \subseteq {"telemetry", "pool", "server"} /\ service \in Services
          /\ service # "oneshot" /\ ("pool" \in open => service # "agent")
          /\ ("server" \in open => service \in {"api", "worker", "agent"})
      BY <1>3 DEF Close, LifecycleInv, ProcessTypes, ResourcesKnown
    <3>2. CASE service \in {"api", "worker"}
      <4>1. steps' = <<"server", "pool">>  BY <3>1, <3>2 DEF CloseSteps, ApiClose, WorkerClose
      <4>2. Len(steps') = 2 /\ steps'[1] = "server" /\ steps'[2] = "pool" /\ steps' \in Seq(StepNames)
        BY <4>1 DEF StepNames
      <4>3. open \ {"telemetry"} \subseteq {steps'[1], steps'[2]} /\ {1, 2} \subseteq 1..Len(steps')  BY <3>1, <4>2
      <4> QED  BY <4>2, <4>3
    <3>3. CASE service \in {"notifier", "processor"}
      <4>1. steps' = <<"daemon", "pool">>  BY <3>1, <3>3 DEF CloseSteps, NotifierClose, DaemonClose
      <4>2. Len(steps') = 2 /\ steps'[2] = "pool" /\ steps' \in Seq(StepNames)  BY <4>1 DEF StepNames
      <4>3. open \ {"telemetry"} \subseteq {steps'[2]} /\ 2 \in 1..Len(steps')  BY <3>1, <3>3, <4>2
      <4> QED  BY <4>2, <4>3
    <3>4. CASE service = "agent"
      <4>1. steps' = <<"server">>  BY <3>1, <3>4 DEF CloseSteps, AgentClose
      <4>2. Len(steps') = 1 /\ steps'[1] = "server" /\ steps' \in Seq(StepNames)  BY <4>1 DEF StepNames
      <4>3. open \ {"telemetry"} \subseteq {steps'[1]} /\ 1 \in 1..Len(steps')  BY <3>1, <3>4, <4>2
      <4> QED  BY <4>2, <4>3
    <3> QED  BY <3>1, <3>2, <3>3, <3>4 DEF Services
  <2>2. ProcessTypes' /\ ResourcesKnown'  BY <1>3, <2>1 DEF Close, LifecycleInv, ProcessTypes, ResourcesKnown
  <2>3. FailuresReported' /\ ListenersKnown' /\ ExitIsHonest'
    BY <1>3 DEF Close, LifecycleInv, ProcessTypes, FailuresReported, ListenersKnown, ExitIsHonest
  <2> QED  BY <2>2, <2>3 DEF LifecycleInv
<1>4. CASE StopTelemetry
  <2>1. open \subseteq {"telemetry"}  BY <1>4, EmptySeq DEF StopTelemetry, LifecycleInv, ProcessTypes, ResourcesKnown
  <2>2. ProcessTypes' /\ ResourcesKnown'  BY <1>4, <2>1 DEF StopTelemetry, LifecycleInv, ProcessTypes, ResourcesKnown
  <2>3. FailuresReported' /\ ListenersKnown' /\ ExitIsHonest'
    BY <1>4 DEF StopTelemetry, LifecycleInv, ProcessTypes, FailuresReported, ListenersKnown, ExitIsHonest
  <2> QED  BY <2>2, <2>3 DEF LifecycleInv
<1>5. CASE EndOfProcess
  <2>1. ProcessTypes' /\ ResourcesKnown'  BY <1>5 DEF EndOfProcess, LifecycleInv, ProcessTypes, ResourcesKnown
  <2>2. FailuresReported' /\ ListenersKnown'
    BY <1>5 DEF EndOfProcess, LifecycleInv, ProcessTypes, FailuresReported, ListenersKnown
  <2>3. ExitIsHonest'
    BY <1>5 DEF EndOfProcess, LifecycleInv, ResourcesKnown, FailuresReported, ListenersKnown, ExitIsHonest
  <2> QED  BY <2>1, <2>2, <2>3 DEF LifecycleInv
<1> QED  BY <1>1, <1>2, <1>3, <1>4, <1>5

\* A step of the start.
LEMMA StartInv == LifecycleInv /\ (StartStep \/ StartFails) => LifecycleInv'
<1> SUFFICES ASSUME LifecycleInv, StartStep \/ StartFails PROVE LifecycleInv'  OBVIOUS
<1> USE DEF Running, Bound, Fails, Report
<1>1. /\ mainPc = "start" /\ steps \in Seq(StepNames) /\ steps # <<>> /\ OpensInOrder(steps, service)
      /\ service \in Services
  BY DEF StartStep, StartFails, LifecycleInv, ProcessTypes, ResourcesKnown
<1>2. Tail(steps) \in Seq(StepNames) /\ Head(steps) \in StepNames /\ Head(steps) = steps[1] /\ Len(steps) >= 1
  BY <1>1, HeadTailProperties, EmptySeq
<1>3. /\ Tail(steps) # <<>> => OpensInOrder(Tail(steps), service) /\ Head(steps) # "server"
      /\ Head(steps) = "server" => service \in {"api", "worker", "agent"}
      /\ Head(steps) = "pool" => service \notin {"agent", "oneshot"}
  BY <1>1, <1>2, TailInOrder DEF OpensInOrder
<1>4. CASE StartStep
  <2>1. ProcessTypes'  BY <1>2, <1>4 DEF StartStep, LifecycleInv, ProcessTypes
  <2>2. ResourcesKnown'
    BY <1>1, <1>3, <1>4 DEF StartStep, LifecycleInv, ProcessTypes, ResourcesKnown, FailuresReported
  <2>3. FailuresReported' /\ ListenersKnown' /\ ExitIsHonest'
    BY <1>4 DEF StartStep, LifecycleInv, ProcessTypes, FailuresReported, ListenersKnown, ExitIsHonest
  <2> QED  BY <2>1, <2>2, <2>3 DEF LifecycleInv
<1>5. CASE StartFails
  <2>1. /\ steps' \in Seq(StepNames)
        /\ "pool" \in open' => Len(steps') = 1 /\ steps'[1] = "pool"
    <3>1. "pool" \in StepNames /\ <<>> \in Seq(StepNames) /\ <<"pool">> \in Seq(StepNames)  BY DEF StepNames
    <3>2. Len(<<"pool">>) = 1 /\ <<"pool">>[1] = "pool"  OBVIOUS
    <3> QED  BY <1>5, <3>1, <3>2 DEF StartFails
  <2>2. "server" \notin open' /\ open' \subseteq {"telemetry", "pool", "server"}
    BY <1>1, <1>5 DEF StartFails, LifecycleInv, ProcessTypes, ResourcesKnown
  <2>3. ProcessTypes' /\ ResourcesKnown'
    BY <1>5, <2>1, <2>2 DEF StartFails, LifecycleInv, ProcessTypes, ResourcesKnown
  <2>4. Head(steps) # "none"  BY <1>2 DEF StepNames
  <2>5. FailuresReported' /\ ListenersKnown' /\ ExitIsHonest'
    BY <1>1, <1>5, <2>4 DEF StartFails, LifecycleInv, ProcessTypes, FailuresReported, ListenersKnown, ExitIsHonest
  <2> QED  BY <2>3, <2>5 DEF LifecycleInv
<1> QED  BY <1>4, <1>5

\* A resource is closed, with or without a failure.
LEMMA CloseStepInv == ASSUME LifecycleInv, NEW failed \in BOOLEAN, CloseStep(failed) PROVE LifecycleInv'
<1> USE DEF Running, Bound, Fails, Report
<1>1. mainPc = "closing" /\ steps \in Seq(StepNames) /\ steps # <<>>  BY DEF CloseStep, LifecycleInv, ProcessTypes
<1>2. /\ Tail(steps) \in Seq(StepNames) /\ Head(steps) \in StepNames /\ Head(steps) = steps[1]
      /\ Len(Tail(steps)) = Len(steps) - 1 /\ Len(steps) \in Nat
      /\ \A i \in 1..Len(Tail(steps)) : Tail(steps)[i] = steps[i + 1]
  BY <1>1, HeadTailProperties, LenProperties
<1>3. ProcessTypes'  BY <1>2 DEF CloseStep, LifecycleInv, ProcessTypes
<1>4. \A resource \in open' \ {"telemetry"} : \E i \in 1..Len(steps') : steps'[i] = resource
  <2> SUFFICES ASSUME NEW resource \in open' \ {"telemetry"} PROVE \E i \in 1..Len(steps') : steps'[i] = resource
    OBVIOUS
  <2>1. resource \in open /\ resource # steps[1]  BY <1>2 DEF CloseStep
  <2>2. PICK i \in 1..Len(steps) : steps[i] = resource  BY <1>1, <2>1 DEF LifecycleInv, ResourcesKnown
  <2>3. i - 1 \in 1..Len(Tail(steps)) /\ Tail(steps)[i - 1] = resource  BY <1>2, <2>1, <2>2
  <2> QED  BY <2>3 DEF CloseStep
<1>5. ResourcesKnown'  BY <1>1, <1>4 DEF CloseStep, ResourcesKnown
<1>6. Head(steps) # "none" /\ Head(steps) # "telemetry"  BY <1>2 DEF StepNames
<1>7. Bound'  BY <1>1, <1>6 DEF CloseStep, LifecycleInv, FailuresReported
<1>8. FailuresReported'  BY <1>1, <1>6, <1>7 DEF CloseStep, LifecycleInv, FailuresReported
<1>9. ListenersKnown' /\ ExitIsHonest'  BY DEF CloseStep, LifecycleInv, ProcessTypes, ListenersKnown, ExitIsHonest
<1> QED  BY <1>3, <1>5, <1>8, <1>9 DEF LifecycleInv

\* An event, with or without a listener for it.
LEMMA EventInv ==
    ASSUME LifecycleInv, NEW kind \in EventKinds, Event(kind) \/ UnhandledEvent(kind)
    PROVE  LifecycleInv'
<1> USE DEF Running, Bound
<1>1. ResourcesKnown' /\ FailuresReported'
  BY DEF Event, UnhandledEvent, LifecycleInv, ResourcesKnown, FailuresReported
<1>2. CASE UnhandledEvent(kind)
  <2>1. ProcessTypes'  BY <1>2 DEF UnhandledEvent, LifecycleInv, ProcessTypes
  <2>2. ListenersKnown' /\ ExitIsHonest'  BY <1>2 DEF UnhandledEvent, LifecycleInv, ListenersKnown, ExitIsHonest
  <2> QED  BY <1>1, <2>1, <2>2 DEF LifecycleInv
<1>3. CASE Event(kind)
  <2> DEFINE listener == [kind |-> kind, pc |-> IF kind = "fatal" THEN "capture" ELSE "flush"]
  <2>1. listener \in [kind : EventKinds, pc : {"capture", "flush", "done"}] /\ listeners \in Listeners
    BY DEF LifecycleInv, ProcessTypes, EventKinds
  <2>2. listener.kind = kind /\ listener # [kind |-> "fatal", pc |-> "flush"]  BY DEF EventKinds
  <2>3. listeners' = Append(listeners, listener) /\ eventsSeen' = eventsSeen \cup {kind}  BY <1>3 DEF Event
  <2> HIDE DEF listener
  <2>4. /\ listeners' \in Listeners /\ Len(listeners') = Len(listeners) + 1 /\ Len(listeners) \in Nat
        /\ \A i \in 1..Len(listeners) : listeners'[i] = listeners[i]
        /\ listeners'[Len(listeners) + 1] = listener
    BY <2>1, <2>3, AppendProperties DEF Listeners
  <2>5. listeners' # <<>>  BY <2>4
  <2>6. ProcessTypes'  BY <1>3, <2>4 DEF Event, LifecycleInv, ProcessTypes
  <2>7. \A i \in 1..Len(listeners') : i \in 1..Len(listeners) \/ i = Len(listeners) + 1  BY <2>4
  <2>8. UNCHANGED <<reported, hangs>>  BY <1>3 DEF Event
  <2>9. ListenersKnown'  BY <2>2, <2>3, <2>4, <2>5, <2>7, <2>8 DEF LifecycleInv, ListenersKnown
  <2>10. ExitIsHonest'  BY <1>3 DEF Event, LifecycleInv, ExitIsHonest
  <2> QED  BY <1>1, <2>6, <2>9, <2>10 DEF LifecycleInv
<1> QED  BY <1>2, <1>3

\* What a listener does with its event.
LEMMA ListenerInv ==
    ASSUME LifecycleInv, NEW i \in DOMAIN listeners, ListenerStep(i)
    PROVE  LifecycleInv'
<1> USE DEF Running, Bound
<1>1. listeners \in Listeners /\ i \in 1..Len(listeners) /\ Len(listeners) \in Nat
  BY LenProperties DEF LifecycleInv, ProcessTypes, Listeners
<1>2. listeners[i] \in [kind : EventKinds, pc : {"capture", "flush", "done"}]  BY <1>1, ElementOfSeq DEF Listeners
<1>3. PICK next \in {"flush", "done"} : listeners' = [listeners EXCEPT ![i].pc = next]
                                       /\ (next = "flush" <=> BoundedCapture(i))
  BY <1>2 DEF ListenerStep, BoundedCapture, BoundedFlush
<1> DEFINE changed == [listeners[i] EXCEPT !.pc = next]
<1>4. changed \in [kind : EventKinds, pc : {"capture", "flush", "done"}]
      /\ changed.kind = listeners[i].kind /\ changed.pc = next
  BY <1>2
<1>5. listeners' = [listeners EXCEPT ![i] = changed]  BY <1>3
<1> HIDE DEF changed
<1>6. /\ listeners' \in Listeners /\ Len(listeners') = Len(listeners)
      /\ \A j \in 1..Len(listeners) : listeners'[j] = IF j = i THEN changed ELSE listeners[j]
  BY <1>1, <1>4, <1>5, ExceptSeq DEF Listeners
<1>7. listeners' # <<>>  BY <1>1, <1>6, EmptySeq DEF Listeners
<1>8. ResourcesKnown' /\ FailuresReported'
  BY DEF ListenerStep, BoundedCapture, BoundedFlush, LifecycleInv, ResourcesKnown, FailuresReported
<1>9. CASE BoundedCapture(i)
  <2>1. ProcessTypes'  BY <1>6, <1>9 DEF BoundedCapture, LifecycleInv, ProcessTypes
  <2>2. ListenersKnown'  BY <1>4, <1>6, <1>7, <1>9 DEF BoundedCapture, LifecycleInv, ListenersKnown
  <2>3. ExitIsHonest'  BY <1>9 DEF BoundedCapture, LifecycleInv, ExitIsHonest
  <2> QED  BY <1>8, <2>1, <2>2, <2>3 DEF LifecycleInv
<1>10. CASE BoundedFlush(i)
  <2>1. ProcessTypes'  BY <1>6, <1>10 DEF BoundedFlush, LifecycleInv, ProcessTypes
  <2>2. next = "done"  BY <1>3, <1>10 DEF BoundedFlush, BoundedCapture
  <2>3. ListenersKnown'  BY <1>4, <1>6, <1>7, <1>10, <2>2 DEF BoundedFlush, LifecycleInv, ListenersKnown
  <2>4. listeners[i].kind = "fatal" => listeners[i] = [kind |-> "fatal", pc |-> "flush"]
    BY <1>2, <1>10 DEF BoundedFlush
  <2>5. listeners[i].kind \in {"fatal", "signal"}  BY <1>2 DEF EventKinds
  <2>6. ExitIsHonest'  BY <1>1, <1>10, <2>4, <2>5 DEF BoundedFlush, LifecycleInv, ListenersKnown, ExitIsHonest
  <2> QED  BY <1>8, <2>1, <2>3, <2>6 DEF LifecycleInv
<1> QED  BY <1>9, <1>10 DEF ListenerStep

LEMMA LifecycleNextInv == LifecycleInv /\ [LifecycleNext]_processVars => LifecycleInv'
<1> SUFFICES ASSUME LifecycleInv, [LifecycleNext]_processVars PROVE LifecycleInv'  OBVIOUS
<1>1. CASE UNCHANGED processVars
  BY <1>1 DEF processVars, LifecycleInv, ProcessTypes, ResourcesKnown, FailuresReported, ListenersKnown, ExitIsHonest,
    Running, Bound
<1>2. CASE LifecycleNext  BY <1>2, MainPromiseInv, StartInv, CloseStepInv, EventInv, ListenerInv DEF LifecycleNext
<1> QED  BY <1>1, <1>2

LEMMA LifecycleSound == LifecycleSpec => []LifecycleIsSound
<1>1. LifecycleInv => LifecycleIsSound
  BY DEF LifecycleInv, ResourcesKnown, FailuresReported, LifecycleIsSound, ClosedCompletely
<1> QED  BY <1>1, LifecycleInitInv, LifecycleNextInv, PTL DEF LifecycleSpec

-----
(* The runtime actions and the health run. *)
Commands ==
    [leader : {"none", "running", "killed", "ok", "error"}, helper : {"none", "group", "silent", "outside"},
     output : 0..OutputLimit, timedOut : BOOLEAN, limited : BOOLEAN]
ActionCalls ==
    {[key |-> "none", pc |-> "idle"]} \cup [key : ActionKeys, pc : {"waiting", "completed", "failed"}]
ProbeResults == {<<"failed">>} \cup (Nat \X Nat)

ActionTypes ==
    /\ replay \in [ActionKeys -> {"none", "pending", "completed", "failed"}]
    /\ caller \in [ActionCallers -> ActionCalls]
    /\ child \in [ActionKeys -> Commands]
    /\ spawned \in [ActionKeys -> 0..1]

\* A command is started by the call that finds no operation of its key, and all
\* that is answered is the outcome of that operation.
OperationsAreShared ==
    /\ \A k \in ActionKeys : replay[k] = "none" => spawned[k] = 0 /\ child[k] = NoChild
    /\ \A c \in ActionCallers : caller[c].pc \in {"completed", "failed"} => replay[caller[c].key] = caller[c].pc

\* Who is killed is gone with his group; who completed ended by himself.
CommandsEnd ==
    \A k \in ActionKeys :
        /\ child[k].timedOut \/ child[k].limited => child[k].leader # "running" /\ child[k].helper \notin {"group", "silent"}
        /\ replay[k] = "completed" /\ k \notin Immediate =>
              child[k].leader = "ok" /\ ~child[k].timedOut /\ ~child[k].limited

\* The check that is asked is the one after the last result.
HealthTypes ==
    /\ health = [at |-> health.at, phase |-> health.phase, pending |-> health.pending, results |-> health.results]
    /\ health.at \in Nat \ {0} /\ health.phase \in {1, 2} /\ health.results \in Seq(ProbeResults)
    /\ Len(health.results) = health.at - 1
    /\ health.at <= Len(HealthChecks) => health.phase <= HealthChecks[health.at]

ActionsInv == ActionTypes /\ OperationsAreShared /\ CommandsEnd
RuntimeInv == ActionsInv /\ HealthTypes /\ HealthIsOwn

LEMMA RuntimeInitInv == RuntimeInit => RuntimeInv
<1> SUFFICES ASSUME RuntimeInit PROVE RuntimeInv  OBVIOUS
<1> USE DEF RuntimeInit
<1>1. NoChild \in Commands /\ ~NoChild.timedOut /\ ~NoChild.limited  BY RuntimeActionsAssumption DEF NoChild, Commands
<1>2. ActionTypes  BY <1>1 DEF ActionTypes, ActionCalls
<1>3. OperationsAreShared /\ CommandsEnd  BY <1>1 DEF OperationsAreShared, CommandsEnd
<1>4. HealthTypes
  <2>1. 1 <= Len(HealthChecks) => HealthChecks[1] \in {1, 2}  BY RuntimeActionsAssumption, ElementOfSeq
  <2>2. <<>> \in Seq(ProbeResults) /\ Len(<<>>) = 0  BY EmptySeq
  <2> QED  BY <2>1, <2>2 DEF HealthTypes
<1>5. HealthIsOwn  BY EmptySeq DEF HealthIsOwn
<1> QED  BY <1>2, <1>3, <1>4, <1>5 DEF RuntimeInv, ActionsInv

\* A call finds the shared operation, or starts it.
LEMMA RunActionInv ==
    ASSUME ActionsInv, NEW c \in ActionCallers, NEW k \in ActionKeys, RunAction(c, k)
    PROVE  ActionsInv'
<1> USE DEF ActionsInv
<1> DEFINE waiting == [key |-> k, pc |-> "waiting"]
<1>1. waiting \in ActionCalls /\ waiting.pc = "waiting"  BY DEF ActionCalls
<1>2. caller' = [caller EXCEPT ![c] = waiting] /\ caller[c].pc = "idle"  BY DEF RunAction
<1> HIDE DEF waiting
<1>3. caller' \in [ActionCallers -> ActionCalls]  BY <1>1, <1>2 DEF ActionTypes
<1>4. CASE UNCHANGED <<replay, child, spawned>>
  BY <1>1, <1>2, <1>3, <1>4 DEF ActionTypes, OperationsAreShared, CommandsEnd
<1>5. CASE /\ replay[k] = "none" /\ k \in Immediate /\ replay' = [replay EXCEPT ![k] = "completed"]
           /\ UNCHANGED <<child, spawned>>
  BY <1>1, <1>2, <1>3, <1>5 DEF ActionTypes, OperationsAreShared, CommandsEnd
<1>6. CASE replay[k] = "none" /\ spawned' = [spawned EXCEPT ![k] = @ + 1]
           /\ replay' = [replay EXCEPT ![k] = "failed"] /\ UNCHANGED child
  <2>1. spawned' \in [ActionKeys -> 0..1]  BY <1>6 DEF ActionTypes, OperationsAreShared
  <2> QED  BY <1>1, <1>2, <1>3, <1>6, <2>1 DEF ActionTypes, OperationsAreShared, CommandsEnd
<1>7. CASE replay[k] = "none" /\ spawned' = [spawned EXCEPT ![k] = @ + 1]
           /\ replay' = [replay EXCEPT ![k] = "pending"] /\ child' = [child EXCEPT ![k].leader = "running"]
           /\ child[k] = NoChild
  <2>1. spawned' \in [ActionKeys -> 0..1]  BY <1>7 DEF ActionTypes, OperationsAreShared
  <2> DEFINE started == [child[k] EXCEPT !.leader = "running"]
  <2>2. started \in Commands /\ ~started.timedOut /\ ~started.limited
    <3>1. NoChild \in Commands /\ ~NoChild.timedOut /\ ~NoChild.limited
      BY RuntimeActionsAssumption DEF NoChild, Commands
    <3>2. child[k] \in Commands /\ ~child[k].timedOut /\ ~child[k].limited  BY <1>7, <3>1
    <3> QED  BY <3>2 DEF Commands
  <2>3. child' = [child EXCEPT ![k] = started]  BY <1>7
  <2> HIDE DEF started
  <2>4. ActionTypes'  BY <1>3, <1>7, <2>1, <2>2, <2>3 DEF ActionTypes
  <2>5. OperationsAreShared'  BY <1>1, <1>2, <1>3, <1>7, <2>3 DEF ActionTypes, OperationsAreShared
  <2>6. CommandsEnd'  BY <1>7, <2>2, <2>3 DEF ActionTypes, CommandsEnd
  <2> QED  BY <2>4, <2>5, <2>6
<1>8. replay[k] = "none" => child[k] = NoChild  BY DEF OperationsAreShared
<1> QED  BY <1>4, <1>5, <1>6, <1>7, <1>8 DEF RunAction

\* A command that was started changes.
LEMMA CommandChanges ==
    ASSUME ActionsInv, NEW k \in ActionKeys, NEW new \in Commands, replay[k] # "none",
           child' = [child EXCEPT ![k] = new], UNCHANGED <<replay, caller, spawned>>,
           new.timedOut \/ new.limited => new.leader # "running" /\ new.helper \notin {"group", "silent"},
           replay[k] = "completed" /\ k \notin Immediate =>
              new.leader = child[k].leader /\ new.timedOut = child[k].timedOut /\ new.limited = child[k].limited
    PROVE  ActionsInv'
<1> USE DEF ActionsInv
<1>1. ActionTypes'  BY DEF ActionTypes
<1>2. OperationsAreShared'  BY DEF ActionTypes, OperationsAreShared
<1>3. CommandsEnd'  BY DEF ActionTypes, CommandsEnd
<1> QED  BY <1>1, <1>2, <1>3

LEMMA KilledIsGone ==
    ASSUME NEW process \in Commands
    PROVE  /\ Killed(process) \in Commands /\ Killed(process).leader # "running"
           /\ Killed(process).helper \notin {"group", "silent"}
           /\ Killed(process).timedOut = process.timedOut /\ Killed(process).limited = process.limited
  BY DEF Killed, Commands

\* The steps of a command that runs.
LEMMA CommandInv ==
    ASSUME ActionsInv, NEW k \in ActionKeys,
           Write(k) \/ ActionTimer(k) \/ Fork(k) \/ LeaderExits(k) \/ HelperExits(k)
    PROVE  ActionsInv'
<1> DEFINE c == child[k]
<1>1. /\ c \in Commands /\ child \in [ActionKeys -> Commands]
      /\ c.timedOut \/ c.limited => c.leader # "running" /\ c.helper \notin {"group", "silent"}
      /\ replay[k] = "completed" /\ k \notin Immediate => c.leader = "ok"
      /\ replay[k] = "none" => c = NoChild
  BY DEF ActionsInv, ActionTypes, OperationsAreShared, CommandsEnd
<1>2. UNCHANGED <<replay, caller, spawned>>  BY DEF Write, ActionTimer, Fork, LeaderExits, HelperExits
<1>3. CASE Write(k)
  <2>1. c.leader = "running" /\ c # NoChild  BY <1>3 DEF Write, NoChild
  <2>2. CASE c.output = OutputLimit
    <3> DEFINE limited == [c EXCEPT !.limited = TRUE]
    <3>1. limited \in Commands  BY <1>1 DEF Commands
    <3>2. child' = [child EXCEPT ![k] = Killed(limited)]  BY <1>3, <2>2 DEF Write
    <3> QED  BY <1>1, <1>2, <2>1, <3>1, <3>2, KilledIsGone, CommandChanges
  <2>3. CASE c.output # OutputLimit
    <3> DEFINE written == [c EXCEPT !.output = @ + 1]
    <3>1. written \in Commands /\ written.timedOut = c.timedOut /\ written.limited = c.limited
          /\ written.leader = c.leader /\ written.helper = c.helper
      BY <1>1, <2>3, RuntimeActionsAssumption DEF Commands
    <3>2. child' = [child EXCEPT ![k] = written]  BY <1>3, <2>3 DEF Write
    <3> HIDE DEF written
    <3> QED  BY <1>1, <1>2, <2>1, <3>1, <3>2, CommandChanges
  <2> QED  BY <2>2, <2>3
<1>4. CASE ActionTimer(k)
  <2> DEFINE late == [c EXCEPT !.timedOut = TRUE]
  <2>1. late \in Commands  BY <1>1 DEF Commands
  <2>2. child' = [child EXCEPT ![k] = Killed(late)]  BY <1>4 DEF ActionTimer
  <2> QED  BY <1>1, <1>2, <1>4, <2>1, <2>2, KilledIsGone, CommandChanges DEF ActionTimer
<1>5. CASE Fork(k)
  <2>1. PICK where \in {"group", "silent", "outside"} : child' = [child EXCEPT ![k].helper = where]  BY <1>5 DEF Fork
  <2> DEFINE forked == [c EXCEPT !.helper = where]
  <2>2. forked \in Commands /\ forked.timedOut = c.timedOut /\ forked.limited = c.limited
        /\ forked.leader = c.leader
    BY <1>1 DEF Commands
  <2>3. child' = [child EXCEPT ![k] = forked]  BY <2>1
  <2>4. c.leader = "running" /\ c # NoChild  BY <1>5 DEF Fork, NoChild
  <2> HIDE DEF forked
  <2> QED  BY <1>1, <1>2, <2>2, <2>3, <2>4, CommandChanges
<1>6. CASE LeaderExits(k)
  <2>1. PICK code \in {"ok", "error"} : child' = [child EXCEPT ![k].leader = code]  BY <1>6 DEF LeaderExits
  <2> DEFINE ended == [c EXCEPT !.leader = code]
  <2>2. ended \in Commands /\ ended.timedOut = c.timedOut /\ ended.limited = c.limited  BY <1>1 DEF Commands
  <2>3. child' = [child EXCEPT ![k] = ended]  BY <2>1
  <2>4. c.leader = "running" /\ c # NoChild  BY <1>6 DEF LeaderExits, NoChild
  <2> HIDE DEF ended
  <2> QED  BY <1>1, <1>2, <2>2, <2>3, <2>4, CommandChanges
<1>7. CASE HelperExits(k)
  <2> DEFINE alone == [c EXCEPT !.helper = "none"]
  <2>2. alone \in Commands /\ alone.timedOut = c.timedOut /\ alone.limited = c.limited
        /\ alone.leader = c.leader /\ alone.helper = "none"
    BY <1>1 DEF Commands
  <2>3. child' = [child EXCEPT ![k] = alone]  BY <1>7 DEF HelperExits
  <2>4. c # NoChild  BY <1>7 DEF HelperExits, NoChild
  <2> HIDE DEF alone
  <2> QED  BY <1>1, <1>2, <2>2, <2>3, <2>4, CommandChanges
<1> QED  BY <1>3, <1>4, <1>5, <1>6, <1>7

LEMMA AnswerInv ==
    ASSUME ActionsInv, NEW c \in ActionCallers, ActionAnswers(c)
    PROVE  ActionsInv'
<1> USE DEF ActionsInv
<1> DEFINE answered == [caller[c] EXCEPT !.pc = replay[caller[c].key]]
<1>1. caller[c] \in ActionCalls /\ caller[c].pc = "waiting" /\ replay[caller[c].key] \in {"completed", "failed"}
  BY DEF ActionAnswers, ActionTypes
<1>2. answered \in ActionCalls /\ answered.key = caller[c].key /\ answered.pc = replay[caller[c].key]
  BY <1>1 DEF ActionCalls
<1>3. caller' = [caller EXCEPT ![c] = answered] /\ UNCHANGED <<replay, child, spawned>>  BY DEF ActionAnswers
<1> HIDE DEF answered
<1> QED  BY <1>2, <1>3 DEF ActionTypes, OperationsAreShared, CommandsEnd

\* The outcome is decided when the command has ended.
LEMMA CloseActionInv ==
    ASSUME ActionsInv, NEW k \in ActionKeys, CloseAction(k)
    PROVE  ActionsInv'
<1> USE DEF ActionsInv
<1> DEFINE c == child[k]
<1>1. PICK outcome \in {"completed", "failed"} :
         /\ replay' = [replay EXCEPT ![k] = outcome]
         /\ outcome = "completed" => c.leader = "ok" /\ ~c.timedOut /\ ~c.limited
  BY DEF CloseAction
<1>2. replay[k] = "pending" /\ UNCHANGED <<caller, child, spawned>>  BY DEF CloseAction
<1>3. ActionTypes' /\ CommandsEnd'  BY <1>1, <1>2 DEF ActionTypes, CommandsEnd
<1>4. OperationsAreShared'  BY <1>1, <1>2 DEF ActionTypes, OperationsAreShared
<1> QED  BY <1>3, <1>4

\* The steps of the health run.
LEMMA NextCheck ==
    ASSUME HealthTypes, HealthIsOwn, NEW outcome \in ProbeResults, health.at <= Len(HealthChecks),
           outcome = <<"failed">> \/ outcome = <<health.at, HealthChecks[health.at]>>,
           health' = [at |-> health.at + 1, phase |-> 1, pending |-> health'.pending,
                      results |-> Append(health.results, outcome)]
    PROVE  HealthTypes' /\ HealthIsOwn'
<1> DEFINE results == health.results
           longer == Append(results, outcome)
<1>1. results \in Seq(ProbeResults) /\ Len(results) = health.at - 1 /\ health.at \in Nat \ {0}  BY DEF HealthTypes
<1>2. /\ longer \in Seq(ProbeResults) /\ Len(longer) = Len(results) + 1
      /\ \A i \in 1..Len(results) : longer[i] = results[i]
      /\ longer[Len(results) + 1] = outcome
  BY <1>1, AppendProperties
<1>3. health'.results = longer /\ health'.at = health.at + 1 /\ health'.phase = 1  OBVIOUS
<1> HIDE DEF longer
<1>4. health.at + 1 <= Len(HealthChecks) => HealthChecks[health.at + 1] \in {1, 2}
  <2>1. Len(HealthChecks) \in Nat /\ \A n \in 1..Len(HealthChecks) : HealthChecks[n] \in {1, 2}
    BY RuntimeActionsAssumption, ElementOfSeq, LenProperties
  <2> QED  BY <1>1, <2>1
<1>5. health' = [at |-> health'.at, phase |-> health'.phase, pending |-> health'.pending, results |-> health'.results]
  BY <1>3
<1>6. HealthTypes'  BY <1>1, <1>2, <1>3, <1>4, <1>5 DEF HealthTypes
<1>7. \A n \in 1..Len(longer) : longer[n] = <<"failed">> \/ longer[n] = <<n, HealthChecks[n]>>
  <2> SUFFICES ASSUME NEW n \in 1..Len(longer) PROVE longer[n] = <<"failed">> \/ longer[n] = <<n, HealthChecks[n]>>
    OBVIOUS
  <2>1. CASE n \in 1..Len(results)  BY <1>2, <2>1 DEF HealthIsOwn
  <2>2. CASE n = Len(results) + 1  BY <1>1, <1>2, <2>2
  <2> QED  BY <1>1, <1>2, <2>1, <2>2
<1>8. HealthIsOwn'  BY <1>3, <1>7 DEF HealthIsOwn
<1> QED  BY <1>6, <1>8

LEMMA HealthInv ==
    ASSUME HealthTypes, HealthIsOwn,
           AskProbe \/ ProbeTimer \/ \E probe \in health.pending, ok \in BOOLEAN : ProbeAnswers(probe, ok)
    PROVE  HealthTypes' /\ HealthIsOwn'
<1>1. health = [at |-> health.at, phase |-> health.phase, pending |-> health.pending, results |-> health.results]
  BY DEF HealthTypes
<1>2. ASSUME NEW pending, NEW phase \in {1, 2}, phase = health.phase \/ (health.at <= Len(HealthChecks) => phase <= HealthChecks[health.at]),
             health' = [at |-> health.at, phase |-> phase, pending |-> pending, results |-> health.results]
      PROVE  HealthTypes' /\ HealthIsOwn'
  <2>1. health'.at = health.at /\ health'.phase = phase /\ health'.pending = pending /\ health'.results = health.results
    BY <1>2
  <2> QED  BY <1>2, <2>1 DEF HealthTypes, HealthIsOwn
<1>3. CASE AskProbe
  <2>1. health' = [at |-> health.at, phase |-> health.phase,
                   pending |-> health.pending \cup {<<health.at, health.phase>>}, results |-> health.results]
    BY <1>1, <1>3 DEF AskProbe
  <2> QED  BY <1>2, <2>1 DEF HealthTypes
<1>4. CASE ProbeTimer
  <2>1. health.at <= Len(HealthChecks) /\ <<"failed">> \in ProbeResults  BY <1>4 DEF ProbeTimer, ProbeResults
  <2>2. health' = [at |-> health.at + 1, phase |-> 1, pending |-> health.pending,
                   results |-> Append(health.results, <<"failed">>)]
    BY <1>1, <1>4 DEF ProbeTimer, Decided
  <2>3. health'.pending = health.pending  BY <2>2
  <2> QED  BY <2>1, <2>2, <2>3, NextCheck
<1>5. ASSUME NEW probe \in health.pending, NEW ok \in BOOLEAN, ProbeAnswers(probe, ok)
      PROVE  HealthTypes' /\ HealthIsOwn'
  <2> DEFINE left == health.pending \ {probe}
             current == probe = <<health.at, health.phase>> /\ health.at <= Len(HealthChecks)
             result == IF ok THEN probe ELSE <<"failed">>
  <2>1. CASE ~current
    <3>1. health' = [at |-> health.at, phase |-> health.phase, pending |-> left, results |-> health.results]
      BY <1>1, <1>5, <2>1 DEF ProbeAnswers
    <3> QED  BY <1>2, <3>1 DEF HealthTypes
  <2>2. CASE current /\ ok /\ health.phase < HealthChecks[health.at]
    <3>1. health' = [at |-> health.at, phase |-> health.phase + 1, pending |-> left, results |-> health.results]
      BY <1>1, <1>5, <2>2 DEF ProbeAnswers
    <3>2. HealthChecks[health.at] \in {1, 2}  BY <2>2, RuntimeActionsAssumption, ElementOfSeq DEF HealthTypes
    <3>3. health.phase + 1 \in {1, 2} /\ health.phase + 1 <= HealthChecks[health.at]  BY <2>2, <3>2 DEF HealthTypes
    <3> QED  BY <1>2, <3>1, <3>3
  <2>3. CASE current /\ ~(ok /\ health.phase < HealthChecks[health.at])
    <3>1. health' = [at |-> health.at + 1, phase |-> 1, pending |-> left, results |-> Append(health.results, result)]
      BY <1>1, <1>5, <2>3 DEF ProbeAnswers
    <3>2. health'.pending = left  BY <3>1
    <3>3. HealthChecks[health.at] \in {1, 2} /\ health.at \in Nat /\ health.phase \in {1, 2}
      BY <2>3, RuntimeActionsAssumption, ElementOfSeq DEF HealthTypes
    <3>4. ok => health.phase = HealthChecks[health.at]  BY <2>3, <3>3 DEF HealthTypes
    <3>5. result \in ProbeResults /\ (result = <<"failed">> \/ result = <<health.at, HealthChecks[health.at]>>)
      BY <2>3, <3>3, <3>4 DEF ProbeResults
    <3> HIDE DEF result, left
    <3> QED  BY <2>3, <3>1, <3>2, <3>5, NextCheck
  <2> QED  BY <2>1, <2>2, <2>3
<1> QED  BY <1>3, <1>4, <1>5

LEMMA RuntimeNextInv == RuntimeInv /\ [RuntimeNext]_runtimeVars => RuntimeInv'
<1> SUFFICES ASSUME RuntimeInv, [RuntimeNext]_runtimeVars PROVE RuntimeInv'  OBVIOUS
<1>1. ASSUME UNCHANGED actionVars PROVE ActionsInv'
  BY <1>1 DEF RuntimeInv, ActionsInv, ActionTypes, OperationsAreShared, CommandsEnd, actionVars
<1>2. ASSUME UNCHANGED health PROVE HealthTypes' /\ HealthIsOwn'  BY <1>2 DEF RuntimeInv, HealthTypes, HealthIsOwn
<1>3. CASE UNCHANGED runtimeVars  BY <1>1, <1>2, <1>3 DEF RuntimeInv, runtimeVars
<1>4. CASE \E c \in ActionCallers : ActionAnswers(c) \/ \E k \in ActionKeys : RunAction(c, k)
  <2>1. ActionsInv'  BY <1>4, AnswerInv, RunActionInv DEF RuntimeInv
  <2>2. UNCHANGED health  BY <1>4 DEF ActionAnswers, RunAction
  <2> QED  BY <1>2, <2>1, <2>2 DEF RuntimeInv
<1>5. CASE \E k \in ActionKeys :
              Write(k) \/ ActionTimer(k) \/ CloseAction(k) \/ Fork(k) \/ LeaderExits(k) \/ HelperExits(k)
  <2>1. ActionsInv'  BY <1>5, CommandInv, CloseActionInv DEF RuntimeInv
  <2>2. UNCHANGED health  BY <1>5 DEF Write, ActionTimer, CloseAction, Fork, LeaderExits, HelperExits
  <2> QED  BY <1>2, <2>1, <2>2 DEF RuntimeInv
<1>6. CASE AskProbe \/ ProbeTimer \/ \E probe \in health.pending, ok \in BOOLEAN : ProbeAnswers(probe, ok)
  <2>1. HealthTypes' /\ HealthIsOwn'  BY <1>6, HealthInv DEF RuntimeInv
  <2>2. UNCHANGED actionVars  BY <1>6 DEF AskProbe, ProbeTimer, ProbeAnswers
  <2> QED  BY <1>1, <2>1, <2>2 DEF RuntimeInv
<1> QED  BY <1>3, <1>4, <1>5, <1>6 DEF RuntimeNext

LEMMA RuntimeSound == RuntimeSpec => []RuntimeIsSound
<1>1. RuntimeInv => RuntimeIsSound
  <2> SUFFICES ASSUME RuntimeInv PROVE RuntimeIsSound  OBVIOUS
  <2>1. \A c \in ActionCallers : caller[c].pc \in {"completed", "failed"} =>
           caller[c].key \in ActionKeys /\ replay[caller[c].key] = caller[c].pc
    BY DEF RuntimeInv, ActionsInv, ActionTypes, OperationsAreShared, ActionCalls
  <2>2. StartedOnce  BY <2>1 DEF RuntimeInv, ActionsInv, ActionTypes, StartedOnce
  <2>3. \A k \in ActionKeys : child[k].output <= OutputLimit
    BY RuntimeActionsAssumption DEF RuntimeInv, ActionsInv, ActionTypes, Commands
  <2>4. ReportIsTrue  BY <2>1, <2>3 DEF RuntimeInv, ActionsInv, CommandsEnd, ReportIsTrue
  <2> QED  BY <2>2, <2>4 DEF RuntimeInv, RuntimeIsSound
<1> QED  BY <1>1, RuntimeInitInv, RuntimeNextInv, PTL DEF RuntimeSpec

\* Processes start and end as they should and no action is started twice or left
\* behind, whatever fails, hangs or is fatal (the start and close of the
\* services' main.ts, nodeLifecycle.ts, runtimeActions.ts).
THEOREM ProcessesSound == LifecycleSpec /\ RuntimeSpec => []ProcessesAreSound
<1>1. LifecycleIsSound /\ RuntimeIsSound => ProcessesAreSound  BY DEF ProcessesAreSound
<1> QED  BY <1>1, LifecycleSound, RuntimeSound, PTL

\* The chain stays whole, for any set of appends.
USE LedgerAssumption

\* The states in which a call has the lock.
Past == {"reading", "inserting", "committing"}

\* The empty ledger is a chain.
LEMMA LedgerInitial == LedgerInit => LedgerInvariant
  BY DEF LedgerInit, LedgerInvariant, LedgerTypeOK, ChainIsWhole

\* A step that leaves the rows and their numbers alone leaves the chain alone.
LEMMA SameRows ==
    ASSUME entries' = entries, number' = number
    PROVE  /\ \A p : FollowsFrom(p, entries)' <=> FollowsFrom(p, entries)
           /\ \A a : Before(a)' = Before(a)
           /\ \A p, a : FollowsFrom(p, Before(a))' <=> FollowsFrom(p, Before(a))
  BY DEF FollowsFrom, IsLast, Before

\* Every step of every transaction keeps the invariant.
LEMMA LedgerInductive == LedgerInvariant /\ [LedgerNext]_ledgerVars => LedgerInvariant'
<1> SUFFICES ASSUME LedgerInvariant, [LedgerNext]_ledgerVars PROVE LedgerInvariant'  OBVIOUS
<1>0. CASE UNCHANGED ledgerVars
  <2>1. entries' = entries /\ number' = number  BY <1>0 DEF ledgerVars
  <2> QED BY <1>0, <2>1, SameRows DEF ledgerVars, LedgerInvariant, LedgerTypeOK, ChainIsWhole
<1>1. ASSUME NEW a \in Appends, BeginAppend(a) PROVE LedgerInvariant'
  <2>1. entries' = entries /\ number' = number  BY <1>1 DEF BeginAppend
  <2> QED BY <1>1, <2>1, SameRows DEF BeginAppend, Goes, LedgerInvariant, LedgerTypeOK, ChainIsWhole
<1>2. ASSUME NEW a \in Appends, LockChain(a) PROVE LedgerInvariant'
  <2>1. entries' = entries /\ number' = number  BY <1>2 DEF LockChain
  <2> QED BY <1>2, <2>1, SameRows DEF LockChain, Goes, LedgerInvariant, LedgerTypeOK, ChainIsWhole
<1>3. ASSUME NEW a \in Appends, ReadLast(a) PROVE LedgerInvariant'
  <2>1. entries' = entries /\ number' = number  BY <1>3 DEF ReadLast
  <2>2. PICK p \in Appends \cup {Root} : FollowsFrom(p, entries) /\ previous' = [previous EXCEPT ![a] = p]
    BY <1>3 DEF ReadLast
  <2>3. a \notin entries  BY <1>3 DEF ReadLast, Goes, LedgerInvariant
  <2> QED BY <1>3, <2>1, <2>2, <2>3, SameRows DEF ReadLast, Goes, LedgerInvariant, LedgerTypeOK, ChainIsWhole
<1>4. ASSUME NEW a \in Appends, InsertEntry(a) PROVE LedgerInvariant'
  <2>1. a \notin entries /\ chainLock = a  BY <1>4 DEF InsertEntry, Goes, LedgerInvariant
  <2>2. number' = [number EXCEPT ![a] = lastNumber + 1] /\ entries' = entries /\ previous' = previous
    BY <1>4 DEF InsertEntry
  <2>3. \A b \in entries : number'[b] = number[b]  BY <2>1, <2>2 DEF LedgerInvariant, LedgerTypeOK
  <2>4. \A b \in entries : Before(b)' = Before(b)  BY <2>2, <2>3 DEF Before
  <2>5. \A p : FollowsFrom(p, entries)' <=> FollowsFrom(p, entries)  BY <2>2, <2>3 DEF FollowsFrom, IsLast
  <2>6. \A p : \A b \in entries : FollowsFrom(p, Before(b))' <=> FollowsFrom(p, Before(b))
    BY <2>2, <2>3, <2>4 DEF FollowsFrom, IsLast, Before
  <2>7. ChainIsWhole'  BY <1>4, <2>2, <2>3, <2>6 DEF InsertEntry, Goes, ChainIsWhole, LedgerInvariant, LedgerTypeOK
  <2>8. LedgerTypeOK'  BY <1>4 DEF InsertEntry, Goes, LedgerInvariant, LedgerTypeOK
  <2>9. \A b \in Appends : append'[b] = "committing" => b = a
    BY <1>4, <2>1 DEF InsertEntry, Goes, LedgerInvariant, LedgerTypeOK
  <2> QED BY <1>4, <2>1, <2>2, <2>3, <2>5, <2>7, <2>8, <2>9 DEF InsertEntry, Goes, LedgerInvariant, LedgerTypeOK
<1>5. ASSUME NEW a \in Appends, CommitEntry(a) PROVE LedgerInvariant'
  <2>1. /\ append[a] = "committing" /\ chainLock = a /\ chainLock' = Nobody
        /\ append' \in {[append EXCEPT ![a] = "appended"], [append EXCEPT ![a] = "failed"]}
        /\ entries' = entries \cup {a} /\ UNCHANGED <<previous, number, lastNumber>>
    BY <1>5 DEF CommitEntry, EndTransaction, Goes, LedgerInvariant
  <2>2. a \notin entries /\ \A b \in entries : number[b] < number[a]  BY <2>1 DEF LedgerInvariant
  <2>3. Before(a)' = entries  BY <2>1, <2>2 DEF Before, LedgerInvariant, LedgerTypeOK
  <2>4. \A b \in entries : Before(b)' = Before(b)  BY <2>1, <2>2 DEF Before, LedgerInvariant, LedgerTypeOK
  <2>5. \A b \in entries' : FollowsFrom(previous[b], Before(b))'
    BY <2>1, <2>3, <2>4 DEF FollowsFrom, IsLast, ChainIsWhole, LedgerInvariant
  <2>6. ChainIsWhole'  BY <2>1, <2>2, <2>5 DEF ChainIsWhole, LedgerInvariant, LedgerTypeOK
  <2>7. LedgerTypeOK'  BY <2>1 DEF LedgerInvariant, LedgerTypeOK
  <2>8. \A b \in Appends : append'[b] \notin Past  BY <2>1 DEF LedgerInvariant, LedgerTypeOK, Past
  <2>9. number[a] <= lastNumber  BY <2>1 DEF LedgerInvariant
  <2> QED BY <2>1, <2>6, <2>7, <2>8, <2>9 DEF LedgerInvariant, LedgerTypeOK, Past
<1>6. ASSUME NEW a \in Appends, AbortAppend(a) PROVE LedgerInvariant'
  <2>1. entries' = entries /\ number' = number  BY <1>6 DEF AbortAppend
  <2> QED BY <1>6, <2>1, SameRows DEF AbortAppend, EndTransaction, Goes, LedgerInvariant, LedgerTypeOK, ChainIsWhole
<1> QED BY <1>0, <1>1, <1>2, <1>3, <1>4, <1>5, <1>6 DEF LedgerNext

\* However many requests append at once and whatever fails, the committed
\* entries of the ledger form one chain (postgresAuditLedger.ts, append).
THEOREM LedgerChain == LedgerSpec => []ChainIsWhole
<1>1. LedgerInvariant => ChainIsWhole  BY DEF LedgerInvariant
<1> QED BY LedgerInitial, LedgerInductive, <1>1, PTL DEF LedgerSpec
======
