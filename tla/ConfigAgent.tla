------ MODULE ConfigAgent ------
(* The config agent (apps/config-agent/src/changes/runtimeHandlers.ts and
   changeRecovery.ts): the request handlers, the apply journal, the
   application blocks, crashes of the process and the recovery that runs
   before the agent serves again.  The apply runs are those of module
   ApplyCoordinator; here their persistEvent is the journal.
   
   A digest stands for what it is computed from: the image of the sources
   the change was validated on.  The sequence number of a journal record
   is 0 for APPLYING and at least 1 for every other state, and journal
   reading refuses a number below MinSequence (1 in the code). *)
EXTENDS ApplyCoordinator

CONSTANTS
    MinSequence,  \* the smallest sequence number journalRecords accepts
    MaxCrashes    \* bound: crashes of the agent process

\* A record of the journal: the event the run recorded last, and what a recovery
\* needs of the run.
JournalRecords ==
    [state : ApplyStates, hasWrites : BOOLEAN, digest : Images, prev : Images \cup {NoValue}]

\* What the agent remembers of a change.
ChangeRecords ==
    [state : ApplyStates \cup {"READY", "SAVED", "CANCELLED"}, digest : Images \cup {NoValue}]

ASSUME AgentAssumption ==
    /\ MinSequence \in Nat /\ MaxCrashes \in Nat
    /\ NoValue \notin JournalRecords \cup ChangeRecords

VARIABLES
    draft,    \* the draft envelope of a change: the image it was validated on
    journal,  \* apply-journal.json: one record per run, or NoValue
    chg,      \* `changes`: what the status handler reports, or NoValue
    blocked,  \* blockedApplications
    up,       \* the process: "ready", "recovering", "down" or "failed"
    queue,    \* journal records the recovery has still to resume
    rec,      \* the change the recovery works on, or NoValue
    recPc,    \* the step of the recovery for rec
    crashes,
    torn,     \* history: changes killed before the journal knew of their writes
    cleared   \* history: changes whose ROLLBACK_FAILED block an owner cleared

agentMemory == <<chg, blocked, queue, rec, recPc>>
historyVars == <<torn, cleared>>
agentVars == <<draft, journal, agentMemory, up, crashes, historyVars>>
allVars == <<vars, agentVars>>

-----
(* The journal.                                                            *)

Sequence(state) == IF state = "APPLYING" THEN 0 ELSE 1

\* journalRecords: one record with a refused sequence number and nothing of the
\* journal can be read.
JournalReadable ==
    \A c \in Changes :
        journal[c] # NoValue => Sequence(journal[c].state) >= MinSequence

\* The applications journalRecords blocks as it parses the records.
JournalBlocks ==
    {AppOf[c] : c \in {d \in Changes : /\ journal[d] # NoValue
                                       /\ journal[d].state = "ROLLBACK_FAILED"}}

WroteStates == ApplyStates \ {"APPLYING", "SNAPSHOTTED"}

\* The record persistEvent writes for an event.
RecordFor(c, state) ==
    [state |-> state,
     hasWrites |-> \/ journal[c] # NoValue /\ journal[c].hasWrites
                   \/ state \in WroteStates,
     digest |-> chg[c].digest,
     prev |-> IF prev[c] # NoValue THEN prev[c]
              ELSE IF journal[c] # NoValue THEN journal[c].prev ELSE NoValue]

\* Mutant of JournalEvent: a failing write of the journal is swallowed.
JournalEventSwallowed(c, state, ok, extra) ==
    /\ ok
    /\ chg' = [chg EXCEPT ![c].state = state]
    /\ journal' \in {journal, [journal EXCEPT ![c] = RecordFor(c, state)]}
    /\ blocked' = blocked \cup extra
    /\ UNCHANGED journalFaults

\* persistEvent: the event is recorded in memory, then the journal is read and
\* written.  It fails when the journal is unreadable, or by a failing file
\* operation before or after the rename.  Reading adds blocks, also when it
\* fails half way.  `extra` are applications the caller blocks.
JournalEvent(c, state, ok, extra) ==
    /\ chg' = [chg EXCEPT ![c].state = state]
    /\ \/ /\ ok /\ JournalReadable
          /\ journal' = [journal EXCEPT ![c] = RecordFor(c, state)]
          /\ blocked' = blocked \cup JournalBlocks \cup extra
          /\ UNCHANGED journalFaults
       \/ /\ ~ok /\ ~JournalReadable
          /\ \E seen \in SUBSET JournalBlocks : blocked' = blocked \cup seen \cup extra
          /\ UNCHANGED <<journal, journalFaults>>
       \/ /\ ~ok /\ JournalReadable
          /\ journalFaults < MaxJournalFaults
          /\ journalFaults' = journalFaults + 1
          /\ journal' \in {journal, [journal EXCEPT ![c] = RecordFor(c, state)]}
          /\ \E seen \in SUBSET JournalBlocks : blocked' = blocked \cup seen \cup extra

-----
AgentInit ==
    /\ Init
    /\ draft = [c \in Changes |-> NoValue]
    /\ journal = [c \in Changes |-> NoValue]
    /\ chg = [c \in Changes |-> NoValue]
    /\ blocked = {}
    /\ up = "ready"
    /\ queue = {} /\ rec = NoValue /\ recPc = "none"
    /\ crashes = 0
    /\ torn = {} /\ cleared = {}

-----
(* The request handlers.  Each waits for the recovery first.               *)

\* validate: a new draft of the change, computed from the current files.  The
\* agent does not ask whether a run of the change is in progress.
Validate(c) ==
    /\ up = "ready"
    /\ draft' = [draft EXCEPT ![c] = source]
    /\ chg' = [chg EXCEPT ![c] = [state |-> "READY", digest |-> source]]
    /\ UNCHANGED <<vars, journal, blocked, queue, rec, recPc, up, crashes, historyVars>>

\* save: the draft becomes the staged envelope.  The API saves only a change
\* that was not applied yet.
Save(c) ==
    /\ up = "ready"
    /\ pc[c] = "idle"
    /\ draft[c] # NoValue
    /\ staged' = [staged EXCEPT ![c] = draft[c]]
    /\ draft' = [draft EXCEPT ![c] = NoValue]
    /\ chg' = [chg EXCEPT ![c] = [state |-> "SAVED", digest |-> draft[c]]]
    /\ UNCHANGED <<source, loaded, snapshot, evidence, lockVars, runVars, envVars,
                   journalFaults, journal, blocked, queue, rec, recPc, up, crashes,
                   historyVars>>

\* apply: the request is answered once the run is started.
ApplyRequest(c) ==
    /\ up = "ready"
    /\ AppOf[c] \notin blocked
    /\ Apply(c)
    /\ chg' = [chg EXCEPT ![c] = [state |-> "APPLYING", digest |-> staged[c]]]
    /\ UNCHANGED <<journalFaults, draft, journal, blocked, queue, rec, recPc, up,
                   crashes, historyVars>>

\* cancel: draft and envelope are deleted, whether or not a run works on them.
Cancel(c) ==
    /\ up = "ready"
    /\ draft[c] # NoValue \/ staged[c] # NoValue
    /\ draft' = [draft EXCEPT ![c] = NoValue]
    /\ staged' = [staged EXCEPT ![c] = NoValue]
    /\ chg' = [chg EXCEPT ![c] =
                 [state |-> "CANCELLED",
                  digest |-> IF chg[c] = NoValue THEN NoValue ELSE chg[c].digest]]
    /\ UNCHANGED <<source, loaded, snapshot, evidence, lockVars, runVars, envVars,
                   journalFaults, journal, blocked, queue, rec, recPc, up, crashes,
                   historyVars>>

\* clearApplyBlock, by an owner.
ClearApplyBlock(a) ==
    /\ up = "ready"
    /\ a \in blocked
    /\ blocked' = blocked \ {a}
    /\ cleared' = cleared \cup {c \in Changes : AppOf[c] = a /\ outcome[c] = "rollback_failed"}
    /\ UNCHANGED <<vars, draft, journal, chg, queue, rec, recPc, up, crashes, torn>>

\* A draft expires after 24 hours.
ExpireDraft(c) ==
    /\ draft[c] # NoValue
    /\ draft' = [draft EXCEPT ![c] = NoValue]
    /\ UNCHANGED <<coordinatorVars, journal, agentMemory, up, crashes, historyVars>>

\* The cleanup process and the operators; they work also while the agent is
\* down.  The 30 days of a snapshot outlast every run and its recovery.
AgentEnvironment ==
    /\ \/ \E c \in Changes : ExpireDraft(c)
       \/ \E c \in Changes : Unstage(c) /\ UNCHANGED agentVars
       \/ \E c \in Changes :
            /\ rec # c
            /\ journal[c] # NoValue => journal[c].state \in TerminalApplyStates
            /\ ExpireSnapshot(c)
            /\ UNCHANGED agentVars
       \/ \E s \in Sources : Edit(s) /\ UNCHANGED agentVars
    /\ UNCHANGED journalFaults

-----
(* The apply runs, with the journal as their persistEvent.                 *)

\* onRollbackFailed blocks the application, whatever the journal did.
BlockedBy(c) ==
    IF pc[c] \in {"onRollbackFailed", "onNoWriteFailed"} THEN {AppOf[c]} ELSE {}

JournalledStep(c) ==
    /\ \E ok \in BOOLEAN :
        /\ EmittingStep(c, ok)
        /\ \/ /\ EventOf(c) # "none"
              /\ JournalEvent(c, EventOf(c), ok, BlockedBy(c))
           \/ /\ EventOf(c) = "none"
              /\ ~ok
              /\ blocked' = blocked \cup BlockedBy(c)
              /\ UNCHANGED <<chg, journal, journalFaults>>
    /\ UNCHANGED <<draft, up, queue, rec, recPc, crashes, historyVars>>

\* runAction of a build stores the replaced release in the journal
\* (persistRunMetadata) before the build starts.
BuildStep(c) ==
    /\ pc[c] = "runAction" /\ ActionOf[c] = "build"
    /\ RunAction(c)
    /\ \/ /\ JournalReadable
          /\ prev'[c] # NoValue
          /\ journal' = [journal EXCEPT ![c].prev = prev'[c]]
          /\ blocked' = blocked \cup JournalBlocks
       \/ /\ pc'[c] = OnError("runAction") /\ loaded' = loaded
          /\ UNCHANGED <<journal, blocked>>
    /\ UNCHANGED <<journalFaults, draft, chg, up, queue, rec, recPc, crashes, historyVars>>

QuietStep(c) ==
    /\ ~(pc[c] = "runAction" /\ ActionOf[c] = "build")
    /\ SilentStep(c)
    /\ UNCHANGED <<journalFaults, agentVars>>

AgentRunStep(c) ==
    /\ up \in {"ready", "recovering"}
    /\ JournalledStep(c) \/ BuildStep(c) \/ QuietStep(c)

-----
(* Crashes and restarts.                                                   *)

\* What dies with the process: the runs and their local variables, the locks
\* (a lock directory whose owner is gone is removed), changes and blocks.
ProcessEnds ==
    /\ appLock' = [a \in Apps |-> NoValue]
    /\ sourceLock' = [s \in Sources |-> NoValue]
    /\ actionLock' = [k \in RuntimeActions |-> NoValue]
    /\ active' = {}
    /\ pc' = [c \in Changes |-> IF pc[c] = "idle" THEN "idle" ELSE "over"]
    /\ machine' = [c \in Changes |-> "APPLYING"]
    /\ plan' = [c \in Changes |-> NoValue]
    /\ todo' = [c \in Changes |-> {}]
    /\ prev' = [c \in Changes |-> NoValue]
    /\ chg' = [c \in Changes |-> NoValue]
    /\ blocked' = {}
    /\ queue' = {} /\ rec' = NoValue /\ recPc' = "none"
    /\ UNCHANGED <<diskVars, outcome, envVars, journalFaults, draft, journal, cleared>>

\* Changes that have written a source while their journal record says otherwise.
UnrecordedWrites ==
    {c \in Changes : /\ \E s \in Sources : source[s] = c
                     /\ journal[c] # NoValue /\ ~journal[c].hasWrites}

Crash ==
    /\ up \in {"ready", "recovering"}
    /\ crashes < MaxCrashes
    /\ crashes' = crashes + 1
    /\ up' = "down"
    /\ torn' = torn \cup UnrecordedWrites
    /\ ProcessEnds

\* Mutant of Restart: finished records are resumed as well.
RestartResumesAll ==
    /\ up = "down" /\ JournalReadable
    /\ up' = "recovering"
    /\ chg' = [c \in Changes |->
                 IF journal[c] = NoValue THEN NoValue
                 ELSE [state |-> journal[c].state, digest |-> journal[c].digest]]
    /\ blocked' = JournalBlocks
    /\ queue' = {c \in Changes : journal[c] # NoValue}
    /\ UNCHANGED <<vars, rec, recPc, draft, journal, crashes, historyVars>>

\* Mutant of Restart: the blocks of the journal are not restored.
RestartUnblocked ==
    /\ up = "down" /\ JournalReadable
    /\ up' = "recovering"
    /\ chg' = [c \in Changes |->
                 IF journal[c] = NoValue THEN NoValue
                 ELSE [state |-> journal[c].state, digest |-> journal[c].digest]]
    /\ queue' = {c \in Changes : /\ journal[c] # NoValue
                                 /\ journal[c].state \notin TerminalApplyStates}
    /\ UNCHANGED <<vars, blocked, rec, recPc, draft, journal, crashes, historyVars>>

\* createRuntimeMutationHandlers reads the journal: the changes and the blocks
\* it knows are restored, and recovery starts on the unfinished records.
Restart ==
    /\ up = "down"
    /\ \/ /\ ~JournalReadable
          /\ up' = "failed"
          /\ UNCHANGED <<agentMemory>>
       \/ /\ JournalReadable
          /\ up' = "recovering"
          /\ chg' = [c \in Changes |->
                       IF journal[c] = NoValue THEN NoValue
                       ELSE [state |-> journal[c].state, digest |-> journal[c].digest]]
          /\ blocked' = JournalBlocks
          /\ queue' = {c \in Changes : /\ journal[c] # NoValue
                                       /\ journal[c].state \notin TerminalApplyStates}
          /\ UNCHANGED <<rec, recPc>>
    /\ UNCHANGED <<vars, draft, journal, crashes, historyVars>>

\* reconcile throws: the process ends before it ever listened.
RecoveryFails ==
    /\ up' = "failed"
    /\ ProcessEnds
    /\ UNCHANGED <<crashes, torn>>

-----
(* Recovery: reconcile resumes one record after the other.                 *)

\* A record without writes: the apply starts again under the same run id.
ResumeRun(c) ==
    /\ up = "recovering" /\ rec = NoValue /\ c \in queue
    /\ ~journal[c].hasWrites
    /\ rec' = c /\ recPc' = "resume" /\ queue' = queue \ {c}
    /\ Goto(c, "readStaged")
    /\ plan' = [plan EXCEPT ![c] = journal[c].digest]
    /\ outcome' = [outcome EXCEPT ![c] = "none"]
    /\ UNCHANGED <<diskVars, lockVars, machine, todo, prev, envVars, journalFaults,
                   draft, journal, chg, blocked, up, crashes, historyVars>>

\* Mutant of RunResumed: a rejected run is waited for.
RunResumedIfAccepted ==
    /\ up = "recovering" /\ recPc = "resume"
    /\ pc[rec] = "over"
    /\ outcome[rec] # "rejected"
    /\ rec' = NoValue /\ recPc' = "none"
    /\ UNCHANGED <<vars, draft, journal, chg, blocked, up, queue, crashes, historyVars>>

RunResumed ==
    /\ up = "recovering" /\ recPc = "resume"
    /\ pc[rec] = "over"
    /\ \/ /\ outcome[rec] = "rejected"
          /\ RecoveryFails
       \/ /\ outcome[rec] # "rejected"
          /\ rec' = NoValue /\ recPc' = "none"
          /\ UNCHANGED <<vars, draft, journal, chg, blocked, up, queue, crashes, historyVars>>

\* A record with writes: nothing can be done without envelope and snapshot.
StartRollback(c) ==
    /\ up = "recovering" /\ rec = NoValue /\ c \in queue
    /\ journal[c].hasWrites
    /\ \/ /\ staged[c] = NoValue \/ snapshot[c] = NoValue
          /\ RecoveryFails
       \/ /\ staged[c] # NoValue /\ snapshot[c] # NoValue
          /\ rec' = c /\ recPc' = "emitRollingBack" /\ queue' = queue \ {c}
          /\ prev' = [prev EXCEPT ![c] = journal[c].prev]
          /\ todo' = [todo EXCEPT ![c] = SourcesOf[c]]
          /\ outcome' = [outcome EXCEPT ![c] = "none"]
          /\ UNCHANGED <<diskVars, lockVars, pc, machine, plan, envVars, journalFaults,
                         draft, journal, chg, blocked, up, crashes, historyVars>>

\* The three events of the recovery rollback; a failing ROLLBACK_FAILED is
\* swallowed, any other failure leads to it.
RecoveryEvent(ok) ==
    /\ up = "recovering"
    /\ \/ /\ recPc = "emitRollingBack"
          /\ JournalEvent(rec, "ROLLING_BACK", ok, {})
          /\ recPc' = IF ok THEN "restore" ELSE "emitRollbackFailed"
          /\ UNCHANGED <<rec, outcome, prev>>
       \/ /\ recPc = "emitRolledBack"
          /\ JournalEvent(rec, "ROLLED_BACK", ok, {})
          /\ recPc' = IF ok THEN "none" ELSE "emitRollbackFailed"
          /\ rec' = IF ok THEN NoValue ELSE rec
          /\ outcome' = [outcome EXCEPT ![rec] = IF ok THEN "rolled_back" ELSE @]
          /\ prev' = [prev EXCEPT ![rec] = IF ok THEN NoValue ELSE @]
       \/ /\ recPc = "emitRollbackFailed"
          /\ JournalEvent(rec, "ROLLBACK_FAILED", ok, {AppOf[rec]})
          /\ recPc' = "none" /\ rec' = NoValue
          /\ outcome' = [outcome EXCEPT ![rec] = "rollback_failed"]
          /\ prev' = [prev EXCEPT ![rec] = NoValue]
    /\ UNCHANGED <<diskVars, lockVars, pc, machine, plan, todo, envVars, draft, up,
                   queue, crashes, historyVars>>

RecoveryRestore ==
    /\ up = "recovering" /\ recPc = "restore"
    /\ \E s \in todo[rec] :
        \/ /\ source' = [source EXCEPT ![s] = snapshot[rec][s]]
           /\ todo' = [todo EXCEPT ![rec] = @ \ {s}]
           /\ recPc' = IF todo[rec] = {s} THEN "rollbackAction" ELSE recPc
           /\ UNCHANGED faults
        \/ /\ Fault
           /\ source' \in {source, [source EXCEPT ![s] = snapshot[rec][s]]}
           /\ todo' = [todo EXCEPT ![rec] = {}]
           /\ recPc' = "emitRollbackFailed"
    /\ UNCHANGED <<loaded, staged, snapshot, evidence, lockVars, pc, machine, plan,
                   prev, outcome, edits, journalFaults, draft, journal, chg, blocked,
                   up, queue, rec, crashes, historyVars>>

\* Mutant of RecoveryAction: the release is left as it is.
RecoveryActionSkipped ==
    /\ up = "recovering" /\ recPc = "rollbackAction"
    /\ recPc' = "emitRolledBack"
    /\ UNCHANGED <<vars, draft, journal, chg, blocked, up, queue, rec, crashes,
                   historyVars>>

\* Only a build is undone, and it needs the release the journal remembers.
RecoveryAction ==
    /\ up = "recovering" /\ recPc = "rollbackAction"
    /\ \/ /\ ActionOf[rec] # "build"
          /\ recPc' = "emitRolledBack"
          /\ UNCHANGED <<loaded, faults>>
       \/ /\ ActionOf[rec] = "build" /\ prev[rec] = NoValue
          /\ recPc' = "emitRollbackFailed"
          /\ UNCHANGED <<loaded, faults>>
       \/ /\ ActionOf[rec] = "build" /\ prev[rec] # NoValue
          /\ loaded' = Load(rec, prev[rec])
          /\ recPc' = "emitRolledBack"
          /\ UNCHANGED faults
       \/ /\ ActionOf[rec] = "build" /\ prev[rec] # NoValue
          /\ Fault
          /\ loaded' \in {loaded, Load(rec, prev[rec])}
          /\ recPc' = "emitRollbackFailed"
    /\ UNCHANGED <<source, staged, snapshot, evidence, lockVars, runVars, edits,
                   journalFaults, draft, journal, chg, blocked, up, queue, rec,
                   crashes, historyVars>>

\* Mutant of RecoveryDone: the handlers do not wait for the recovery.
RecoveryNotAwaited ==
    /\ up = "recovering"
    /\ up' = "ready"
    /\ UNCHANGED <<vars, draft, journal, agentMemory, crashes, historyVars>>

RecoveryDone ==
    /\ up = "recovering" /\ queue = {} /\ rec = NoValue
    /\ up' = "ready"
    /\ UNCHANGED <<vars, draft, journal, agentMemory, crashes, historyVars>>

RecoveryStep ==
    \/ \E c \in Changes : ResumeRun(c) \/ StartRollback(c)
    \/ RunResumed
    \/ \E ok \in BOOLEAN : RecoveryEvent(ok)
    \/ RecoveryRestore
    \/ RecoveryAction
    \/ RecoveryDone

Handler ==
    \/ \E c \in Changes : Validate(c) \/ Save(c) \/ ApplyRequest(c) \/ Cancel(c)
    \/ \E a \in Apps : ClearApplyBlock(a)

AgentNext ==
    \/ Handler
    \/ AgentEnvironment
    \/ \E c \in Changes : AgentRunStep(c)
    \/ Crash
    \/ Restart
    \/ RecoveryStep

AgentSpec == AgentInit /\ [][AgentNext]_allVars

\* The service manager restarts the agent, and every call of a run and of the
\* recovery returns or throws.
AgentFairSpec ==
    /\ AgentSpec
    /\ \A c \in Changes : WF_allVars(AgentRunStep(c))
    /\ WF_allVars(Restart)
    /\ WF_allVars(RecoveryStep)

-----
(* Properties.                                                             *)

\* A run that is killed can be found again: when a source file holds what a
\* change wrote and the change's run or its rollback is not finished, the
\* journal has a record of the run, and the snapshot is stored unless the record
\* is final.
WritesAreJournalled ==
    \A c \in Changes, s \in Sources :
        source[s] = c /\ outcome[c] = "none" =>
            /\ journal[c] # NoValue
            /\ journal[c].state \in TerminalApplyStates \/ snapshot[c] # NoValue

\* Terminal states of the journal are final: neither a later event of the run
\* nor a recovery after a crash moves a run out of them.  (When the write of
\* ROLLED_BACK fails after its rename, the recovery overwrites it.)
TerminalIsFinal ==
    [][\A c \in Changes :
         journalFaults = 0 /\ journal[c] # NoValue /\ journal[c].state \in TerminalApplyStates
            => journal'[c] # NoValue /\ journal'[c].state = journal[c].state]_allVars

\* The agent serves only what it reconciled: as long as the journal's writes
\* succeed, an unfinished record of a serving agent belongs to a run in progress.
ReadyIsReconciled ==
    \A c \in Changes :
        /\ up = "ready" /\ journalFaults = 0
        /\ journal[c] # NoValue /\ journal[c].state \notin TerminalApplyStates
        => pc[c] \notin {"idle", "over"}

\* After a crash, too, a run reported ROLLED_BACK has left nothing behind, in
\* the files or in the release that is running, unless the process was killed
\* between the run's first write and the journal record that tells of it.
RolledBackLeavesNothing ==
    \A c \in Changes, s \in Sources :
        outcome[c] = "rolled_back" /\ c \notin torn =>
            source[s] # c /\ (ActionOf[c] = "build" => loaded[s] # c)

\* A failed rollback blocks its application in every serving agent until an
\* owner clears the block, also when the agent restarted in between, as long as
\* the journal's writes succeed.
FailureBlocks ==
    \A c \in Changes :
        /\ up = "ready" /\ outcome[c] = "rollback_failed" /\ c \notin cleared
        /\ journalFaults = 0
        => AppOf[c] \in blocked

\* Every restart ends: the agent serves again, or it gives up; the recovery never
\* waits for ever on a run it resumed.
RecoveryEnds == up = "down" ~> up \in {"ready", "failed"}

\* A run that meets no failure and no edit never ends in ROLLBACK_FAILED.
FaultFreeNeverFails ==
    \A c \in Changes :
        faults = 0 /\ journalFaults = 0 /\ edits = 0 => outcome[c] # "rollback_failed"
======
