------ MODULE ApplyCoordinator ------
(* The apply transaction of the config agent: performApply of
   apps/config-agent/src/changes/applyCoordinator.ts with the
   dependencies runtimeHandlers.ts gives it (source files, snapshot store,
   locks, runtime actions, health checks).
   
   A change is applied by one run, so a run is named by its change.  The
   runs interleave at the awaits of performApply: pc[c] names the call run
   c makes next.  persistEvent, the journal, is the agent's: an action
   that emits an event takes its outcome as the parameter `ok`, which this
   module's own Next leaves open and module ConfigAgent determines.
   
   The content of a source file is the change that wrote it last, Orig, or
   Edited (an operator's edit): two contents have the same fingerprint
   exactly when they are equal. *)
EXTENDS ApplyStateMachine, Naturals, FiniteSets

CONSTANTS
    Changes,    \* configuration changes (one run each)
    Apps,       \* applications
    Sources,    \* source files
    AppOf,      \* the application of a change
    SourcesOf,  \* the source files a change touches
    ActionOf,   \* the runtime action of a change: "none", "restart" or "build"
                \* (the code loops over sorted ids; here a change has at most one)
    Orig,       \* the content of a file before any change or edit
    Edited,     \* the content of a file an operator edited
    NoValue,    \* absent: no staged envelope, no snapshot, no lock owner
    MaxFaults,         \* bound: failing calls other than the journal's
    MaxJournalFaults,  \* bound: failing journal writes
    MaxEdits           \* bound: edits by an operator

RuntimeActions == {"restart", "build"}
Contents == Changes \cup {Orig, Edited}
Images == [Sources -> Contents]      \* the contents of all source files

ASSUME ConstantsAssumption ==
    /\ AppOf \in [Changes -> Apps]
    /\ SourcesOf \in [Changes -> (SUBSET Sources) \ {{}}]
    /\ ActionOf \in [Changes -> RuntimeActions \cup {"none"}]
    /\ Orig \notin Changes /\ Edited \notin Changes /\ Orig # Edited
    /\ NoValue \notin Changes /\ NoValue \notin Images
    /\ MaxFaults \in Nat /\ MaxJournalFaults \in Nat /\ MaxEdits \in Nat

\* A source of the manifest belongs to one application (validationService.ts:437).
ASSUME SourceOwnership ==
    \A c, d \in Changes : SourcesOf[c] \cap SourcesOf[d] # {} => AppOf[c] = AppOf[d]

VARIABLES
    source,    \* the source files on disk
    loaded,    \* the content the consumers of each file run with
    staged,    \* the staged envelope of a change: the image it was validated on
    snapshot,  \* the stored snapshot SNAP_<run>
    evidence,  \* runs whose snapshot is marked rollback_failed
    appLock, sourceLock, actionLock,   \* owner of each lock, or NoValue
    active,    \* activeApplications
    pc,        \* the call run c makes next
    machine,   \* the state of run c's state machine
    plan,      \* the staged payload run c works from
    todo,      \* sources run c has still to write or to restore
    prev,      \* previousBuildReleases: what was loaded before the build
    outcome,   \* what run c returned
    faults, journalFaults, edits

diskVars == <<source, loaded, staged, snapshot, evidence>>
lockVars == <<appLock, sourceLock, actionLock, active>>
runVars  == <<pc, machine, plan, todo, prev, outcome>>
envVars  == <<faults, edits>>
coordinatorVars == <<diskVars, lockVars, runVars, envVars>>
vars == <<coordinatorVars, journalFaults>>

-----
(* Where a failing call takes the run: the catch blocks of performApply.   *)

\* Nothing has been written yet: `!snapshot || !writeStarted`.
BeforeWrite ==
    {"acquireSourceLock", "acquireActionLock", "captureSnapshot", "emitSnapshotted"}
Writing ==
    {"writeSource", "emitWritten", "emitActionRunning", "runAction",
     "emitHealthChecking", "runHealth", "emitCompleted"}
RollingBack ==
    {"emitRollingBack", "restoreSnapshot", "rollbackAction", "rollbackHealth",
     "emitRolledBack"}
NoWriteRollingBack == {"emitNoWriteRollingBack", "emitNoWriteRolledBack"}

\* The run holds its application's lock.
Holding == BeforeWrite \cup Writing \cup RollingBack \cup NoWriteRollingBack
           \cup {"onRollbackFailed", "onNoWriteFailed", "finally"}

Calls == Holding \cup {"idle", "readStaged", "acquireApplicationLock", "over"}
Outcomes == {"none", "rejected", "completed", "rolled_back", "rollback_failed"}

\* Mutant of OnError: a failing write is taken for a failure before the write.
OnErrorForgetsWrite(call) ==
    IF call \in BeforeWrite \cup {"writeSource"} THEN "emitNoWriteRollingBack"
    ELSE IF call \in Writing THEN "emitRollingBack"
    ELSE IF call \in NoWriteRollingBack THEN "onNoWriteFailed"
    ELSE "onRollbackFailed"

OnError(call) ==
    IF call \in BeforeWrite THEN "emitNoWriteRollingBack"
    ELSE IF call \in Writing THEN "emitRollingBack"
    ELSE IF call \in NoWriteRollingBack THEN "onNoWriteFailed"
    ELSE "onRollbackFailed"

\* The calls emit(machine, ..., state, ...) of performApply, in program order:
\* the state each one records and the call that follows it.
Emits ==
    [emitSnapshotted        |-> [to |-> "SNAPSHOTTED",     next |-> "writeSource"],
     emitWritten            |-> [to |-> "WRITTEN",         next |-> "emitActionRunning"],
     emitActionRunning      |-> [to |-> "ACTION_RUNNING",  next |-> "runAction"],
     emitHealthChecking     |-> [to |-> "HEALTH_CHECKING", next |-> "runHealth"],
     emitCompleted          |-> [to |-> "COMPLETED",       next |-> "finally"],
     emitNoWriteRollingBack |-> [to |-> "ROLLING_BACK",    next |-> "emitNoWriteRolledBack"],
     emitNoWriteRolledBack  |-> [to |-> "ROLLED_BACK",     next |-> "finally"],
     emitRollingBack        |-> [to |-> "ROLLING_BACK",    next |-> "restoreSnapshot"],
     emitRolledBack         |-> [to |-> "ROLLED_BACK",     next |-> "finally"]]

EmitCalls ==
    {"emitSnapshotted", "emitWritten", "emitActionRunning", "emitHealthChecking",
     "emitCompleted", "emitNoWriteRollingBack", "emitNoWriteRolledBack",
     "emitRollingBack", "emitRolledBack"}

Goto(c, call) == pc' = [pc EXCEPT ![c] = call]

\* A call other than the journal's fails, within the bound on failures.
Fault == faults < MaxFaults /\ faults' = faults + 1

-----
Init ==
    /\ source = [s \in Sources |-> Orig]
    /\ loaded = source
    /\ staged = [c \in Changes |-> NoValue]
    /\ snapshot = [c \in Changes |-> NoValue]
    /\ evidence = {}
    /\ appLock = [a \in Apps |-> NoValue]
    /\ sourceLock = [s \in Sources |-> NoValue]
    /\ actionLock = [k \in RuntimeActions |-> NoValue]
    /\ active = {}
    /\ pc = [c \in Changes |-> "idle"]
    /\ machine = [c \in Changes |-> "APPLYING"]
    /\ plan = [c \in Changes |-> NoValue]
    /\ todo = [c \in Changes |-> {}]
    /\ prev = [c \in Changes |-> NoValue]
    /\ outcome = [c \in Changes |-> "none"]
    /\ faults = 0 /\ journalFaults = 0 /\ edits = 0

-----
(* The environment of the runs.                                            *)

\* A change is validated against the current files and its envelope is sealed
\* (draftStore.sealDraft); ConfigAgent models the two requests.
Stage(c) ==
    /\ pc[c] = "idle"
    /\ staged' = [staged EXCEPT ![c] = source]
    /\ UNCHANGED <<source, loaded, snapshot, evidence, lockVars, runVars, envVars>>

\* The envelope expires after 24 hours, or the change is cancelled: nothing
\* asks whether a run of the change is in progress.
Unstage(c) ==
    /\ staged[c] # NoValue
    /\ staged' = [staged EXCEPT ![c] = NoValue]
    /\ UNCHANGED <<source, loaded, snapshot, evidence, lockVars, runVars, envVars>>

\* A snapshot expires after 30 days unless it is marked rollback_failed.
ExpireSnapshot(c) ==
    /\ pc[c] \in {"idle", "over"}
    /\ snapshot[c] # NoValue /\ c \notin evidence
    /\ snapshot' = [snapshot EXCEPT ![c] = NoValue]
    /\ UNCHANGED <<source, loaded, staged, evidence, lockVars, runVars, envVars>>

\* An operator edits a source file by hand.
Edit(s) ==
    /\ edits < MaxEdits
    /\ edits' = edits + 1
    /\ source' = [source EXCEPT ![s] = Edited]
    /\ UNCHANGED <<loaded, staged, snapshot, evidence, lockVars, runVars, faults>>

-----
(* performApply, one action per awaited call.                              *)

\* coordinator.apply: the run starts with the digest the request named.
Apply(c) ==
    /\ pc[c] = "idle"
    /\ staged[c] # NoValue
    /\ plan' = [plan EXCEPT ![c] = staged[c]]
    /\ Goto(c, "readStaged")
    /\ UNCHANGED <<diskVars, lockVars, machine, todo, prev, outcome, envVars>>

\* The run throws before its machine exists: no event is recorded.
Reject(c) ==
    /\ Goto(c, "over")
    /\ outcome' = [outcome EXCEPT ![c] = "rejected"]
    /\ UNCHANGED <<machine, plan, todo, prev>>

\* Mutant of ReadStaged: the marker names the change, not its application.
ReadStagedMarksChange(c) ==
    /\ pc[c] = "readStaged"
    /\ staged[c] # NoValue
    /\ active' = active \cup {c}
    /\ Goto(c, "acquireApplicationLock")
    /\ UNCHANGED <<diskVars, appLock, sourceLock, actionLock, machine, plan, todo,
                   prev, outcome, envVars>>

\* readStaged and the checks on it.  The finally block clears the
\* application's marker also when the marker is another run's.
ReadStaged(c) ==
    /\ pc[c] = "readStaged"
    /\ \/ /\ staged[c] = NoValue
          /\ Reject(c)
          /\ UNCHANGED active
       \/ /\ staged[c] # NoValue
          /\ staged[c] # plan[c] \/ AppOf[c] \in active
          /\ Reject(c)
          /\ active' = active \ {AppOf[c]}
       \/ /\ staged[c] = plan[c]
          /\ AppOf[c] \notin active
          /\ active' = active \cup {AppOf[c]}
          /\ Goto(c, "acquireApplicationLock")
          /\ UNCHANGED <<machine, plan, todo, prev, outcome>>
    /\ UNCHANGED <<diskVars, appLock, sourceLock, actionLock, envVars>>

\* Mutant of AcquireApplicationLock: the marker alone keeps runs apart.
AcquireNoApplicationLock(c, ok) ==
    /\ pc[c] = "acquireApplicationLock"
    /\ appLock' = [appLock EXCEPT ![AppOf[c]] = c]
    /\ machine' = [machine EXCEPT ![c] = "APPLYING"]
    /\ Goto(c, IF ok THEN "acquireSourceLock" ELSE OnError("acquireSourceLock"))
    /\ UNCHANGED <<diskVars, sourceLock, actionLock, active, plan, todo, prev,
                   outcome, envVars>>

\* The application lock; then the machine is created and APPLYING recorded.
AcquireApplicationLock(c, ok) ==
    /\ pc[c] = "acquireApplicationLock"
    /\ appLock[AppOf[c]] = NoValue
    /\ appLock' = [appLock EXCEPT ![AppOf[c]] = c]
    /\ machine' = [machine EXCEPT ![c] = "APPLYING"]
    /\ Goto(c, IF ok THEN "acquireSourceLock" ELSE OnError("acquireSourceLock"))
    /\ UNCHANGED <<diskVars, sourceLock, actionLock, active, plan, todo, prev,
                   outcome, envVars>>

ApplicationLockFails(c) ==
    /\ pc[c] = "acquireApplicationLock"
    /\ Fault
    /\ Reject(c)
    /\ active' = active \ {AppOf[c]}
    /\ UNCHANGED <<diskVars, appLock, sourceLock, actionLock, edits>>

\* One source lock at a time, then the lock of the runtime action.
AcquireSourceLock(c) ==
    /\ pc[c] = "acquireSourceLock"
    /\ \E s \in SourcesOf[c] :
        /\ sourceLock[s] = NoValue
        /\ sourceLock' = [sourceLock EXCEPT ![s] = c]
        /\ IF \A t \in SourcesOf[c] : sourceLock'[t] = c
              THEN Goto(c, "acquireActionLock")
              ELSE UNCHANGED pc
    /\ UNCHANGED <<diskVars, appLock, actionLock, active, machine, plan, todo,
                   prev, outcome, envVars>>

AcquireActionLock(c) ==
    /\ pc[c] = "acquireActionLock"
    /\ \/ ActionOf[c] = "none" /\ UNCHANGED actionLock
       \/ /\ ActionOf[c] # "none"
          /\ actionLock[ActionOf[c]] = NoValue
          /\ actionLock' = [actionLock EXCEPT ![ActionOf[c]] = c]
    /\ Goto(c, "captureSnapshot")
    /\ UNCHANGED <<diskVars, appLock, sourceLock, active, machine, plan, todo,
                   prev, outcome, envVars>>

\* A dependency of the run throws and leaves the files as they are.
CallFails(c) ==
    /\ pc[c] \in {"acquireSourceLock", "acquireActionLock", "captureSnapshot",
                  "runHealth", "rollbackHealth"}
    /\ Fault
    /\ Goto(c, OnError(pc[c]))
    /\ UNCHANGED <<diskVars, lockVars, machine, plan, todo, prev, outcome, edits>>

\* The sources still have the fingerprints the change was validated on.
Unchanged(c) == \A s \in SourcesOf[c] : source[s] = plan[c][s]

\* Mutant of CaptureSnapshot: the snapshot is captured and not stored.
CaptureUnstoredSnapshot(c) ==
    /\ pc[c] = "captureSnapshot"
    /\ Goto(c, IF Unchanged(c) THEN "emitSnapshotted" ELSE OnError("captureSnapshot"))
    /\ todo' = [todo EXCEPT ![c] = SourcesOf[c]]
    /\ UNCHANGED <<diskVars, lockVars, machine, plan, prev, outcome, envVars>>

\* captureSnapshot and createSnapshot.
CaptureSnapshot(c) ==
    /\ pc[c] = "captureSnapshot"
    /\ \/ /\ Unchanged(c)
          /\ snapshot' = [snapshot EXCEPT ![c] = source]
          /\ Goto(c, "emitSnapshotted")
       \/ /\ ~Unchanged(c)
          /\ UNCHANGED snapshot
          /\ Goto(c, OnError("captureSnapshot"))
    /\ todo' = [todo EXCEPT ![c] = SourcesOf[c]]
    /\ UNCHANGED <<source, loaded, staged, evidence, lockVars, machine, plan,
                   prev, outcome, envVars>>

\* emit: the machine moves first and the journal is written after it, so a
\* failing journal leaves the machine in a state nobody recorded.
Emit(c, ok) ==
    /\ pc[c] \in EmitCalls
    /\ LET e == Emits[pc[c]] IN
        \/ /\ CanTransition(machine[c], e.to)
           /\ machine' = [machine EXCEPT ![c] = e.to]
           /\ Goto(c, IF ok THEN e.next ELSE OnError(pc[c]))
           /\ outcome' = [outcome EXCEPT ![c] =
                            IF ok /\ e.to = "COMPLETED" THEN "completed"
                            ELSE IF ok /\ e.to = "ROLLED_BACK" THEN "rolled_back"
                            ELSE @]
           /\ todo' = [todo EXCEPT ![c] =
                            IF e.next = "restoreSnapshot" THEN SourcesOf[c] ELSE @]
        \/ /\ ~CanTransition(machine[c], e.to)
           /\ ~ok
           /\ Goto(c, OnError(pc[c]))
           /\ UNCHANGED <<machine, outcome, todo>>
    /\ UNCHANGED <<diskVars, lockVars, plan, prev, envVars>>

\* writer.write of one source: refused when the fingerprint changed; a failure
\* may come before or after the rename that replaces the file.
WriteSource(c) ==
    /\ pc[c] = "writeSource"
    /\ \E s \in todo[c] :
        \/ /\ source[s] = plan[c][s]
           /\ source' = [source EXCEPT ![s] = c]
           /\ todo' = [todo EXCEPT ![c] = @ \ {s}]
           /\ IF todo[c] = {s} THEN Goto(c, "emitWritten") ELSE UNCHANGED pc
           /\ UNCHANGED faults
        \/ /\ source[s] # plan[c][s]
           /\ Goto(c, OnError("writeSource"))
           /\ UNCHANGED <<source, todo, faults>>
        \/ /\ source[s] = plan[c][s]
           /\ Fault
           /\ source' \in {source, [source EXCEPT ![s] = c]}
           /\ Goto(c, OnError("writeSource"))
           /\ UNCHANGED todo
    /\ UNCHANGED <<loaded, staged, snapshot, evidence, lockVars, machine, plan,
                   prev, outcome, edits>>

\* The consumers of c's sources start with what the given image holds.
Load(c, image) ==
    [s \in Sources |-> IF s \in SourcesOf[c] THEN image[s] ELSE loaded[s]]

\* Mutant of RunAction: the exit code of the process is not looked at.
RunActionIgnoresFailure(c) ==
    /\ pc[c] = "runAction"
    /\ loaded' \in {loaded, Load(c, source)}
    /\ prev' = [prev EXCEPT ![c] = loaded]
    /\ Goto(c, "emitHealthChecking")
    /\ UNCHANGED <<source, staged, snapshot, evidence, lockVars, machine, plan,
                   todo, outcome, envVars>>

\* runAction.  A build reads the staged envelope again and remembers the
\* release it replaces.
RunAction(c) ==
    /\ pc[c] = "runAction"
    /\ \/ /\ ActionOf[c] = "none" \/ ActionOf[c] = "restart" \/ staged[c] # NoValue
          /\ loaded' = IF ActionOf[c] = "none" THEN loaded ELSE Load(c, source)
          /\ prev' = [prev EXCEPT ![c] = IF ActionOf[c] = "build" THEN loaded ELSE @]
          /\ Goto(c, "emitHealthChecking")
          /\ UNCHANGED faults
       \/ /\ ActionOf[c] = "build" /\ staged[c] = NoValue
          /\ Goto(c, OnError("runAction"))
          /\ UNCHANGED <<loaded, prev, faults>>
       \/ /\ ActionOf[c] = "restart"
          /\ Fault
          /\ loaded' \in {loaded, Load(c, source)}
          /\ Goto(c, OnError("runAction"))
          /\ UNCHANGED prev
       \/ /\ ActionOf[c] = "build" /\ staged[c] # NoValue
          /\ Fault
          /\ \/ UNCHANGED <<loaded, prev>>
             \/ /\ loaded' \in {loaded, Load(c, source)}
                /\ prev' = [prev EXCEPT ![c] = loaded]
          /\ Goto(c, OnError("runAction"))
    /\ UNCHANGED <<source, staged, snapshot, evidence, lockVars, machine, plan,
                   todo, outcome, edits>>

RunHealth(c) ==
    /\ pc[c] \in {"runHealth", "rollbackHealth"}
    /\ Goto(c, IF pc[c] = "runHealth" THEN "emitCompleted" ELSE "emitRolledBack")
    /\ UNCHANGED <<diskVars, lockVars, machine, plan, todo, prev, outcome, envVars>>

-----
(* The rollback.                                                           *)

\* writer.restore of one source: no fingerprint is compared.
RestoreSource(c) ==
    /\ pc[c] = "restoreSnapshot"
    /\ \E s \in todo[c] :
        \/ /\ source' = [source EXCEPT ![s] = snapshot[c][s]]
           /\ todo' = [todo EXCEPT ![c] = @ \ {s}]
           /\ IF todo[c] = {s} THEN Goto(c, "rollbackAction") ELSE UNCHANGED pc
           /\ UNCHANGED faults
        \/ /\ Fault
           /\ source' \in {source, [source EXCEPT ![s] = snapshot[c][s]]}
           /\ Goto(c, OnError("restoreSnapshot"))
           /\ UNCHANGED todo
    /\ UNCHANGED <<loaded, staged, snapshot, evidence, lockVars, machine, plan,
                   prev, outcome, edits>>

\* Mutant of RollbackAction: every action is treated like a build.
RollbackActionOfAnyKind(c) ==
    /\ pc[c] = "rollbackAction"
    /\ loaded' = IF prev[c] = NoValue THEN loaded ELSE Load(c, prev[c])
    /\ Goto(c, IF prev[c] = NoValue THEN OnError("rollbackAction") ELSE "rollbackHealth")
    /\ UNCHANGED <<source, staged, snapshot, evidence, lockVars, machine, plan,
                   todo, prev, outcome, envVars>>

\* rollbackAction: only a build is undone, and only when the build began.
RollbackAction(c) ==
    /\ pc[c] = "rollbackAction"
    /\ \/ /\ ActionOf[c] # "build"
          /\ Goto(c, "rollbackHealth")
          /\ UNCHANGED <<loaded, faults>>
       \/ /\ ActionOf[c] = "build" /\ prev[c] = NoValue
          /\ Goto(c, OnError("rollbackAction"))
          /\ UNCHANGED <<loaded, faults>>
       \/ /\ ActionOf[c] = "build" /\ prev[c] # NoValue
          /\ loaded' = Load(c, prev[c])
          /\ Goto(c, "rollbackHealth")
          /\ UNCHANGED faults
       \/ /\ ActionOf[c] = "build" /\ prev[c] # NoValue
          /\ Fault
          /\ loaded' \in {loaded, Load(c, prev[c])}
          /\ Goto(c, OnError("rollbackAction"))
    /\ UNCHANGED <<source, staged, snapshot, evidence, lockVars, machine, plan,
                   todo, prev, outcome, edits>>

\* The catch block of a rollback: the snapshot is marked (best effort), the
\* event is emitted (its failure is swallowed) and the application is blocked.
RollbackFailed(c, ok) ==
    /\ pc[c] \in {"onRollbackFailed", "onNoWriteFailed"}
    /\ \/ /\ evidence' = IF pc[c] = "onRollbackFailed" THEN evidence \cup {c} ELSE evidence
          /\ UNCHANGED faults
       \/ /\ pc[c] = "onRollbackFailed"
          /\ Fault
          /\ UNCHANGED evidence
    /\ \/ /\ CanTransition(machine[c], "ROLLBACK_FAILED")
          /\ machine' = [machine EXCEPT ![c] = "ROLLBACK_FAILED"]
       \/ /\ ~CanTransition(machine[c], "ROLLBACK_FAILED")
          /\ ~ok
          /\ UNCHANGED machine
    /\ outcome' = [outcome EXCEPT ![c] = "rollback_failed"]
    /\ Goto(c, "finally")
    /\ UNCHANGED <<source, loaded, staged, snapshot, lockVars, plan, todo, prev, edits>>

\* Mutant of Finally: the lock of the runtime action is not released.
FinallyKeepsActionLock(c) ==
    /\ pc[c] = "finally"
    /\ appLock' = [a \in Apps |-> IF appLock[a] = c THEN NoValue ELSE appLock[a]]
    /\ sourceLock' = [s \in Sources |-> IF sourceLock[s] = c THEN NoValue ELSE sourceLock[s]]
    /\ active' = active \ {AppOf[c]}
    /\ Goto(c, "over")
    /\ plan' = [plan EXCEPT ![c] = NoValue]
    /\ todo' = [todo EXCEPT ![c] = {}]
    /\ prev' = [prev EXCEPT ![c] = NoValue]
    /\ UNCHANGED <<diskVars, actionLock, machine, outcome, envVars>>

\* The finally block: the locks are released, the marker is cleared, and the
\* run's local variables are gone.
Finally(c) ==
    /\ pc[c] = "finally"
    /\ appLock' = [a \in Apps |-> IF appLock[a] = c THEN NoValue ELSE appLock[a]]
    /\ sourceLock' = [s \in Sources |-> IF sourceLock[s] = c THEN NoValue ELSE sourceLock[s]]
    /\ actionLock' = [k \in RuntimeActions |->
                        IF actionLock[k] = c THEN NoValue ELSE actionLock[k]]
    /\ active' = active \ {AppOf[c]}
    /\ Goto(c, "over")
    /\ plan' = [plan EXCEPT ![c] = NoValue]
    /\ todo' = [todo EXCEPT ![c] = {}]
    /\ prev' = [prev EXCEPT ![c] = NoValue]
    /\ UNCHANGED <<diskVars, machine, outcome, envVars>>

-----
(* The steps of a run, and of the coordinator on its own.                  *)

\* The state the run's next call emits; "none" for a call that emits nothing
\* and for an emission the state machine refuses.
EventOf(c) ==
    IF pc[c] = "acquireApplicationLock" THEN "APPLYING"
    ELSE IF pc[c] \in EmitCalls /\ CanTransition(machine[c], Emits[pc[c]].to)
         THEN Emits[pc[c]].to
    ELSE IF /\ pc[c] \in {"onRollbackFailed", "onNoWriteFailed"}
            /\ CanTransition(machine[c], "ROLLBACK_FAILED")
         THEN "ROLLBACK_FAILED"
    ELSE "none"

\* The calls that hand an event to persistEvent.
EmittingStep(c, ok) ==
    \/ AcquireApplicationLock(c, ok)
    \/ Emit(c, ok)
    \/ RollbackFailed(c, ok)

SilentStep(c) ==
    \/ ReadStaged(c)
    \/ ApplicationLockFails(c)
    \/ AcquireSourceLock(c)
    \/ AcquireActionLock(c)
    \/ CallFails(c)
    \/ CaptureSnapshot(c)
    \/ WriteSource(c)
    \/ RunAction(c)
    \/ RunHealth(c)
    \/ RestoreSource(c)
    \/ RollbackAction(c)
    \/ Finally(c)

\* persistEvent of a journal that may fail at any time.
PersistEvent(c, ok) ==
    IF ok \/ EventOf(c) = "none"
       THEN UNCHANGED journalFaults
       ELSE /\ journalFaults < MaxJournalFaults
            /\ journalFaults' = journalFaults + 1

RunStep(c) ==
    \/ \E ok \in BOOLEAN : EmittingStep(c, ok) /\ PersistEvent(c, ok)
    \/ SilentStep(c) /\ UNCHANGED journalFaults

Environment ==
    /\ \/ \E c \in Changes : Stage(c) \/ Unstage(c) \/ ExpireSnapshot(c) \/ Apply(c)
       \/ \E s \in Sources : Edit(s)
    /\ UNCHANGED journalFaults

Next == Environment \/ \E c \in Changes : RunStep(c)

Spec == Init /\ [][Next]_vars

\* Every call of a run returns or throws: file operations complete, and actions
\* and health checks are cut off by their timeouts.  Lock queues are FIFO.
FairSpec == Spec /\ \A c \in Changes : WF_vars(RunStep(c))

-----
(* Properties.                                                             *)

\* Every variable has its type.
TypeOK ==
    /\ source \in Images /\ loaded \in Images
    /\ staged \in [Changes -> Images \cup {NoValue}]
    /\ snapshot \in [Changes -> Images \cup {NoValue}]
    /\ evidence \subseteq Changes
    /\ appLock \in [Apps -> Changes \cup {NoValue}]
    /\ sourceLock \in [Sources -> Changes \cup {NoValue}]
    /\ actionLock \in [RuntimeActions -> Changes \cup {NoValue}]
    /\ active \subseteq Apps
    /\ pc \in [Changes -> Calls]
    /\ machine \in [Changes -> ApplyStates]
    /\ plan \in [Changes -> Images \cup {NoValue}]
    /\ todo \in [Changes -> SUBSET Sources]
    /\ prev \in [Changes -> Images \cup {NoValue}]
    /\ outcome \in [Changes -> Outcomes]
    /\ faults \in 0..MaxFaults
    /\ journalFaults \in 0..MaxJournalFaults
    /\ edits \in 0..MaxEdits

\* Only one apply runs per application: two runs of the same application are
\* never both past acquireApplicationLock, although the marker
\* activeApplications of a running apply is cleared by a rejected second one.
OneRunPerApplication ==
    \A c, d \in Changes :
        /\ c # d /\ AppOf[c] = AppOf[d]
        => ~(pc[c] \in Holding /\ pc[d] \in Holding)

\* No content of a change outlives the run that wrote it unless the run reports
\* it: after `rolled_back` and after a rejection (performApply throws) no source
\* file holds what the change wrote.
LeftoverIsReported ==
    \A c \in Changes, s \in Sources :
        outcome[c] \in {"rolled_back", "rejected"} => source[s] # c

\* What a run has written can be undone: as long as the run may still roll back,
\* the stored snapshot of the run holds, for every source the run has replaced,
\* a content that is not the run's own.
WritesAreUndoable ==
    \A c \in Changes, s \in Sources :
        source[s] = c /\ pc[c] \in Writing \cup RollingBack
            => snapshot[c] # NoValue /\ snapshot[c][s] # c

\* A run reports COMPLETED only when every source of the change holds the
\* change's content and the consumers were given it, unless an operator edited
\* the file meanwhile.
CompletedIsApplied ==
    [][\A c \in Changes :
         outcome[c] # "completed" /\ outcome'[c] = "completed" /\ edits = 0
            => \A s \in SourcesOf[c] :
                  /\ source[s] = c
                  /\ ActionOf[c] # "none" => loaded[s] = c]_vars

\* A single failing write, action or health check, or a single edit that makes
\* a write be refused, never ends in ROLLBACK_FAILED while the journal works.
\* The exception is the code's: rollbackAction of a build throws
\* BUILD_IDENTITY_MISSING when the run failed before its build began.
SingleFailureRollsBack ==
    \A c \in Changes :
        /\ faults + edits <= 1 /\ journalFaults = 0
        /\ outcome[c] = "rollback_failed"
        => ActionOf[c] = "build"

Promise == INSTANCE ApplyPromise
             WITH content <- source, saved <- snapshot, holder <- appLock, result <- outcome

\* The coordinator implements its promise: every step of performApply is one of
\* the abstract run, or none that can be seen in the files, the snapshots, the
\* application locks and the outcomes, whatever fails.
ImplementsPromise == Promise!PromiseSpec

\* Every run that starts ends, and ends with its locks released: no run waits
\* for ever on another's application, source or action lock.
EveryRunEnds ==
    \A c \in Changes : pc[c] # "idle" ~> pc[c] = "over"
======
