------ MODULE ApplyCoordinator_proofs ------
(* Theorems about the apply coordinator, for any set of changes,
   applications and source files and any bounds. *)
EXTENDS ApplyCoordinator, TLAPS

-----
(* Facts about the tables of the module. *)

\* Whatever call fails, the run goes on at one of its calls.
LEMMA OnErrorType ==
    \A call : OnError(call) \in {"emitNoWriteRollingBack", "emitRollingBack",
                                 "onNoWriteFailed", "onRollbackFailed"}
  BY DEF OnError

\* Every emission records a state of the machine and names a call.
LEMMA EmitsType ==
    \A e \in EmitCalls : /\ Emits[e].to \in ApplyStates
                         /\ Emits[e].next \in Calls
  BY DEF EmitCalls, Emits, ApplyStates, Calls, Holding, BeforeWrite, Writing, RollingBack, NoWriteRollingBack

(* Type correctness.  A restore reads the run's snapshot, so the types are
   inductive only together with SnapshotStored. *)

\* The calls of a run that come after its snapshot was stored.
AfterSnapshot == {"emitSnapshotted"} \cup Writing \cup RollingBack

SnapshotStored == \A c \in Changes : pc[c] \in AfterSnapshot => snapshot[c] # NoValue

TypeInv == TypeOK /\ SnapshotStored

\* After an emission, too, a run that may restore has stored its snapshot before.
LEMMA EmitsAfterSnapshot ==
    \A e \in EmitCalls :
        /\ Emits[e].next \in AfterSnapshot => e \in AfterSnapshot
        /\ OnError(e) \in AfterSnapshot => e \in AfterSnapshot
  BY DEF EmitCalls, Emits, AfterSnapshot, OnError, BeforeWrite, Writing, RollingBack, NoWriteRollingBack

\* The sets of calls, spelled out where a step needs them.
LEMMA CallSets ==
    /\ Holding \subseteq Calls
    /\ AfterSnapshot \subseteq Holding
    /\ EmitCalls \subseteq Holding
    /\ {"onRollbackFailed", "onNoWriteFailed", "finally"} \subseteq Holding
    /\ AfterSnapshot \cap {"idle", "readStaged", "acquireApplicationLock", "over",
                           "acquireSourceLock", "acquireActionLock", "captureSnapshot",
                           "emitNoWriteRollingBack", "emitNoWriteRolledBack",
                           "onRollbackFailed", "onNoWriteFailed", "finally"} = {}
  BY DEF Calls, Holding, AfterSnapshot, EmitCalls, BeforeWrite, Writing, RollingBack, NoWriteRollingBack

\* The initial state has the types and stores no snapshot.
LEMMA TypeInit == Init => TypeInv
<1> SUFFICES ASSUME Init PROVE TypeInv  OBVIOUS
<1>1. /\ source \in Images /\ loaded \in Images
      /\ pc \in [Changes -> Calls]
      /\ machine \in [Changes -> ApplyStates]
      /\ outcome \in [Changes -> Outcomes]
  BY DEF Init, Images, Contents, Calls, ApplyStates, Outcomes
<1>2. TypeOK  BY <1>1, ConstantsAssumption DEF Init, TypeOK
<1>3. SnapshotStored  BY CallSets DEF Init, SnapshotStored
<1> QED  BY <1>2, <1>3 DEF TypeInv

\* The steps of the environment keep the types.
LEMMA TypeEnvironment == TypeInv /\ Environment => TypeInv'
<1> SUFFICES ASSUME TypeInv, Environment PROVE TypeInv'  OBVIOUS
<1> USE DEF TypeInv, TypeOK, SnapshotStored, lockVars, runVars, envVars, diskVars
<1>1. CASE \E c \in Changes : Stage(c)  BY <1>1 DEF Environment, Stage
<1>2. CASE \E c \in Changes : Unstage(c)  BY <1>2 DEF Environment, Unstage
<1>3. CASE \E c \in Changes : ExpireSnapshot(c)  BY <1>3, CallSets DEF Environment, ExpireSnapshot
<1>4. CASE \E c \in Changes : Apply(c)  BY <1>4, CallSets DEF Environment, Apply, Goto, Calls
<1>5. CASE \E s \in Sources : Edit(s)  BY <1>5, ConstantsAssumption DEF Environment, Edit, Images, Contents
<1> QED  BY <1>1, <1>2, <1>3, <1>4, <1>5 DEF Environment

\* A step of a run, whatever its persistEvent does.
RunMove(c) == (\E ok \in BOOLEAN : EmittingStep(c, ok)) \/ SilentStep(c)

\* A run that hands its events to this module's journal.
LEMMA RunStepMoves ==
    ASSUME NEW c \in Changes, RunStep(c), journalFaults \in 0..MaxJournalFaults
    PROVE  RunMove(c) /\ journalFaults' \in 0..MaxJournalFaults /\ journalFaults' >= journalFaults
  BY ConstantsAssumption DEF RunStep, RunMove, PersistEvent

\* The steps of a run keep the types: one step per action.
LEMMA TypeRunMove ==
    ASSUME NEW c \in Changes, TypeInv, RunMove(c), journalFaults' \in 0..MaxJournalFaults
    PROVE  TypeInv'
<1> USE DEF TypeInv, TypeOK, SnapshotStored, lockVars, runVars, envVars, diskVars,
            Goto, Reject, Fault
<1>0. journalFaults' \in 0..MaxJournalFaults  OBVIOUS
<1>1. CASE \E ok \in BOOLEAN : AcquireApplicationLock(c, ok)
  <2>1. OnError("acquireSourceLock") = "emitNoWriteRollingBack"  BY DEF OnError, BeforeWrite
  <2>2. /\ pc' \in [Changes -> Calls]
        /\ \A d \in Changes : pc'[d] \in AfterSnapshot => pc[d] \in AfterSnapshot
    BY <1>1, <2>1, CallSets DEF AcquireApplicationLock, Calls, Holding, BeforeWrite, NoWriteRollingBack
  <2>3. appLock' \in [Apps -> Changes \cup {NoValue}]
    <3>1. appLock' = [appLock EXCEPT ![AppOf[c]] = c]  BY <1>1 DEF AcquireApplicationLock
    <3>2. appLock \in [Apps -> Changes \cup {NoValue}]  OBVIOUS
    <3> HIDE DEF TypeInv, TypeOK, SnapshotStored
    <3> QED  BY <3>1, <3>2
  <2>4. machine' \in [Changes -> ApplyStates]  BY <1>1 DEF AcquireApplicationLock, ApplyStates
  <2> QED  BY <1>0, <1>1, <2>2, <2>3, <2>4 DEF AcquireApplicationLock
<1>2. CASE \E ok \in BOOLEAN : Emit(c, ok)
  <2> PICK ok \in BOOLEAN : Emit(c, ok)  BY <1>2
  <2> DEFINE e == Emits[pc[c]]
  <2>1. /\ e.to \in ApplyStates /\ e.next \in Calls
        /\ OnError(pc[c]) \in Calls
        /\ e.next \in AfterSnapshot => pc[c] \in AfterSnapshot
        /\ OnError(pc[c]) \in AfterSnapshot => pc[c] \in AfterSnapshot
    BY EmitsType, EmitsAfterSnapshot, OnErrorType DEF Emit, Calls, Holding, RollingBack, NoWriteRollingBack
  <2>2. SourcesOf[c] \subseteq Sources  BY ConstantsAssumption
  <2>3. /\ machine' \in [Changes -> ApplyStates]
        /\ pc' \in [Changes -> Calls]
        /\ outcome' \in [Changes -> Outcomes]
        /\ todo' \in [Changes -> SUBSET Sources]
        /\ \A d \in Changes : pc'[d] \in AfterSnapshot => pc[d] \in AfterSnapshot
    BY <2>1, <2>2 DEF Emit, Outcomes
  <2> QED  BY <1>0, <2>3 DEF Emit
<1>3. CASE \E ok \in BOOLEAN : RollbackFailed(c, ok)
  BY <1>0, <1>3, CallSets, ConstantsAssumption DEF RollbackFailed, ApplyStates, Outcomes
<1>4. CASE ReadStaged(c)  BY <1>0, <1>4, CallSets, ConstantsAssumption DEF ReadStaged, Calls, Outcomes
<1>5. CASE ApplicationLockFails(c)
  BY <1>0, <1>5, CallSets, ConstantsAssumption DEF ApplicationLockFails, Calls, Outcomes
<1>6. CASE AcquireSourceLock(c)
  BY <1>0, <1>6, CallSets, ConstantsAssumption DEF AcquireSourceLock, Calls, Holding, BeforeWrite
<1>7. CASE AcquireActionLock(c)
  BY <1>0, <1>7, CallSets, ConstantsAssumption DEF AcquireActionLock, Calls, Holding, BeforeWrite
<1>8. CASE CallFails(c)
  <2>1. /\ OnError(pc[c]) \in Calls
        /\ OnError(pc[c]) \in AfterSnapshot => pc[c] \in AfterSnapshot
    BY <1>8 DEF CallFails, OnError, Calls, Holding, AfterSnapshot, BeforeWrite, Writing, RollingBack,
      NoWriteRollingBack
  <2> QED  BY <1>0, <1>8, <2>1, ConstantsAssumption DEF CallFails
<1>9. CASE CaptureSnapshot(c)
  <2>1. OnError("captureSnapshot") = "emitNoWriteRollingBack"  BY DEF OnError, BeforeWrite
  <2>2. /\ pc' \in [Changes -> Calls]
        /\ \A d \in Changes : pc'[d] \in AfterSnapshot => snapshot'[d] # NoValue
    BY <1>9, <2>1, CallSets, ConstantsAssumption DEF CaptureSnapshot, Calls, Holding, BeforeWrite, NoWriteRollingBack
  <2>3. todo' \in [Changes -> SUBSET Sources]  BY <1>9, ConstantsAssumption DEF CaptureSnapshot
  <2>4. snapshot' \in [Changes -> Images \cup {NoValue}]  BY <1>9 DEF CaptureSnapshot
  <2> QED  BY <1>0, <1>9, <2>2, <2>3, <2>4 DEF CaptureSnapshot
<1>10. CASE WriteSource(c)
  <2>1. OnError("writeSource") \in Calls  BY OnErrorType DEF Calls, Holding, RollingBack, NoWriteRollingBack
  <2>2. source' \in Images  BY <1>10 DEF WriteSource, Images, Contents
  <2>3. /\ pc' \in [Changes -> Calls]
        /\ \A d \in Changes : pc'[d] \in AfterSnapshot => pc[d] \in AfterSnapshot
    BY <1>10, <2>1 DEF WriteSource, Calls, Holding, AfterSnapshot, Writing
  <2>4. todo' \in [Changes -> SUBSET Sources] /\ faults' \in 0..MaxFaults
    BY <1>10, ConstantsAssumption DEF WriteSource
  <2> QED  BY <1>0, <1>10, <2>2, <2>3, <2>4 DEF WriteSource
<1>11. CASE RunAction(c)
  <2>1. OnError("runAction") \in Calls  BY OnErrorType DEF Calls, Holding, RollingBack, NoWriteRollingBack
  <2>2. Load(c, source) \in Images  BY DEF Load, Images
  <2>3. loaded' \in Images /\ prev' \in [Changes -> Images \cup {NoValue}]  BY <1>11, <2>2 DEF RunAction
  <2>4. /\ pc' \in [Changes -> Calls]
        /\ \A d \in Changes : pc'[d] \in AfterSnapshot => pc[d] \in AfterSnapshot
    BY <1>11, <2>1 DEF RunAction, Calls, Holding, AfterSnapshot, Writing
  <2>5. faults' \in 0..MaxFaults  BY <1>11, ConstantsAssumption DEF RunAction
  <2> QED  BY <1>0, <1>11, <2>3, <2>4, <2>5 DEF RunAction
<1>12. CASE RunHealth(c)
  BY <1>0, <1>12 DEF RunHealth, Calls, Holding, AfterSnapshot, Writing, RollingBack
<1>13. CASE RestoreSource(c)
  <2>1. OnError("restoreSnapshot") \in Calls  BY OnErrorType DEF Calls, Holding, RollingBack, NoWriteRollingBack
  <2>2. snapshot[c] \in Images  BY <1>13 DEF RestoreSource, AfterSnapshot, RollingBack
  <2>3. source' \in Images  BY <1>13, <2>2 DEF RestoreSource, Images
  <2>4. /\ pc' \in [Changes -> Calls]
        /\ \A d \in Changes : pc'[d] \in AfterSnapshot => pc[d] \in AfterSnapshot
    BY <1>13, <2>1 DEF RestoreSource, Calls, Holding, AfterSnapshot, RollingBack
  <2>5. todo' \in [Changes -> SUBSET Sources] /\ faults' \in 0..MaxFaults
    BY <1>13, ConstantsAssumption DEF RestoreSource
  <2> QED  BY <1>0, <1>13, <2>3, <2>4, <2>5 DEF RestoreSource
<1>14. CASE RollbackAction(c)
  <2>1. OnError("rollbackAction") \in Calls  BY OnErrorType DEF Calls, Holding, RollingBack, NoWriteRollingBack
  <2>2. prev[c] # NoValue => Load(c, prev[c]) \in Images  BY DEF Load, Images
  <2>3. loaded' \in Images  BY <1>14, <2>2 DEF RollbackAction
  <2>4. /\ pc' \in [Changes -> Calls]
        /\ \A d \in Changes : pc'[d] \in AfterSnapshot => pc[d] \in AfterSnapshot
    BY <1>14, <2>1 DEF RollbackAction, Calls, Holding, AfterSnapshot, RollingBack
  <2>5. faults' \in 0..MaxFaults  BY <1>14, ConstantsAssumption DEF RollbackAction
  <2> QED  BY <1>0, <1>14, <2>3, <2>4, <2>5 DEF RollbackAction
<1>15. CASE Finally(c)  BY <1>0, <1>15, CallSets, ConstantsAssumption DEF Finally, Calls
<1> QED
  BY <1>1, <1>2, <1>3, <1>4, <1>5, <1>6, <1>7, <1>8, <1>9, <1>10, <1>11, <1>12, <1>13, <1>14, <1>15 DEF RunMove,
    EmittingStep, SilentStep

LEMMA TypeRunStep == ASSUME NEW c \in Changes, TypeInv, RunStep(c) PROVE TypeInv'
  BY TypeRunMove, RunStepMoves DEF TypeInv, TypeOK

\* The types and SnapshotStored are an inductive invariant.
LEMMA TypeNext == TypeInv /\ [Next]_vars => TypeInv'
<1> SUFFICES ASSUME TypeInv, [Next]_vars PROVE TypeInv'  OBVIOUS
<1>1. CASE Environment  BY <1>1, TypeEnvironment
<1>2. CASE \E c \in Changes : RunStep(c)  BY <1>2, TypeRunStep
<1>3. CASE UNCHANGED vars
  BY <1>3 DEF TypeInv, TypeOK, SnapshotStored, vars, coordinatorVars, diskVars, lockVars, runVars, envVars
<1> QED  BY <1>1, <1>2, <1>3 DEF Next

\* Type correctness: in every state of performApply's runs, with any failures of
\* their calls, every variable has its type.
THEOREM TypeCorrect == Spec => []TypeOK
<1>1. Init => TypeInv  BY TypeInit
<1>2. TypeInv /\ [Next]_vars => TypeInv'  BY TypeNext
<1>3. TypeInv => TypeOK  BY DEF TypeInv
<1> QED  BY <1>1, <1>2, <1>3, PTL DEF Spec

(* One run per application.  The invariant that makes it inductive is that
   a run past acquireApplicationLock owns its application's lock; the
   marker activeApplications plays no part in it. *)

HoldsLock == \A c \in Changes : pc[c] \in Holding => appLock[AppOf[c]] = c

LockInv == TypeInv /\ HoldsLock

\* No step of a run but the acquisition of the lock brings it among the holders,
\* and no step but Finally takes the lock from the run that has it.
LEMMA LockRunMove ==
    ASSUME NEW c \in Changes, LockInv, RunMove(c)
    PROVE  HoldsLock'
<1> USE DEF LockInv, HoldsLock, TypeInv, TypeOK
<1>1. CASE \E ok \in BOOLEAN : AcquireApplicationLock(c, ok)
  <2>1. /\ appLock[AppOf[c]] = NoValue
        /\ appLock' = [appLock EXCEPT ![AppOf[c]] = c]
        /\ \A d \in Changes : d # c => pc'[d] = pc[d]
    BY <1>1 DEF AcquireApplicationLock, Goto
  <2>2. AppOf[c] \in Apps /\ NoValue \notin Changes  BY ConstantsAssumption
  <2>3. appLock'[AppOf[c]] = c  BY <2>1, <2>2
  <2>4. ASSUME NEW d \in Changes, d # c, pc'[d] \in Holding
        PROVE  appLock'[AppOf[d]] = d
    <3>1. appLock[AppOf[d]] = d  BY <2>1, <2>4
    <3>2. AppOf[d] # AppOf[c]  BY <2>1, <2>2, <3>1
    <3> QED  BY <2>1, <3>1, <3>2
  <2> QED  BY <2>3, <2>4
<1>2. CASE Finally(c)
  <2>1. pc' = [pc EXCEPT ![c] = "over"] /\ "over" \notin Holding
    BY <1>2 DEF Finally, Goto, Holding, BeforeWrite, Writing, RollingBack, NoWriteRollingBack
  <2>2. ASSUME NEW d \in Changes, pc'[d] \in Holding PROVE appLock'[AppOf[d]] = d
    <3>1. d # c /\ appLock[AppOf[d]] = d  BY <2>1, <2>2
    <3>2. AppOf[d] \in Apps  BY ConstantsAssumption
    <3> QED  BY <1>2, <3>1, <3>2 DEF Finally
  <2> QED  BY <2>2
<1>3. CASE /\ pc[c] \in Holding \/ pc'[c] \notin Holding
           /\ \A d \in Changes : d # c => pc'[d] = pc[d]
           /\ UNCHANGED appLock
  BY <1>3
<1>4. CASE ReadStaged(c) \/ ApplicationLockFails(c)
  BY <1>3, <1>4 DEF ReadStaged, ApplicationLockFails, Reject, Goto, Holding, BeforeWrite, Writing, RollingBack,
    NoWriteRollingBack
<1>5. CASE AcquireSourceLock(c) \/ AcquireActionLock(c) \/ CallFails(c)
           \/ CaptureSnapshot(c)
  BY <1>3, <1>5 DEF AcquireSourceLock, AcquireActionLock, CallFails, CaptureSnapshot, Goto, lockVars, Holding,
    BeforeWrite, Writing, RollingBack
<1>6. CASE WriteSource(c) \/ RunAction(c) \/ RunHealth(c)
  BY <1>3, <1>6 DEF WriteSource, RunAction, RunHealth, Goto, lockVars, Holding, Writing, RollingBack
<1>7. CASE RestoreSource(c) \/ RollbackAction(c)
  BY <1>3, <1>7 DEF RestoreSource, RollbackAction, Goto, lockVars, Holding, RollingBack
<1>8. CASE \E ok \in BOOLEAN : Emit(c, ok) \/ RollbackFailed(c, ok)
  BY <1>3, <1>8, CallSets DEF Emit, RollbackFailed, Goto, lockVars
<1> QED  BY <1>1, <1>2, <1>4, <1>5, <1>6, <1>7, <1>8 DEF RunMove, EmittingStep, SilentStep

LEMMA LockRunStep == ASSUME NEW c \in Changes, LockInv, RunStep(c) PROVE HoldsLock'
  BY LockRunMove, RunStepMoves DEF LockInv, TypeInv, TypeOK

\* Holding the application lock is inductive.
LEMMA LockNext == LockInv /\ [Next]_vars => LockInv'
<1> SUFFICES ASSUME LockInv, [Next]_vars PROVE LockInv'  OBVIOUS
<1>1. TypeInv'  BY TypeNext DEF LockInv
<1>2. CASE \E c \in Changes : RunStep(c)  BY <1>1, <1>2, LockRunStep DEF LockInv
<1>3. CASE Environment
  <2>1. /\ UNCHANGED appLock
        /\ \A c \in Changes : pc'[c] \in Holding => pc[c] \in Holding
    BY <1>3 DEF Environment, Stage, Unstage, ExpireSnapshot, Apply, Edit, Goto, lockVars, runVars, LockInv, TypeInv,
      TypeOK, Holding, BeforeWrite, Writing, RollingBack, NoWriteRollingBack
  <2> QED  BY <1>1, <2>1 DEF LockInv, HoldsLock
<1>4. CASE UNCHANGED vars  BY <1>1, <1>4 DEF LockInv, HoldsLock, vars, coordinatorVars, lockVars, runVars
<1> QED  BY <1>2, <1>3, <1>4 DEF Next

\* Only one apply runs per application, for any number of changes: whatever
\* rejected runs do to activeApplications, the application lock keeps two runs of
\* performApply apart from its acquisition to the finally block.
THEOREM OneRun == Spec => []OneRunPerApplication
<1>1. Init => LockInv
  BY TypeInit DEF Init, LockInv, HoldsLock, Holding, BeforeWrite, Writing, RollingBack, NoWriteRollingBack
<1>2. LockInv /\ [Next]_vars => LockInv'  BY LockNext
<1>3. LockInv => OneRunPerApplication  BY DEF LockInv, HoldsLock, OneRunPerApplication
<1> QED  BY <1>1, <1>2, <1>3, PTL DEF Spec

(* What a run leaves behind.  Three facts carry the induction: who may
   have written a file that still holds a change (WroteInv), what a
   snapshot that may yet be restored holds (SnapInv), and when a run has
   its outcome (OutcomeInv).  A restore may bring back the content of
   another change; the application lock is what makes that change one that
   is over and was kept. *)

Kept(c) == outcome[c] \in {"completed", "rollback_failed"}

OutcomeInv == \A c \in Changes : outcome[c] # "none" => pc[c] \in {"finally", "over"}

\* The run is at a call where a file may hold what it wrote.
MayHaveWritten(c, s) ==
    \/ pc[c] \in Writing \cup {"emitRollingBack", "onRollbackFailed"}
    \/ pc[c] = "restoreSnapshot" /\ s \in todo[c]
    \/ pc[c] \in {"finally", "over"} /\ Kept(c)

WroteInv ==
    \A c \in Changes, s \in Sources :
        source[s] = c => s \in SourcesOf[c] /\ MayHaveWritten(c, s)

SnapInv ==
    \A d \in Changes : pc[d] \in AfterSnapshot =>
        \A s \in SourcesOf[d], c \in Changes :
            snapshot[d][s] = c =>
                c # d /\ s \in SourcesOf[c] /\ pc[c] = "over" /\ Kept(c)

TodoInv == \A c \in Changes : todo[c] \subseteq SourcesOf[c]

LeftoverInv == LockInv /\ OutcomeInv /\ TodoInv /\ WroteInv /\ SnapInv

\* A step of run c that stores no snapshot keeps what the snapshots promise.
LEMMA SnapKept ==
    ASSUME NEW c \in Changes, LeftoverInv, RunStep(c),
           pc[c] # "captureSnapshot"
    PROVE  /\ SnapInv'
           /\ pc[c] # "over"
           /\ \A d \in Changes : d # c => /\ pc'[d] = pc[d]
                                          /\ outcome'[d] = outcome[d]
                                          /\ todo'[d] = todo[d]
<1> USE DEF LeftoverInv, LockInv, TypeInv, TypeOK, lockVars, runVars, envVars, diskVars,
            Goto, Reject
<1>1. /\ UNCHANGED snapshot
      /\ pc[c] # "over"
      /\ \A d \in Changes : d # c => /\ pc'[d] = pc[d]
                                     /\ outcome'[d] = outcome[d]
                                     /\ todo'[d] = todo[d]
  <2>1. CASE \E ok \in BOOLEAN : EmittingStep(c, ok)
    BY <2>1 DEF EmittingStep, AcquireApplicationLock, Emit, RollbackFailed, EmitCalls
  <2>2. CASE ReadStaged(c) \/ ApplicationLockFails(c) \/ AcquireSourceLock(c)
             \/ AcquireActionLock(c) \/ CallFails(c)
    BY <2>2 DEF ReadStaged, ApplicationLockFails, AcquireSourceLock, AcquireActionLock, CallFails
  <2>3. CASE WriteSource(c) \/ RunAction(c) \/ RunHealth(c)  BY <2>3 DEF WriteSource, RunAction, RunHealth
  <2>4. CASE RestoreSource(c) \/ RollbackAction(c) \/ Finally(c)  BY <2>4 DEF RestoreSource, RollbackAction, Finally
  <2>5. CASE CaptureSnapshot(c)  BY <2>5 DEF CaptureSnapshot
  <2> QED  BY <2>1, <2>2, <2>3, <2>4, <2>5 DEF RunStep, SilentStep
<1>2. pc'[c] \in AfterSnapshot => pc[c] \in AfterSnapshot
  <2>1. CASE \E ok \in BOOLEAN : Emit(c, ok)  BY <2>1, EmitsAfterSnapshot DEF Emit
  <2>2. CASE \E ok \in BOOLEAN : AcquireApplicationLock(c, ok)
    BY <2>2, CallSets DEF AcquireApplicationLock, OnError, BeforeWrite
  <2>3. CASE \E ok \in BOOLEAN : RollbackFailed(c, ok)  BY <2>3, CallSets DEF RollbackFailed
  <2>4. CASE ReadStaged(c) \/ ApplicationLockFails(c) \/ AcquireSourceLock(c)
             \/ AcquireActionLock(c) \/ Finally(c)
    BY <2>4, CallSets DEF ReadStaged, ApplicationLockFails, AcquireSourceLock, AcquireActionLock, Finally
  <2>5. CASE CallFails(c)
    BY <2>5 DEF CallFails, OnError, AfterSnapshot, BeforeWrite, Writing, RollingBack, NoWriteRollingBack
  <2>6. CASE WriteSource(c) \/ RunAction(c) \/ RunHealth(c)
    BY <2>6 DEF WriteSource, RunAction, RunHealth, AfterSnapshot, Writing, RollingBack
  <2>7. CASE RestoreSource(c) \/ RollbackAction(c)
    BY <2>7 DEF RestoreSource, RollbackAction, AfterSnapshot, RollingBack
  <2>8. CASE CaptureSnapshot(c)  BY <2>8 DEF CaptureSnapshot
  <2> QED  BY <2>1, <2>2, <2>3, <2>4, <2>5, <2>6, <2>7, <2>8 DEF RunStep, EmittingStep, SilentStep
<1>3. SnapInv'  BY <1>1, <1>2 DEF SnapInv, Kept
<1> QED  BY <1>1, <1>3

\* The snapshot of a run holds, of the files it is about to write, only contents
\* of changes that are over and were kept: nobody else of the application runs.
LEMMA SnapCapture ==
    ASSUME NEW c \in Changes, LeftoverInv, CaptureSnapshot(c)
    PROVE  (OutcomeInv /\ WroteInv /\ SnapInv)'
<1> USE DEF LeftoverInv, LockInv, TypeInv, TypeOK
<1>1. /\ pc[c] = "captureSnapshot"
      /\ UNCHANGED <<source, outcome>>
      /\ \A d \in Changes : d # c => /\ pc'[d] = pc[d]
                                     /\ todo'[d] = todo[d]
                                     /\ snapshot'[d] = snapshot[d]
  BY DEF CaptureSnapshot, Goto
<1>2. \A s \in Sources : source[s] # c  BY <1>1 DEF WroteInv, MayHaveWritten, Writing
<1>3. outcome[c] = "none"  BY <1>1 DEF OutcomeInv
<1>4. OutcomeInv'  BY <1>1, <1>3 DEF OutcomeInv
<1>5. WroteInv'  BY <1>1, <1>2 DEF WroteInv, MayHaveWritten, Kept
<1>6. ASSUME NEW s \in SourcesOf[c], NEW d \in Changes, source[s] = d
      PROVE  d # c /\ s \in SourcesOf[d] /\ pc[d] = "over" /\ Kept(d)
  <2>1. s \in Sources  BY ConstantsAssumption
  <2>2. d # c /\ s \in SourcesOf[d] /\ MayHaveWritten(d, s)  BY <1>2, <1>6, <2>1 DEF WroteInv
  <2>3. AppOf[d] = AppOf[c]  BY <2>2, SourceOwnership
  <2>4. pc[c] \in Holding  BY <1>1 DEF Holding, BeforeWrite
  <2>5. pc[d] \notin Holding  BY <2>2, <2>3, <2>4 DEF HoldsLock
  <2> QED  BY <2>2, <2>5 DEF MayHaveWritten, Holding, RollingBack
<1>7. pc'[c] \in AfterSnapshot => snapshot'[c] = source
  <2>1. OnError("captureSnapshot") \notin AfterSnapshot  BY CallSets DEF OnError, BeforeWrite
  <2> QED  BY <2>1 DEF CaptureSnapshot, Goto
<1>8. SnapInv'
  <2> SUFFICES ASSUME NEW d \in Changes, pc'[d] \in AfterSnapshot,
                      NEW s \in SourcesOf[d], NEW x \in Changes, snapshot'[d][s] = x
               PROVE  x # d /\ s \in SourcesOf[x] /\ pc'[x] = "over" /\ Kept(x)'
    BY DEF SnapInv
  <2>1. x # d /\ s \in SourcesOf[x] /\ pc[x] = "over" /\ Kept(x)  BY <1>1, <1>6, <1>7 DEF SnapInv
  <2>2. x # c  BY <1>1, <2>1
  <2> QED  BY <1>1, <2>1, <2>2 DEF Kept
<1> QED  BY <1>4, <1>5, <1>8

\* Every other step of a run keeps WroteInv and OutcomeInv.
LEMMA WroteRunStep ==
    ASSUME NEW c \in Changes, LeftoverInv, RunStep(c), pc[c] # "captureSnapshot"
    PROVE  (OutcomeInv /\ WroteInv)'
<1> USE DEF LeftoverInv, LockInv, TypeInv, TypeOK, lockVars, runVars, envVars, diskVars,
            Goto, Reject
<1>1. \A d \in Changes : d # c => /\ pc'[d] = pc[d]
                                  /\ outcome'[d] = outcome[d]
                                  /\ todo'[d] = todo[d]
  BY SnapKept
\* A step that writes no file: only run c's own place matters.
<1>2. ASSUME UNCHANGED source,
             outcome'[c] # "none" => pc'[c] \in {"finally", "over"},
             \A s \in Sources : source[s] = c => MayHaveWritten(c, s)'
      PROVE  (OutcomeInv /\ WroteInv)'
  BY <1>1, <1>2 DEF OutcomeInv, WroteInv, MayHaveWritten, Kept
<1>3. CASE ReadStaged(c) \/ ApplicationLockFails(c) \/ AcquireSourceLock(c)
           \/ AcquireActionLock(c) \/ (\E ok \in BOOLEAN : AcquireApplicationLock(c, ok))
  <2>1. \A s \in Sources : source[s] # c
    BY <1>3 DEF WroteInv, MayHaveWritten, Writing, ReadStaged, ApplicationLockFails, AcquireSourceLock,
      AcquireActionLock, AcquireApplicationLock
  <2> QED
    BY <1>2, <1>3, <2>1 DEF OutcomeInv, ReadStaged, ApplicationLockFails, AcquireSourceLock, AcquireActionLock,
      AcquireApplicationLock
<1>4. CASE CallFails(c)
  <2>1. \A s \in Sources : source[s] = c => MayHaveWritten(c, s)'
    BY <1>4 DEF CallFails, WroteInv, MayHaveWritten, OnError, BeforeWrite, Writing, RollingBack, NoWriteRollingBack
  <2> QED  BY <1>2, <1>4, <2>1 DEF OutcomeInv, CallFails
<1>5. CASE RunAction(c) \/ RunHealth(c) \/ RollbackAction(c)
  <2>1. \A s \in Sources : source[s] = c => MayHaveWritten(c, s)'
    BY <1>5 DEF RunAction, RunHealth, RollbackAction, WroteInv, MayHaveWritten, OnError, BeforeWrite, Writing
  <2> QED  BY <1>2, <1>5, <2>1 DEF OutcomeInv, RunAction, RunHealth, RollbackAction
<1>6. CASE \E ok \in BOOLEAN : RollbackFailed(c, ok)  BY <1>2, <1>6 DEF RollbackFailed, MayHaveWritten, Kept
<1>7. CASE Finally(c)
  <2>1. \A s \in Sources : source[s] = c => MayHaveWritten(c, s)'
    BY <1>7 DEF Finally, WroteInv, MayHaveWritten, Kept, Writing
  <2> QED  BY <1>2, <1>7, <2>1 DEF Finally
<1>8. CASE WriteSource(c)
  <2>1. pc[c] = "writeSource" /\ outcome[c] = "none" /\ outcome' = outcome  BY <1>8 DEF WriteSource, OutcomeInv
  <2>2. pc'[c] \in Writing \cup {"emitRollingBack"}  BY <1>8 DEF WriteSource, OnError, BeforeWrite, Writing
  <2>3. \A s \in Sources : source'[s] = source[s] \/ (source'[s] = c /\ s \in SourcesOf[c])
    BY <1>8, ConstantsAssumption DEF WriteSource, TodoInv, Images
  <2>4. OutcomeInv'  BY <1>1, <2>1 DEF OutcomeInv
  <2>5. WroteInv'
    <3> SUFFICES ASSUME NEW d \in Changes, NEW s \in Sources, source'[s] = d
                 PROVE  s \in SourcesOf[d] /\ MayHaveWritten(d, s)'
      BY DEF WroteInv
    <3>1. CASE d = c  BY <2>2, <2>3, <3>1 DEF WroteInv, MayHaveWritten
    <3>2. CASE d # c  BY <1>1, <2>3, <3>2 DEF WroteInv, MayHaveWritten, Kept
    <3> QED  BY <3>1, <3>2
  <2> QED  BY <2>4, <2>5
<1>9. CASE RestoreSource(c)
  <2>1. pc[c] = "restoreSnapshot" /\ outcome[c] = "none" /\ outcome' = outcome  BY <1>9 DEF RestoreSource, OutcomeInv
  <2>2. PICK r \in todo[c] :
          /\ \A s \in Sources : s # r => source'[s] = source[s]
          /\ source'[r] \in {source[r], snapshot[c][r]}
          /\ \/ /\ source'[r] = snapshot[c][r]
                /\ todo'[c] = todo[c] \ {r}
                /\ pc'[c] = IF todo[c] = {r} THEN "rollbackAction" ELSE "restoreSnapshot"
             \/ pc'[c] = "onRollbackFailed"
    <3>1. PICK r \in todo[c] :
            /\ source' \in {source, [source EXCEPT ![r] = snapshot[c][r]]}
            /\ \/ /\ source' = [source EXCEPT ![r] = snapshot[c][r]]
                  /\ todo' = [todo EXCEPT ![c] = todo[c] \ {r}]
                  /\ pc' = IF todo[c] = {r} THEN [pc EXCEPT ![c] = "rollbackAction"] ELSE pc
               \/ pc' = [pc EXCEPT ![c] = OnError("restoreSnapshot")]
      BY <1>9 DEF RestoreSource
    <3>2. OnError("restoreSnapshot") = "onRollbackFailed"  BY DEF OnError, BeforeWrite, Writing, NoWriteRollingBack
    <3>3. r \in Sources  BY <3>1
    <3>4. /\ \A s \in Sources : s # r => source'[s] = source[s]
          /\ source'[r] \in {source[r], snapshot[c][r]}
      BY <3>1, <3>3 DEF Images
    <3>5. \/ /\ source'[r] = snapshot[c][r]
             /\ todo'[c] = todo[c] \ {r}
             /\ pc'[c] = IF todo[c] = {r} THEN "rollbackAction" ELSE "restoreSnapshot"
          \/ pc'[c] = "onRollbackFailed"
      BY <2>1, <3>1, <3>2, <3>3 DEF Images
    <3> QED  BY <3>4, <3>5
  <2>3. r \in SourcesOf[c] /\ r \in Sources  BY <2>2 DEF TodoInv
  <2>4. \A x \in Changes : snapshot[c][r] = x =>
           x # c /\ r \in SourcesOf[x] /\ pc[x] = "over" /\ Kept(x)
    BY <2>1, <2>3 DEF SnapInv, AfterSnapshot, RollingBack
  <2>5. OutcomeInv'  BY <1>1, <2>1 DEF OutcomeInv
  <2>6. WroteInv'
    <3> SUFFICES ASSUME NEW d \in Changes, NEW s \in Sources, source'[s] = d
                 PROVE  s \in SourcesOf[d] /\ MayHaveWritten(d, s)'
      BY DEF WroteInv
    <3>1. CASE source[s] = d /\ d = c  BY <2>1, <2>2, <2>4, <3>1 DEF WroteInv, MayHaveWritten, Writing
    <3>2. CASE source[s] = d /\ d # c  BY <1>1, <3>2 DEF WroteInv, MayHaveWritten, Kept
    <3>3. CASE source[s] # d  BY <1>1, <2>2, <2>4, <3>3 DEF MayHaveWritten, Kept
    <3> QED  BY <3>1, <3>2, <3>3
  <2> QED  BY <2>5, <2>6
<1>10. CASE \E ok \in BOOLEAN : Emit(c, ok)
  <2> PICK ok \in BOOLEAN : Emit(c, ok)  BY <1>10
  <2> DEFINE e == Emits[pc[c]]
  <2>1. pc[c] \in EmitCalls /\ outcome[c] = "none" /\ UNCHANGED source  BY DEF Emit, OutcomeInv, EmitCalls
  <2>2. \/ /\ pc'[c] = e.next
           /\ outcome'[c] = IF e.to = "COMPLETED" THEN "completed"
                            ELSE IF e.to = "ROLLED_BACK" THEN "rolled_back" ELSE "none"
           /\ todo'[c] = IF e.next = "restoreSnapshot" THEN SourcesOf[c] ELSE todo[c]
        \/ pc'[c] = OnError(pc[c]) /\ outcome'[c] = "none"
    BY <2>1 DEF Emit
  <2>3. outcome'[c] # "none" => pc'[c] \in {"finally", "over"}  BY <2>1, <2>2 DEF EmitCalls, Emits
  <2>4. ASSUME NEW s \in Sources, source[s] = c PROVE MayHaveWritten(c, s)'
    <3>1. /\ s \in SourcesOf[c]
          /\ pc[c] \in {"emitWritten", "emitActionRunning", "emitHealthChecking",
                        "emitCompleted", "emitRollingBack"}
      BY <2>1, <2>4 DEF WroteInv, MayHaveWritten, Writing, EmitCalls
    <3>2. CASE pc'[c] = OnError(pc[c])
      BY <3>1, <3>2 DEF MayHaveWritten, OnError, BeforeWrite, Writing, NoWriteRollingBack
    <3>3. CASE pc'[c] # OnError(pc[c])  BY <2>2, <3>1, <3>3 DEF MayHaveWritten, Kept, Emits, Writing
    <3> QED  BY <3>2, <3>3
  <2> QED  BY <1>2, <2>1, <2>3, <2>4
<1> QED
  BY <1>3, <1>4, <1>5, <1>6, <1>7, <1>8, <1>9, <1>10 DEF RunStep, EmittingStep, SilentStep, CaptureSnapshot

\* No step makes a run write or restore a file its change does not touch.
LEMMA TodoRunMove ==
    ASSUME NEW c \in Changes, TypeInv, TodoInv, RunMove(c)
    PROVE  TodoInv'
<1> USE DEF TypeInv, TypeOK, TodoInv, runVars
<1>1. CASE \E ok \in BOOLEAN : EmittingStep(c, ok)
  BY <1>1 DEF EmittingStep, AcquireApplicationLock, Emit, RollbackFailed
<1>2. CASE ReadStaged(c) \/ ApplicationLockFails(c) \/ AcquireSourceLock(c)
           \/ AcquireActionLock(c) \/ CallFails(c) \/ CaptureSnapshot(c)
  BY <1>2 DEF ReadStaged, ApplicationLockFails, AcquireSourceLock, AcquireActionLock, CallFails, CaptureSnapshot,
    Reject
<1>3. CASE WriteSource(c) \/ RunAction(c) \/ RunHealth(c)  BY <1>3 DEF WriteSource, RunAction, RunHealth
<1>4. CASE RestoreSource(c) \/ RollbackAction(c) \/ Finally(c)  BY <1>4 DEF RestoreSource, RollbackAction, Finally
<1> QED  BY <1>1, <1>2, <1>3, <1>4 DEF RunMove, SilentStep

LEMMA TodoRunStep == ASSUME NEW c \in Changes, LeftoverInv, RunStep(c) PROVE TodoInv'
  BY TodoRunMove, RunStepMoves DEF LeftoverInv, LockInv, TypeInv, TypeOK

\* No run has written anything at first.
LEMMA LeftoverInit == Init => LeftoverInv
<1> SUFFICES ASSUME Init PROVE LeftoverInv  OBVIOUS
<1>1. LockInv
  BY TypeInit DEF Init, LockInv, HoldsLock, Holding, BeforeWrite, Writing, RollingBack, NoWriteRollingBack
<1>2. WroteInv  BY ConstantsAssumption DEF Init, WroteInv
<1>3. OutcomeInv /\ TodoInv /\ SnapInv  BY CallSets DEF Init, OutcomeInv, TodoInv, SnapInv
<1> QED  BY <1>1, <1>2, <1>3 DEF LeftoverInv

\* Nobody but the runs writes a change's content to a file.
LEMMA LeftoverEnvironment ==
    ASSUME LeftoverInv, Environment
    PROVE  (OutcomeInv /\ TodoInv /\ WroteInv /\ SnapInv)'
<1> USE DEF LeftoverInv, LockInv, TypeInv, TypeOK, lockVars, runVars, Goto
<1>1. /\ UNCHANGED <<outcome, todo>>
      /\ \A d \in Changes : pc'[d] = pc[d] \/ (pc[d] = "idle" /\ pc'[d] = "readStaged")
  <2>1. CASE \E c \in Changes : Apply(c)  BY <2>1 DEF Apply
  <2>2. CASE UNCHANGED runVars  BY <2>2
  <2> QED  BY <2>1, <2>2 DEF Environment, Stage, Unstage, ExpireSnapshot, Edit
<1>2. \A s \in Sources : source'[s] = source[s] \/ source'[s] \notin Changes
  <2>1. CASE \E s \in Sources : Edit(s)  BY <2>1, ConstantsAssumption DEF Edit, Images
  <2>2. CASE UNCHANGED source  BY <2>2
  <2> QED  BY <2>1, <2>2 DEF Environment, Stage, Unstage, ExpireSnapshot, Apply, diskVars
<1>3. \A d \in Changes : pc[d] \in AfterSnapshot => snapshot'[d] = snapshot[d]
  BY CallSets DEF Environment, Stage, Unstage, ExpireSnapshot, Apply, Edit, diskVars
<1>4. OutcomeInv' /\ TodoInv'  BY <1>1 DEF OutcomeInv, TodoInv
<1>5. WroteInv'  BY <1>1, <1>2 DEF WroteInv, MayHaveWritten, Kept, Writing
<1>6. SnapInv'  BY <1>1, <1>3, CallSets DEF SnapInv, Kept
<1> QED  BY <1>4, <1>5, <1>6

\* LeftoverInv is an inductive invariant.
LEMMA LeftoverNext == LeftoverInv /\ [Next]_vars => LeftoverInv'
<1> SUFFICES ASSUME LeftoverInv, [Next]_vars PROVE LeftoverInv'  OBVIOUS
<1>1. LockInv'  BY LockNext DEF LeftoverInv
<1>2. CASE Environment  BY <1>1, <1>2, LeftoverEnvironment DEF LeftoverInv
<1>3. ASSUME NEW c \in Changes, RunStep(c) PROVE LeftoverInv'
  <2>1. TodoInv'  BY <1>3, TodoRunStep
  <2>2. CASE pc[c] # "captureSnapshot"  BY <1>1, <1>3, <2>1, <2>2, SnapKept, WroteRunStep DEF LeftoverInv
  <2>3. CASE CaptureSnapshot(c)  BY <1>1, <2>1, <2>3, SnapCapture DEF LeftoverInv
  <2>4. CASE pc[c] = "captureSnapshot" /\ CallFails(c)
    <3>1. /\ pc'[c] = "emitNoWriteRollingBack"
          /\ UNCHANGED <<source, snapshot, outcome, todo>>
          /\ \A d \in Changes : d # c => pc'[d] = pc[d]
      BY <2>4 DEF CallFails, Goto, diskVars, OnError, BeforeWrite, LeftoverInv, LockInv, TypeInv, TypeOK
    <3>2. OutcomeInv'  BY <2>4, <3>1 DEF LeftoverInv, OutcomeInv
    <3>3. WroteInv'  BY <2>4, <3>1 DEF LeftoverInv, WroteInv, MayHaveWritten, Kept, Writing
    <3>4. SnapInv'  BY <2>4, <3>1, CallSets DEF LeftoverInv, SnapInv, Kept
    <3> QED  BY <1>1, <2>1, <3>2, <3>3, <3>4 DEF LeftoverInv
  <2> QED
    BY <1>3, <2>2, <2>3, <2>4 DEF RunStep, EmittingStep, SilentStep, AcquireApplicationLock, Emit, EmitCalls,
      RollbackFailed, ReadStaged, ApplicationLockFails, AcquireSourceLock, AcquireActionLock, WriteSource, RunAction,
      RunHealth, RestoreSource, RollbackAction, Finally
<1>4. CASE UNCHANGED vars
  BY <1>1, <1>4 DEF LeftoverInv, OutcomeInv, TodoInv, WroteInv, SnapInv, MayHaveWritten, Kept, vars, coordinatorVars,
    diskVars, runVars
<1> QED  BY <1>2, <1>3, <1>4 DEF Next

\* Nothing a change wrote outlives its run unreported: whatever fails, and however
\* runs of other changes interleave, a run of performApply that returns ROLLED_BACK
\* or throws leaves no file with its content.
THEOREM NoUnreportedLeftover == Spec => []LeftoverIsReported
<1>1. Init => LeftoverInv  BY LeftoverInit
<1>2. LeftoverInv /\ [Next]_vars => LeftoverInv'  BY LeftoverNext
<1>3. LeftoverInv => LeftoverIsReported
  BY DEF LeftoverInv, OutcomeInv, WroteInv, MayHaveWritten, Kept, Writing, LeftoverIsReported
<1> QED  BY <1>1, <1>2, <1>3, PTL DEF Spec

\* Every write can be undone: until a run is past its rollback, the stored
\* snapshot holds, for each file the run has replaced, a content that is not the
\* run's own.
THEOREM EveryWriteIsUndoable == Spec => []WritesAreUndoable
<1>1. Init => LeftoverInv  BY LeftoverInit
<1>2. LeftoverInv /\ [Next]_vars => LeftoverInv'  BY LeftoverNext
<1>3. LeftoverInv => WritesAreUndoable
  BY DEF LeftoverInv, LockInv, TypeInv, SnapshotStored, WroteInv, SnapInv, AfterSnapshot, WritesAreUndoable
<1> QED  BY <1>1, <1>2, <1>3, PTL DEF Spec

(* The runs keep to themselves.  Two runs that touch the same file belong
   to the same application, and the application lock lets one of them in. *)

\* What a step of run c leaves alone: the other runs, and the files, consumers
\* and snapshots c has nothing to do with.
LEMMA RunMoveFrame ==
    ASSUME NEW c \in Changes, TypeInv, TodoInv, RunMove(c)
    PROVE  /\ pc[c] \notin {"idle", "over"}
           /\ \A d \in Changes : d # c => /\ pc'[d] = pc[d] /\ machine'[d] = machine[d] /\ plan'[d] = plan[d]
                                          /\ todo'[d] = todo[d] /\ outcome'[d] = outcome[d]
                                          /\ snapshot'[d] = snapshot[d]
           /\ pc[c] \notin Holding => UNCHANGED <<source, loaded>>
           /\ \A s \in Sources : s \notin SourcesOf[c] => source'[s] = source[s] /\ loaded'[s] = loaded[s]
           /\ edits' = edits /\ faults' \in Nat /\ faults' >= faults
<1> USE DEF TypeInv, TypeOK, lockVars, runVars, envVars, diskVars, Goto, Reject
<1>1. faults \in Nat  BY ConstantsAssumption
<1>2. CASE \E ok \in BOOLEAN : EmittingStep(c, ok)
  BY <1>1, <1>2 DEF EmittingStep, AcquireApplicationLock, Emit, RollbackFailed, EmitCalls, Fault
<1>3. CASE ReadStaged(c) \/ ApplicationLockFails(c) \/ AcquireSourceLock(c) \/ AcquireActionLock(c)
           \/ CallFails(c) \/ CaptureSnapshot(c) \/ RunHealth(c) \/ Finally(c)
  BY <1>1, <1>3 DEF ReadStaged, ApplicationLockFails, AcquireSourceLock, AcquireActionLock, CallFails,
    CaptureSnapshot, RunHealth, Finally, Fault
<1>4. CASE RunAction(c) \/ RollbackAction(c)
  <2>1. \A image : \A s \in Sources : s \notin SourcesOf[c] => Load(c, image)[s] = loaded[s]  BY DEF Load
  <2>2. pc[c] \in Holding /\ UNCHANGED <<source, snapshot, machine, plan, todo, outcome, edits>>
    BY <1>4 DEF RunAction, RollbackAction, Holding, Writing, RollingBack
  <2>3. faults' \in Nat /\ faults' >= faults  BY <1>1, <1>4 DEF RunAction, RollbackAction, Fault
  <2>4. \A s \in Sources : s \notin SourcesOf[c] => loaded'[s] = loaded[s]
    BY <1>4, <2>1 DEF RunAction, RollbackAction
  <2>5. pc[c] \notin {"idle", "over"} /\ \A d \in Changes : d # c => pc'[d] = pc[d]
    BY <1>4 DEF RunAction, RollbackAction
  <2> QED BY <1>1, <2>2, <2>3, <2>4, <2>5
<1>5. CASE WriteSource(c) \/ RestoreSource(c)
  <2>1. pc[c] \in Holding \ {"idle", "over"} /\ UNCHANGED <<loaded, snapshot, machine, plan, outcome, edits>>
    BY <1>5 DEF WriteSource, RestoreSource, Holding, Writing, RollingBack
  <2>2. faults' \in Nat /\ faults' >= faults  BY <1>1, <1>5 DEF WriteSource, RestoreSource, Fault
  <2>3. \A s \in Sources : s \notin SourcesOf[c] => source'[s] = source[s]
    BY <1>5 DEF WriteSource, RestoreSource, TodoInv, Images
  <2>4. \A d \in Changes : d # c => pc'[d] = pc[d] /\ todo'[d] = todo[d]  BY <1>5 DEF WriteSource, RestoreSource
  <2> QED BY <1>1, <2>1, <2>2, <2>3, <2>4
<1> QED BY <1>2, <1>3, <1>4, <1>5 DEF RunMove, SilentStep

LEMMA RunFrame ==
    ASSUME NEW c \in Changes, TypeInv, TodoInv, RunStep(c)
    PROVE  /\ pc[c] \notin {"idle", "over"}
           /\ \A d \in Changes : d # c => /\ pc'[d] = pc[d] /\ machine'[d] = machine[d] /\ plan'[d] = plan[d]
                                          /\ todo'[d] = todo[d] /\ outcome'[d] = outcome[d]
                                          /\ snapshot'[d] = snapshot[d]
           /\ pc[c] \notin Holding => UNCHANGED <<source, loaded>>
           /\ \A s \in Sources : s \notin SourcesOf[c] => source'[s] = source[s] /\ loaded'[s] = loaded[s]
           /\ edits' = edits /\ faults' \in Nat /\ faults' >= faults /\ journalFaults' >= journalFaults
<1>1. RunMove(c) /\ journalFaults' >= journalFaults  BY RunStepMoves DEF TypeInv, TypeOK
<1> QED BY <1>1, RunMoveFrame

\* While run d is past its application lock, no step of another run touches d's
\* files or what their consumers run with.
LEMMA RunsKeepApart ==
    ASSUME NEW c \in Changes, LockInv, TodoInv, RunStep(c),
           NEW d \in Changes, d # c, pc[d] \in Holding, NEW s \in SourcesOf[d]
    PROVE  source'[s] = source[s] /\ loaded'[s] = loaded[s]
<1>1. s \in Sources  BY ConstantsAssumption
<1>2. CASE s \notin SourcesOf[c]  BY <1>1, <1>2, RunFrame DEF LockInv
<1>3. CASE pc[c] \notin Holding  BY <1>3, RunFrame DEF LockInv
<1>4. CASE s \in SourcesOf[c] /\ pc[c] \in Holding
  <2>1. AppOf[c] = AppOf[d]  BY <1>4, SourceOwnership
  <2> QED BY <1>4, <2>1 DEF LockInv, HoldsLock
<1> QED BY <1>2, <1>3, <1>4

-----
(* The coordinator implements its promise. *)

\* A lock has an owner that runs.
LockOwner == \A a \in Apps : appLock[a] # NoValue => AppOf[appLock[a]] = a /\ pc[appLock[a]] \in Holding

\* A run in its finally block has its outcome.
EndedInv == \A c \in Changes : pc[c] \in {"finally", "over"} => outcome[c] # "none"

\* What run c has written stays: the files it is through with hold its content,
\* unless an operator edited them.
Through(c) == IF pc[c] \in {"emitSnapshotted", "writeSource"} THEN SourcesOf[c] \ todo[c]
              ELSE IF pc[c] \in Writing THEN SourcesOf[c] ELSE {}
AppliedInv ==
    \A c \in Changes :
        /\ pc[c] = "emitSnapshotted" => todo[c] = SourcesOf[c]
        /\ \A s \in Through(c) : source[s] \in {c, Edited}

PromiseInv == LeftoverInv /\ LockOwner /\ EndedInv /\ AppliedInv

\* A step of a run keeps the owner of each application lock.
LEMMA LockOwnerStep == ASSUME PromiseInv, NEW c \in Changes, RunStep(c) PROVE LockOwner'
<1> USE DEF PromiseInv, LeftoverInv, LockInv, TypeInv, TypeOK
<1>0. NoValue \notin Changes /\ AppOf[c] \in Apps  BY ConstantsAssumption
<1>1. \A d \in Changes : d # c => pc'[d] = pc[d]  BY RunFrame
<1>2. CASE \E ok \in BOOLEAN : AcquireApplicationLock(c, ok)
  <2>1. appLock' = [appLock EXCEPT ![AppOf[c]] = c] /\ pc[c] = "acquireApplicationLock"
    BY <1>2 DEF AcquireApplicationLock
  <2>2. pc'[c] \in Holding
    BY <1>2 DEF AcquireApplicationLock, Goto, OnError, BeforeWrite, Holding, NoWriteRollingBack
  <2>3. pc[c] \notin Holding  BY <2>1 DEF Holding, BeforeWrite, Writing, RollingBack, NoWriteRollingBack
  <2> SUFFICES ASSUME NEW a \in Apps, appLock'[a] # NoValue
               PROVE  AppOf[appLock'[a]] = a /\ pc'[appLock'[a]] \in Holding
    BY DEF LockOwner
  <2>4. CASE a = AppOf[c]
    <3>1. appLock'[a] = c  BY <1>0, <2>1, <2>4
    <3> QED BY <2>2, <2>4, <3>1
  <2>5. CASE a # AppOf[c]
    <3>1. appLock'[a] = appLock[a]  BY <2>1, <2>5
    <3> QED BY <1>1, <2>3, <3>1 DEF LockOwner
  <2> QED BY <2>4, <2>5
<1>3. CASE Finally(c)
  <2>1. \A a \in Apps : appLock'[a] # NoValue => appLock'[a] = appLock[a] /\ appLock[a] # c  BY <1>3 DEF Finally
  <2> QED BY <1>1, <2>1 DEF LockOwner
<1>4. ASSUME UNCHANGED appLock, pc[c] \in Holding => pc'[c] \in Holding PROVE LockOwner'  BY <1>1, <1>4 DEF LockOwner
<1>5. CASE ReadStaged(c) \/ ApplicationLockFails(c)
  BY <1>4, <1>5 DEF ReadStaged, ApplicationLockFails, Holding, BeforeWrite, Writing, RollingBack, NoWriteRollingBack
<1>6. CASE AcquireSourceLock(c) \/ AcquireActionLock(c) \/ CallFails(c) \/ CaptureSnapshot(c)
  <2>1. \A call : OnError(call) \in Holding  BY OnErrorType DEF Holding, RollingBack, NoWriteRollingBack
  <2> QED
    BY <1>4, <1>6, <2>1 DEF AcquireSourceLock, AcquireActionLock, CallFails, CaptureSnapshot, Goto, lockVars, Holding,
      BeforeWrite
<1>7. CASE WriteSource(c) \/ RunAction(c) \/ RunHealth(c) \/ RestoreSource(c) \/ RollbackAction(c)
  <2>1. \A call : OnError(call) \in Holding  BY OnErrorType DEF Holding, RollingBack, NoWriteRollingBack
  <2> QED
    BY <1>4, <1>7, <2>1 DEF WriteSource, RunAction, RunHealth, RestoreSource, RollbackAction, Goto, lockVars, Holding,
      Writing, RollingBack
<1>8. CASE \E ok \in BOOLEAN : Emit(c, ok) \/ RollbackFailed(c, ok)
  <2>1. \A e \in EmitCalls : Emits[e].next \in Holding /\ OnError(e) \in Holding
    BY OnErrorType DEF EmitCalls, Emits, Holding, Writing, RollingBack, NoWriteRollingBack
  <2> QED BY <1>4, <1>8, <2>1 DEF Emit, RollbackFailed, Goto, lockVars, Holding
<1> QED BY <1>2, <1>3, <1>5, <1>6, <1>7, <1>8 DEF RunStep, EmittingStep, SilentStep

\* A step of a run keeps what an ended run left behind.
LEMMA EndedStep == ASSUME PromiseInv, NEW c \in Changes, RunStep(c) PROVE EndedInv'
<1> USE DEF PromiseInv, LeftoverInv, LockInv, TypeInv, TypeOK, Goto
<1>1. \A d \in Changes : d # c => pc'[d] = pc[d] /\ outcome'[d] = outcome[d]  BY RunFrame
<1>2. ASSUME pc'[c] \in {"finally", "over"} => outcome'[c] # "none" PROVE EndedInv'  BY <1>1, <1>2 DEF EndedInv
<1>3. CASE \E ok \in BOOLEAN : AcquireApplicationLock(c, ok) \/ RollbackFailed(c, ok)
  BY <1>2, <1>3, OnErrorType DEF AcquireApplicationLock, RollbackFailed
<1>4. CASE \E ok \in BOOLEAN : Emit(c, ok)
  <2> PICK ok \in BOOLEAN : Emit(c, ok)  BY <1>4
  <2>1. pc[c] \in EmitCalls  BY DEF Emit
  <2>2. \/ pc'[c] = Emits[pc[c]].next /\ outcome'[c] = IF Emits[pc[c]].to = "COMPLETED" THEN "completed"
                            ELSE IF Emits[pc[c]].to = "ROLLED_BACK" THEN "rolled_back" ELSE outcome[c]
        \/ pc'[c] = OnError(pc[c])
    BY DEF Emit
  <2>3. \A e \in EmitCalls : Emits[e].next \in {"finally", "over"} => Emits[e].to \in {"COMPLETED", "ROLLED_BACK"}
    BY DEF EmitCalls, Emits
  <2> QED BY <1>2, <2>1, <2>2, <2>3, OnErrorType
<1>5. CASE ReadStaged(c) \/ ApplicationLockFails(c) \/ AcquireSourceLock(c) \/ AcquireActionLock(c)
           \/ CallFails(c) \/ CaptureSnapshot(c)
  BY <1>2, <1>5, OnErrorType DEF ReadStaged, ApplicationLockFails, AcquireSourceLock, AcquireActionLock, CallFails,
    CaptureSnapshot, Reject
<1>6. CASE WriteSource(c) \/ RunAction(c) \/ RunHealth(c) \/ RestoreSource(c) \/ RollbackAction(c)
  BY <1>2, <1>6, OnErrorType DEF WriteSource, RunAction, RunHealth, RestoreSource, RollbackAction
<1>7. CASE Finally(c)  BY <1>2, <1>7 DEF Finally, EndedInv
<1> QED BY <1>3, <1>4, <1>5, <1>6, <1>7 DEF RunStep, EmittingStep, SilentStep

\* A step of a run keeps the progress of every run through its files.
LEMMA AppliedStep == ASSUME PromiseInv, NEW c \in Changes, RunStep(c) PROVE AppliedInv'
<1> USE DEF PromiseInv, LeftoverInv, LockInv, TypeInv, TypeOK, Goto
<1>1. ASSUME NEW d \in Changes, d # c
      PROVE  /\ pc'[d] = "emitSnapshotted" => todo'[d] = SourcesOf[d]
             /\ \A s \in Through(d)' : source'[s] \in {d, Edited}
  <2>1. pc'[d] = pc[d] /\ todo'[d] = todo[d] /\ Through(d)' = Through(d)  BY <1>1, RunFrame DEF Through
  <2>2. ASSUME NEW s \in Through(d) PROVE source'[s] = source[s]
    <3>1. s \in SourcesOf[d] /\ pc[d] \in Holding  BY <2>2 DEF Through, Holding, BeforeWrite, Writing
    <3> QED BY <1>1, <3>1, RunsKeepApart
  <2> QED BY <2>1, <2>2 DEF AppliedInv
<1>2. ASSUME /\ pc'[c] = "emitSnapshotted" => todo'[c] = SourcesOf[c]
             /\ \A s \in Through(c)' : source'[s] \in {c, Edited}
      PROVE  AppliedInv'
  BY <1>1, <1>2 DEF AppliedInv
<1>3. CASE pc'[c] \notin Writing \cup {"emitSnapshotted"}  BY <1>2, <1>3 DEF Through, Writing
<1>4. CASE CaptureSnapshot(c)
  <2>1. todo'[c] = SourcesOf[c]  BY <1>4, ConstantsAssumption DEF CaptureSnapshot
  <2>2. pc'[c] \in {"emitSnapshotted", "emitNoWriteRollingBack"}  BY <1>4 DEF CaptureSnapshot, OnError, BeforeWrite
  <2> QED BY <1>2, <2>1, <2>2 DEF Through, Writing
<1>5. CASE WriteSource(c)
  <2>1. PICK s \in todo[c] :
          \/ /\ source' = [source EXCEPT ![s] = c]
             /\ todo' = [todo EXCEPT ![c] = todo[c] \ {s}]
             /\ pc' = IF todo[c] = {s} THEN [pc EXCEPT ![c] = "emitWritten"] ELSE pc
          \/ pc' = [pc EXCEPT ![c] = OnError("writeSource")]
    BY <1>5 DEF WriteSource
  <2>2. CASE pc' = [pc EXCEPT ![c] = OnError("writeSource")]  BY <1>3, <2>2 DEF OnError, BeforeWrite, Writing
  <2>3. CASE /\ source' = [source EXCEPT ![s] = c]
             /\ todo' = [todo EXCEPT ![c] = todo[c] \ {s}]
             /\ pc' = IF todo[c] = {s} THEN [pc EXCEPT ![c] = "emitWritten"] ELSE pc
    <3>1. s \in Sources /\ s \in SourcesOf[c] /\ pc[c] = "writeSource"  BY <1>5, <2>1 DEF WriteSource, TodoInv
    <3>2. source'[s] = c /\ \A t \in Sources : t # s => source'[t] = source[t]  BY <2>3, <3>1 DEF Images
    <3>3. Through(c)' \subseteq Through(c) \cup {s} /\ pc'[c] # "emitSnapshotted"
      BY <2>3, <3>1 DEF Through, Writing, TodoInv
    <3>4. \A t \in Through(c) : source[t] \in {c, Edited} /\ t \in Sources
      BY ConstantsAssumption DEF AppliedInv, Through
    <3> QED BY <1>2, <3>2, <3>3, <3>4
  <2> QED BY <2>1, <2>2, <2>3
<1>6. CASE \E ok \in BOOLEAN : Emit(c, ok)
  <2> PICK ok \in BOOLEAN : Emit(c, ok)  BY <1>6
  <2>1. pc[c] \in EmitCalls /\ source' = source  BY DEF Emit, diskVars
  <2>2. CASE pc'[c] = OnError(pc[c])  BY <1>3, <2>2, OnErrorType DEF Writing
  <2>3. CASE pc'[c] = Emits[pc[c]].next /\ todo'[c] = IF Emits[pc[c]].next = "restoreSnapshot" THEN SourcesOf[c] ELSE todo[c]
    <3>1. Through(c)' \subseteq Through(c) \/ pc'[c] \notin Writing \cup {"emitSnapshotted"}
      BY <2>1, <2>3 DEF EmitCalls, Emits, Through, Writing
    <3>2. pc'[c] # "emitSnapshotted"  BY <2>1, <2>3 DEF EmitCalls, Emits
    <3> QED BY <1>2, <1>3, <2>1, <3>1, <3>2 DEF AppliedInv
  <2> QED BY <2>2, <2>3 DEF Emit
<1>7. CASE RunAction(c) \/ RunHealth(c)
  <2>1. source' = source /\ pc[c] \in {"runAction", "runHealth", "rollbackHealth"}
        /\ pc'[c] \in {"emitHealthChecking", "emitCompleted", "emitRolledBack"} \cup {OnError("runAction")}
        /\ (pc[c] = "rollbackHealth" => pc'[c] = "emitRolledBack")
    BY <1>7 DEF RunAction, RunHealth, diskVars
  <2>2. Through(c)' \subseteq Through(c) /\ pc'[c] # "emitSnapshotted"  BY <2>1, OnErrorType DEF Through, Writing
  <2> QED BY <1>2, <2>1, <2>2 DEF AppliedInv
<1>8. CASE CallFails(c) \/ ReadStaged(c) \/ ApplicationLockFails(c) \/ AcquireSourceLock(c) \/ AcquireActionLock(c)
  BY <1>3, <1>8, OnErrorType DEF CallFails, ReadStaged, ApplicationLockFails, AcquireSourceLock, AcquireActionLock,
    Reject, Writing
<1>9. CASE RestoreSource(c) \/ RollbackAction(c) \/ Finally(c)
           \/ \E ok \in BOOLEAN : AcquireApplicationLock(c, ok) \/ RollbackFailed(c, ok)
  BY <1>3, <1>9, OnErrorType DEF RestoreSource, RollbackAction, Finally, AcquireApplicationLock, RollbackFailed,
    Writing
<1> QED BY <1>4, <1>5, <1>6, <1>7, <1>8, <1>9 DEF RunStep, EmittingStep, SilentStep

\* Nor do staging, expiry, the start of a run or an edit disturb them.
LEMMA PromiseEnvironment == ASSUME PromiseInv, Environment PROVE (LockOwner /\ EndedInv /\ AppliedInv)'
<1> USE DEF PromiseInv, LeftoverInv, LockInv, TypeInv, TypeOK
<1>1. /\ UNCHANGED <<appLock, outcome, todo>>
      /\ \A d \in Changes : pc'[d] = pc[d] \/ (pc[d] = "idle" /\ pc'[d] = "readStaged")
  BY DEF Environment, Stage, Unstage, ExpireSnapshot, Apply, Edit, lockVars, runVars, Goto
<1>2. \A s \in Sources : source'[s] = source[s] \/ source'[s] = Edited
  BY DEF Environment, Stage, Unstage, ExpireSnapshot, Apply, Edit, diskVars, Images
<1>3. LockOwner'  BY <1>1 DEF LockOwner, Holding, BeforeWrite, Writing, RollingBack, NoWriteRollingBack
<1>4. EndedInv'  BY <1>1 DEF EndedInv
<1>5. AppliedInv'
  <2>1. \A d \in Changes : Through(d)' = Through(d) /\ Through(d) \subseteq Sources
    BY <1>1, ConstantsAssumption DEF Through, Writing
  <2> QED BY <1>1, <1>2, <2>1 DEF AppliedInv
<1> QED BY <1>3, <1>4, <1>5

\* The invariant of the promise is inductive.
LEMMA PromiseInvNext == PromiseInv /\ [Next]_vars => PromiseInv'
<1> SUFFICES ASSUME PromiseInv, [Next]_vars PROVE PromiseInv'  OBVIOUS
<1>1. LeftoverInv'  BY LeftoverNext DEF PromiseInv
<1>2. CASE Environment  BY <1>1, <1>2, PromiseEnvironment DEF PromiseInv
<1>3. CASE \E c \in Changes : RunStep(c)  BY <1>1, <1>3, LockOwnerStep, EndedStep, AppliedStep DEF PromiseInv
<1>4. CASE UNCHANGED vars
  BY <1>1, <1>4 DEF PromiseInv, LockOwner, EndedInv, AppliedInv, Through, vars, coordinatorVars, diskVars, lockVars, runVars
<1> QED BY <1>2, <1>3, <1>4 DEF Next

\* It holds before the first run.
LEMMA PromiseInvInit == Init => PromiseInv
<1> SUFFICES ASSUME Init PROVE PromiseInv  OBVIOUS
<1>1. LeftoverInv  BY LeftoverInit
<1> QED BY <1>1 DEF Init, PromiseInv, LockOwner, EndedInv, AppliedInv, Through, Writing

\* The steps of a run, one by one.
LEMMA RunRefines ==
    ASSUME PromiseInv, NEW c \in Changes, RunStep(c)
    PROVE  [Promise!PromiseNext]_(Promise!promiseVars)
<1> USE DEF PromiseInv, LeftoverInv, LockInv, TypeInv, TypeOK
<1>0. NoValue \notin Changes /\ AppOf[c] \in Apps /\ SourcesOf[c] \subseteq Sources  BY ConstantsAssumption
<1>1. CASE UNCHANGED <<source, snapshot, appLock, outcome>>  BY <1>1 DEF Promise!promiseVars
<1>2. pc[c] \in Holding => Promise!Holds(c)  BY DEF HoldsLock, Promise!Holds
<1>3. pc[c] \notin Holding => ~Promise!Holds(c)  BY <1>0 DEF LockOwner, Promise!Holds
<1>4. pc[c] \notin {"finally", "over"} => outcome[c] = "none"  BY DEF OutcomeInv
<1>5. CASE ReadStaged(c) \/ ApplicationLockFails(c)
  <2>1. pc[c] \in {"readStaged", "acquireApplicationLock"}  BY <1>5 DEF ReadStaged, ApplicationLockFails
  <2>2. pc[c] \notin Holding /\ \A s \in Sources : source[s] # c
    BY <2>1 DEF Holding, BeforeWrite, Writing, RollingBack, NoWriteRollingBack, WroteInv, MayHaveWritten
  <2>3. UNCHANGED <<source, snapshot, appLock>>
        /\ (UNCHANGED outcome \/ outcome' = [outcome EXCEPT ![c] = "rejected"])
    BY <1>5 DEF ReadStaged, ApplicationLockFails, Reject, diskVars
  <2>4. CASE outcome' = [outcome EXCEPT ![c] = "rejected"]
    <3>1. Promise!Refuse(c)  BY <1>3, <1>4, <2>1, <2>2, <2>3, <2>4 DEF Promise!Refuse
    <3> QED BY <3>1 DEF Promise!PromiseNext
  <2> QED BY <1>1, <2>3, <2>4
<1>6. CASE \E ok \in BOOLEAN : AcquireApplicationLock(c, ok)
  <2>1. Promise!Take(c)  BY <1>4, <1>6 DEF AcquireApplicationLock, diskVars, Promise!Take
  <2> QED BY <2>1 DEF Promise!PromiseNext
<1>7. CASE CaptureSnapshot(c)
  <2>1. pc[c] = "captureSnapshot" /\ UNCHANGED <<source, appLock, outcome>>  BY <1>7 DEF CaptureSnapshot, lockVars
  <2>2. pc[c] \in Holding /\ \A s \in Sources : source[s] # c
    BY <2>1 DEF Holding, BeforeWrite, Writing, WroteInv, MayHaveWritten
  <2>3. CASE snapshot' = [snapshot EXCEPT ![c] = source]
    <3>1. Promise!Save(c)  BY <1>2, <1>4, <2>1, <2>2, <2>3 DEF Promise!Save
    <3> QED BY <3>1 DEF Promise!PromiseNext
  <2> QED BY <1>1, <1>7, <2>1, <2>3 DEF CaptureSnapshot
<1>8. CASE WriteSource(c)
  <2>1. PICK s \in todo[c] : source' = [source EXCEPT ![s] = c] \/ source' = source  BY <1>8 DEF WriteSource
  <2>2. /\ UNCHANGED <<snapshot, appLock, outcome>> /\ pc[c] = "writeSource"
        /\ s \in SourcesOf[c] /\ s \in Sources
    BY <1>0, <1>8 DEF WriteSource, lockVars, TodoInv
  <2>3. CASE source' = [source EXCEPT ![s] = c]
    <3>1. snapshot[c] # NoValue /\ snapshot[c][s] # c  BY <2>2 DEF SnapshotStored, SnapInv, AfterSnapshot, Writing
    <3>2. pc[c] \in Holding  BY <2>2 DEF Holding, Writing
    <3>3. Promise!Put(c, s)  BY <1>2, <1>4, <2>2, <2>3, <3>1, <3>2 DEF Promise!Put
    <3> QED BY <2>2, <3>3 DEF Promise!PromiseNext
  <2> QED BY <1>1, <2>1, <2>2, <2>3
<1>9. CASE RestoreSource(c)
  <2>1. PICK s \in todo[c] : source' = [source EXCEPT ![s] = snapshot[c][s]] \/ source' = source
    BY <1>9 DEF RestoreSource
  <2>2. /\ UNCHANGED <<snapshot, appLock, outcome>> /\ pc[c] = "restoreSnapshot"
        /\ s \in SourcesOf[c] /\ s \in Sources
    BY <1>0, <1>9 DEF RestoreSource, lockVars, TodoInv
  <2>3. CASE source' = [source EXCEPT ![s] = snapshot[c][s]]
    <3>1. snapshot[c] # NoValue /\ pc[c] \in Holding  BY <2>2 DEF SnapshotStored, AfterSnapshot, RollingBack, Holding
    <3>2. Promise!GiveBack(c, s)  BY <1>2, <1>4, <2>2, <2>3, <3>1 DEF Promise!GiveBack
    <3> QED BY <2>2, <3>2 DEF Promise!PromiseNext
  <2> QED BY <1>1, <2>1, <2>2, <2>3
<1>10. CASE \E ok \in BOOLEAN : Emit(c, ok)
  <2> PICK ok \in BOOLEAN : Emit(c, ok)  BY <1>10
  <2>1. pc[c] \in EmitCalls /\ UNCHANGED <<source, snapshot, appLock>>  BY DEF Emit, diskVars, lockVars
  <2>2. \/ outcome' = outcome
        \/ Emits[pc[c]].to = "COMPLETED" /\ outcome' = [outcome EXCEPT ![c] = "completed"]
        \/ Emits[pc[c]].to = "ROLLED_BACK" /\ outcome' = [outcome EXCEPT ![c] = "rolled_back"]
    BY DEF Emit
  <2>3. pc[c] \in Holding /\ pc[c] \notin {"finally", "over"}  BY <2>1, CallSets DEF EmitCalls
  <2>4. CASE Emits[pc[c]].to = "COMPLETED" /\ outcome' = [outcome EXCEPT ![c] = "completed"]
    <3>1. pc[c] = "emitCompleted"  BY <2>1, <2>4 DEF EmitCalls, Emits
    <3>2. \A s \in SourcesOf[c] : source[s] \in {c, Edited}  BY <3>1 DEF AppliedInv, Through, Writing
    <3>3. Promise!Finish(c, "completed")  BY <1>2, <1>4, <2>1, <2>3, <2>4, <3>2 DEF Promise!Finish
    <3> QED BY <3>3 DEF Promise!PromiseNext
  <2>5. CASE Emits[pc[c]].to = "ROLLED_BACK" /\ outcome' = [outcome EXCEPT ![c] = "rolled_back"]
    <3>1. pc[c] \in {"emitRolledBack", "emitNoWriteRolledBack"}  BY <2>1, <2>5 DEF EmitCalls, Emits
    <3>2. \A s \in Sources : source[s] # c  BY <3>1 DEF WroteInv, MayHaveWritten, Writing
    <3>3. Promise!Finish(c, "rolled_back")  BY <1>2, <1>4, <2>1, <2>3, <2>5, <3>2 DEF Promise!Finish
    <3> QED BY <3>3 DEF Promise!PromiseNext
  <2> QED BY <1>1, <2>1, <2>2, <2>4, <2>5
<1>11. CASE \E ok \in BOOLEAN : RollbackFailed(c, ok)
  <2>1. /\ pc[c] \in {"onRollbackFailed", "onNoWriteFailed"} /\ outcome' = [outcome EXCEPT ![c] = "rollback_failed"]
        /\ UNCHANGED <<source, snapshot, appLock>>
    BY <1>11 DEF RollbackFailed, lockVars
  <2>2. pc[c] \in Holding  BY <2>1 DEF Holding
  <2>3. Promise!Finish(c, "rollback_failed")  BY <1>2, <1>4, <2>1, <2>2 DEF Promise!Finish
  <2> QED BY <2>3 DEF Promise!PromiseNext
<1>12. CASE Finally(c)
  <2>1. /\ pc[c] = "finally" /\ UNCHANGED <<source, snapshot, outcome>>
        /\ appLock' = [a \in Apps |-> IF appLock[a] = c THEN NoValue ELSE appLock[a]]
    BY <1>12 DEF Finally, diskVars
  <2>2. \A a \in Apps : appLock[a] = c => a = AppOf[c]  BY <1>0 DEF LockOwner
  <2>3. pc[c] \in Holding /\ appLock[AppOf[c]] = c  BY <2>1 DEF Holding, HoldsLock
  <2>4. appLock' = [appLock EXCEPT ![AppOf[c]] = NoValue]  BY <1>0, <2>1, <2>2, <2>3
  <2>5. Promise!Release(c)  BY <1>2, <2>1, <2>3, <2>4 DEF Promise!Release, EndedInv
  <2> QED BY <2>5 DEF Promise!PromiseNext
<1>13. CASE AcquireSourceLock(c) \/ AcquireActionLock(c) \/ CallFails(c)
            \/ RunAction(c) \/ RunHealth(c) \/ RollbackAction(c)
  BY <1>1, <1>13 DEF AcquireSourceLock, AcquireActionLock, CallFails, RunAction, RunHealth, RollbackAction, diskVars,
    lockVars
<1> QED BY <1>5, <1>6, <1>7, <1>8, <1>9, <1>10, <1>11, <1>12, <1>13 DEF RunStep, EmittingStep, SilentStep

\* What happens around the runs is an Alter or a Forget of the promise, or nothing.
LEMMA EnvironmentRefines == ASSUME PromiseInv, Environment PROVE [Promise!PromiseNext]_(Promise!promiseVars)
<1> USE DEF PromiseInv, LeftoverInv, LockInv, TypeInv, TypeOK
<1>1. CASE \E c \in Changes : Stage(c) \/ Unstage(c) \/ Apply(c)
  BY <1>1 DEF Stage, Unstage, Apply, diskVars, lockVars, runVars, Promise!promiseVars
<1>2. ASSUME NEW c \in Changes, ExpireSnapshot(c) PROVE Promise!Forget(c)
  <2>1. pc[c] \notin Holding
    BY <1>2 DEF ExpireSnapshot, Holding, BeforeWrite, Writing, RollingBack, NoWriteRollingBack
  <2>2. ~Promise!Holds(c)  BY <2>1, ConstantsAssumption DEF LockOwner, Promise!Holds
  <2> QED BY <1>2, <2>2 DEF ExpireSnapshot, lockVars, runVars, Promise!Forget
<1>3. ASSUME NEW s \in Sources, Edit(s) PROVE Promise!Alter(s)  BY <1>3 DEF Edit, lockVars, runVars, Promise!Alter
<1> QED BY <1>1, <1>2, <1>3 DEF Environment, Promise!PromiseNext

\* The coordinator implements ApplyPromise: whatever fails, every step of
\* performApply is a step of the abstract run or cannot be seen in the files, the
\* snapshots, the application locks and the outcomes.
THEOREM Refinement == Spec => ImplementsPromise
<1>1. Init => Promise!PromiseInit  BY DEF Init, Promise!PromiseInit
<1>2. PromiseInv /\ [Next]_vars => [Promise!PromiseNext]_(Promise!promiseVars)
  <2>1. UNCHANGED vars => UNCHANGED Promise!promiseVars
    BY DEF vars, coordinatorVars, diskVars, lockVars, runVars, Promise!promiseVars
  <2> QED BY <2>1, RunRefines, EnvironmentRefines DEF Next
<1> QED BY <1>1, <1>2, PromiseInvInit, PromiseInvNext, PTL DEF Spec, ImplementsPromise, Promise!PromiseSpec

(* What "completed" means.  Without an edit no file and no snapshot holds
   an operator's content, so the files a run is through with hold its own;
   after the action its consumers do, too, until the run ends. *)
NoEditInv ==
    edits = 0 => /\ \A s \in Sources : source[s] # Edited
                 /\ \A c \in Changes, s \in Sources : snapshot[c] # NoValue => snapshot[c][s] # Edited

LoadedInv ==
    \A c \in Changes :
        edits = 0 /\ ActionOf[c] # "none" /\ pc[c] \in {"emitHealthChecking", "runHealth", "emitCompleted"}
            => \A s \in SourcesOf[c] : loaded[s] = c

CompletedInv == PromiseInv /\ NoEditInv /\ LoadedInv

\* A step of a run keeps what unedited files hold.
LEMMA NoEditStep == ASSUME CompletedInv, NEW c \in Changes, RunStep(c) PROVE NoEditInv'
<1> USE DEF CompletedInv, PromiseInv, LeftoverInv, LockInv, TypeInv, TypeOK
<1>0. SUFFICES ASSUME edits = 0 PROVE NoEditInv'  BY RunFrame DEF NoEditInv
<1>1. edits' = edits /\ c # Edited  BY RunFrame, ConstantsAssumption
<1>2. CASE CaptureSnapshot(c)
  <2>1. UNCHANGED source /\ \A d \in Changes : snapshot'[d] = snapshot[d] \/ snapshot'[d] = source
    BY <1>2 DEF CaptureSnapshot
  <2> QED BY <1>0, <2>1 DEF NoEditInv
<1>3. CASE /\ UNCHANGED snapshot
           /\ \A s \in Sources : source'[s] \in {source[s], c} \/ (snapshot[c] # NoValue /\ source'[s] = snapshot[c][s])
  BY <1>0, <1>1, <1>3 DEF NoEditInv
<1>4. CASE WriteSource(c)
  <2>1. UNCHANGED snapshot /\ \A s \in Sources : source'[s] \in {source[s], c}  BY <1>4 DEF WriteSource, Images
  <2> QED BY <1>3, <2>1
<1>5. CASE RestoreSource(c)
  <2>1. snapshot[c] # NoValue  BY <1>5 DEF RestoreSource, SnapshotStored, AfterSnapshot, RollingBack
  <2>2. UNCHANGED snapshot /\ \A s \in Sources : source'[s] \in {source[s], snapshot[c][s]}
    BY <1>5 DEF RestoreSource, Images
  <2> QED BY <1>3, <2>1, <2>2
<1>6. CASE UNCHANGED <<source, snapshot>>  BY <1>3, <1>6
<1> QED
  BY <1>2, <1>4, <1>5, <1>6 DEF RunStep, EmittingStep, SilentStep, AcquireApplicationLock, Emit, RollbackFailed,
    ReadStaged, ApplicationLockFails, AcquireSourceLock, AcquireActionLock, CallFails, RunAction, RunHealth,
    RollbackAction, Finally, diskVars

\* A step of a run keeps what the consumers have loaded.
LEMMA LoadedStep == ASSUME CompletedInv, NEW c \in Changes, RunStep(c) PROVE LoadedInv'
<1> USE DEF CompletedInv, PromiseInv, LeftoverInv, LockInv, TypeInv, TypeOK
<1> DEFINE Ran == {"emitHealthChecking", "runHealth", "emitCompleted"}
<1>1. edits' = edits  BY RunFrame
<1>2. ASSUME NEW d \in Changes, d # c, edits = 0, ActionOf[d] # "none", pc'[d] \in Ran
      PROVE  \A s \in SourcesOf[d] : loaded'[s] = d
  <2>1. pc'[d] = pc[d]  BY <1>2, RunFrame
  <2>2. pc[d] \in Holding  BY <1>2, <2>1 DEF Holding, Writing
  <2>3. \A s \in SourcesOf[d] : loaded[s] = d  BY <1>2, <2>1 DEF LoadedInv
  <2>4. \A s \in SourcesOf[d] : loaded'[s] = loaded[s]  BY <1>2, <2>2, RunsKeepApart
  <2> QED BY ONLY <2>3, <2>4
<1>3. ASSUME edits = 0, ActionOf[c] # "none", pc'[c] \in Ran
      PROVE  \A s \in SourcesOf[c] : loaded'[s] = c
  <2>1. CASE RunAction(c)
    <3>1. loaded' = Load(c, source) /\ pc[c] = "runAction"  BY <1>3, <2>1, OnErrorType DEF RunAction, Goto
    <3>2. \A s \in SourcesOf[c] : source[s] = c /\ s \in Sources
      BY <1>3, <3>1, ConstantsAssumption DEF AppliedInv, Through, Writing, NoEditInv
    <3> QED BY <3>1, <3>2 DEF Load
  <2>2. CASE pc[c] \in Ran /\ UNCHANGED loaded  BY <1>3, <2>2 DEF LoadedInv
  <2>3. CASE \E ok \in BOOLEAN : Emit(c, ok)
    <3>1. UNCHANGED loaded /\ pc[c] \in EmitCalls
          /\ (pc'[c] = OnError(pc[c]) \/ pc'[c] = Emits[pc[c]].next)
      BY <2>3 DEF Emit, Goto, diskVars
    <3>2. OnError(pc[c]) \notin Ran  BY OnErrorType
    <3>3. \A k \in EmitCalls : Emits[k].next \in Ran => k \in Ran  BY ONLY DEF EmitCalls, Emits
    <3>4. pc[c] \in Ran  BY ONLY <1>3, <3>1, <3>2, <3>3
    <3> QED BY ONLY <2>2, <3>1, <3>4
  <2>4. CASE RunHealth(c)  BY <1>3, <2>2, <2>4 DEF RunHealth, Goto, diskVars
  <2>5. CASE \E ok \in BOOLEAN : AcquireApplicationLock(c, ok) \/ RollbackFailed(c, ok)
    BY <1>3, <2>5, OnErrorType DEF AcquireApplicationLock, RollbackFailed, Goto
  <2>6. CASE ReadStaged(c) \/ ApplicationLockFails(c) \/ AcquireSourceLock(c) \/ AcquireActionLock(c) \/ CallFails(c)
             \/ CaptureSnapshot(c) \/ Finally(c)
    BY <1>3, <2>6, OnErrorType DEF ReadStaged, ApplicationLockFails, AcquireSourceLock, AcquireActionLock, CallFails,
      CaptureSnapshot, Finally, Goto, Reject
  <2>7. CASE WriteSource(c) \/ RestoreSource(c) \/ RollbackAction(c)
    BY <1>3, <2>7, OnErrorType DEF WriteSource, RestoreSource, RollbackAction, Goto
  <2> QED BY <2>1, <2>3, <2>4, <2>5, <2>6, <2>7 DEF RunStep, EmittingStep, SilentStep
<1> QED BY <1>1, <1>2, <1>3 DEF LoadedInv

\* The invariant of completion is inductive.
LEMMA CompletedInvNext == CompletedInv /\ [Next]_vars => CompletedInv'
<1> SUFFICES ASSUME CompletedInv, [Next]_vars PROVE CompletedInv'  OBVIOUS
<1>1. PromiseInv'  BY PromiseInvNext DEF CompletedInv
<1>2. CASE \E c \in Changes : RunStep(c)  BY <1>1, <1>2, NoEditStep, LoadedStep DEF CompletedInv
<1>3. CASE Environment
  <2>1. CASE \E s \in Sources : Edit(s)
    <3>1. edits' # 0
      BY <2>1, ConstantsAssumption DEF Edit, CompletedInv, PromiseInv, LeftoverInv, LockInv, TypeInv, TypeOK
    <3> QED BY <1>1, <3>1 DEF CompletedInv, NoEditInv, LoadedInv
  <2>2. CASE \E c \in Changes : Stage(c) \/ Unstage(c) \/ ExpireSnapshot(c) \/ Apply(c)
    <3>1. /\ UNCHANGED <<source, loaded, edits>>
          /\ \A c \in Changes : snapshot'[c] = snapshot[c] \/ snapshot'[c] = NoValue
          /\ \A c \in Changes : pc'[c] = pc[c] \/ pc'[c] = "readStaged"
      BY <2>2 DEF Stage, Unstage, ExpireSnapshot, Apply, Goto, diskVars, runVars, envVars, CompletedInv, PromiseInv,
        LeftoverInv, LockInv, TypeInv, TypeOK
    <3> QED BY <1>1, <3>1 DEF CompletedInv, NoEditInv, LoadedInv
  <2> QED BY <1>3, <2>1, <2>2 DEF Environment
<1>4. CASE UNCHANGED vars
  BY <1>1, <1>4 DEF CompletedInv, NoEditInv, LoadedInv, vars, coordinatorVars, diskVars, runVars, envVars
<1> QED BY <1>2, <1>3, <1>4 DEF Next

\* It holds before the first run.
LEMMA CompletedInvInit == Init => CompletedInv
  BY PromiseInvInit, ConstantsAssumption DEF Init, CompletedInv, NoEditInv, LoadedInv

\* A run of performApply says COMPLETED only of files that hold its content and,
\* when the change has an action, of consumers that were given it; an operator's
\* edit is the only excuse.
THEOREM CompletedMeansApplied == Spec => CompletedIsApplied
<1> DEFINE P == \A c \in Changes :
                  outcome[c] # "completed" /\ outcome'[c] = "completed" /\ edits = 0
                    => \A s \in SourcesOf[c] :
                          /\ source[s] = c
                          /\ ActionOf[c] # "none" => loaded[s] = c
<1>1. CompletedInv /\ Next => P
  <2> SUFFICES ASSUME CompletedInv, Next, NEW c \in Changes,
                      outcome[c] # "completed", outcome'[c] = "completed", edits = 0,
                      NEW s \in SourcesOf[c]
               PROVE  source[s] = c /\ (ActionOf[c] # "none" => loaded[s] = c)
    OBVIOUS
  <2> USE DEF CompletedInv, PromiseInv, LeftoverInv, LockInv, TypeInv, TypeOK
  <2>1. RunStep(c)
    <3>1. ~Environment  BY DEF Environment, Stage, Unstage, ExpireSnapshot, Apply, Edit, runVars
    <3>2. PICK d \in Changes : RunStep(d)  BY <3>1 DEF Next
    <3> QED BY <3>2, RunFrame
  <2>2. \E ok \in BOOLEAN : Emit(c, ok)
    BY <2>1 DEF RunStep, EmittingStep, SilentStep, AcquireApplicationLock, RollbackFailed, ReadStaged,
      ApplicationLockFails, AcquireSourceLock, AcquireActionLock, CallFails, CaptureSnapshot, WriteSource, RunAction,
      RunHealth, RestoreSource, RollbackAction, Finally, Reject, runVars
  <2>3. pc[c] \in EmitCalls /\ Emits[pc[c]].to = "COMPLETED"  BY <2>2 DEF Emit
  <2>4. pc[c] = "emitCompleted"  BY <2>3 DEF EmitCalls, Emits
  <2>5. source[s] \in {c, Edited} /\ s \in Sources  BY <2>4, ConstantsAssumption DEF AppliedInv, Through, Writing
  <2> QED BY <2>4, <2>5 DEF NoEditInv, LoadedInv
<1>2. CompletedInv /\ [Next]_vars => [P]_vars  BY <1>1
<1> QED BY <1>2, CompletedInvInit, CompletedInvNext, PTL DEF Spec, CompletedIsApplied

(* One failure rolls back.  While the journal works, the machine of a run
   is where the run's next emission expects it, so only a failing call or
   a refused write turns a run back, and only a second one makes the
   rollback fail. *)
Turning == {"APPLYING", "SNAPSHOTTED", "WRITTEN", "ACTION_RUNNING", "HEALTH_CHECKING"}

\* The states a run's machine may be in at a call, when every event was recorded.
MachineAt(call) ==
    IF call \in BeforeWrite THEN {"APPLYING"}
    ELSE IF call \in {"writeSource", "emitWritten"} THEN {"SNAPSHOTTED"}
    ELSE IF call = "emitActionRunning" THEN {"WRITTEN"}
    ELSE IF call \in {"runAction", "emitHealthChecking"} THEN {"ACTION_RUNNING"}
    ELSE IF call \in {"runHealth", "emitCompleted"} THEN {"HEALTH_CHECKING"}
    ELSE IF call \in {"emitRollingBack", "emitNoWriteRollingBack"} THEN Turning
    ELSE IF call \in {"emitNoWriteRolledBack"} \cup RollingBack THEN {"ROLLING_BACK"}
    ELSE ApplyStates

MachineInv == journalFaults = 0 => \A c \in Changes : machine[c] \in MachineAt(pc[c])

\* The files a run has still to write are as validated, unless they were edited.
PlanInv ==
    edits = 0 => \A c \in Changes : pc[c] \in {"emitSnapshotted", "writeSource"} =>
                     \A s \in todo[c] : source[s] = plan[c][s]

\* A run that rolls back has met a failure, one that cannot has met two.
FailureInv ==
    journalFaults = 0 => \A c \in Changes :
        /\ pc[c] # "onNoWriteFailed"
        /\ ActionOf[c] # "build" =>
             /\ pc[c] \in RollingBack => faults + edits >= 1
             /\ pc[c] = "onRollbackFailed" \/ outcome[c] = "rollback_failed" => faults + edits >= 2

SingleInv == PromiseInv /\ MachineInv /\ PlanInv /\ FailureInv

\* Every emission is one the machine accepts, and leads to where the next one is.
LEMMA EmissionsFit ==
    \A e \in EmitCalls : \A m \in MachineAt(e) :
        CanTransition(m, Emits[e].to) /\ Emits[e].to \in MachineAt(Emits[e].next)
<1> SUFFICES ASSUME NEW e \in EmitCalls, NEW m \in MachineAt(e)
             PROVE  CanTransition(m, Emits[e].to) /\ Emits[e].to \in MachineAt(Emits[e].next)
  OBVIOUS
<1> USE DEF MachineAt, BeforeWrite, RollingBack, Turning, CanTransition, ApplyTransitions, ApplyStates, Emits
<1>1. CASE e \in {"emitSnapshotted", "emitWritten", "emitActionRunning"}  BY <1>1
<1>2. CASE e \in {"emitHealthChecking", "emitCompleted", "emitNoWriteRolledBack", "emitRolledBack"}  BY <1>2
<1>3. CASE e \in {"emitNoWriteRollingBack", "emitRollingBack"}  BY <1>3
<1> QED BY <1>1, <1>2, <1>3 DEF EmitCalls

\* An emission of a run whose events were all recorded is recorded, too, unless
\* the journal fails now.
LEMMA EmitGoesOn ==
    ASSUME SingleInv, NEW c \in Changes, NEW ok \in BOOLEAN, Emit(c, ok), PersistEvent(c, ok), journalFaults' = 0
    PROVE  /\ journalFaults = 0 /\ ok
           /\ machine' = [machine EXCEPT ![c] = Emits[pc[c]].to]
           /\ pc' = [pc EXCEPT ![c] = Emits[pc[c]].next]
<1> USE DEF SingleInv, PromiseInv, LeftoverInv, LockInv, TypeInv, TypeOK
<1>0. journalFaults \in Nat  BY ConstantsAssumption
<1>1. journalFaults = 0  BY <1>0 DEF PersistEvent
<1>2. pc[c] \in EmitCalls /\ machine[c] \in MachineAt(pc[c])  BY <1>1 DEF Emit, MachineInv
<1>3. CanTransition(machine[c], Emits[pc[c]].to)  BY <1>2, EmissionsFit
<1>4. EventOf(c) # "none"  BY <1>2, <1>3 DEF EventOf, EmitCalls, Emits
<1>5. ok  BY <1>0, <1>1, <1>4 DEF PersistEvent
<1> QED BY <1>1, <1>3, <1>5 DEF Emit, Goto

\* A call that emits nothing leaves the machine where the next call expects it.
LEMMA SilentFits ==
    ASSUME TypeInv, NEW c \in Changes, SilentStep(c), machine[c] \in MachineAt(pc[c])
    PROVE  machine'[c] \in MachineAt(pc'[c])
<1> USE DEF TypeInv, TypeOK, Goto
<1>1. machine[c] \in MachineAt(pc[c])  OBVIOUS
<1>5. CASE ReadStaged(c) \/ ApplicationLockFails(c) \/ Finally(c)
  <2>1. pc'[c] \in {"over", "acquireApplicationLock"} /\ machine'[c] \in ApplyStates
    BY <1>5 DEF ReadStaged, ApplicationLockFails, Finally, Reject
  <2> QED BY <2>1 DEF MachineAt, BeforeWrite, RollingBack
<1>6. CASE AcquireSourceLock(c) \/ AcquireActionLock(c) \/ CaptureSnapshot(c)
  <2>1. pc[c] \in BeforeWrite /\ machine'[c] = machine[c] /\ pc'[c] \in BeforeWrite \cup {"emitNoWriteRollingBack"}
    BY <1>6 DEF AcquireSourceLock, AcquireActionLock, CaptureSnapshot, OnError, BeforeWrite
  <2> QED BY <1>1, <2>1 DEF MachineAt, BeforeWrite, Turning
<1>7. CASE CallFails(c)
  <2>1. /\ pc[c] \in {"acquireSourceLock", "acquireActionLock", "captureSnapshot", "runHealth", "rollbackHealth"}
        /\ machine'[c] = machine[c] /\ pc'[c] = OnError(pc[c])
    BY <1>7 DEF CallFails
  <2>2. machine[c] \in ApplyStates  OBVIOUS
  <2> QED BY <1>1, <2>1, <2>2 DEF MachineAt, BeforeWrite, Turning, OnError, Writing, RollingBack, NoWriteRollingBack
<1>8. CASE WriteSource(c)
  <2>1. pc[c] = "writeSource" /\ machine'[c] = machine[c] /\ pc'[c] \in {"writeSource", "emitWritten", "emitRollingBack"}
    BY <1>8 DEF WriteSource, OnError, BeforeWrite, Writing
  <2> QED BY <1>1, <2>1 DEF MachineAt, BeforeWrite, Turning
<1>9. CASE RunAction(c)
  <2>1. pc[c] = "runAction" /\ machine'[c] = machine[c] /\ pc'[c] \in {"emitHealthChecking", "emitRollingBack"}
    BY <1>9 DEF RunAction, OnError, BeforeWrite, Writing
  <2> QED BY <1>1, <2>1 DEF MachineAt, BeforeWrite, Turning
<1>10. CASE RunHealth(c)
  <2>1. /\ machine'[c] = machine[c]
        /\ \/ pc[c] = "runHealth" /\ pc'[c] = "emitCompleted"
           \/ pc[c] = "rollbackHealth" /\ pc'[c] = "emitRolledBack"
    BY <1>10 DEF RunHealth
  <2> QED BY <1>1, <2>1 DEF MachineAt, BeforeWrite, RollingBack
<1>11. CASE RestoreSource(c) \/ RollbackAction(c)
  <2>1. /\ pc[c] \in {"restoreSnapshot", "rollbackAction"} /\ machine'[c] = machine[c]
        /\ pc'[c] \in {"restoreSnapshot", "rollbackAction", "rollbackHealth", "onRollbackFailed"}
    BY <1>11 DEF RestoreSource, RollbackAction, OnError, BeforeWrite, Writing, NoWriteRollingBack
  <2>2. machine[c] \in ApplyStates  OBVIOUS
  <2> QED BY <1>1, <2>1, <2>2 DEF MachineAt, BeforeWrite, RollingBack
<1> HIDE DEF TypeInv, TypeOK, Goto
<1> QED BY <1>5, <1>6, <1>7, <1>8, <1>9, <1>10, <1>11 DEF SilentStep

\* A step of a run keeps its machine where its calls expect it.
LEMMA MachineStep == ASSUME SingleInv, NEW c \in Changes, RunStep(c) PROVE MachineInv'
<1> USE DEF SingleInv, PromiseInv, LeftoverInv, LockInv, TypeInv, TypeOK, Goto
<1>0. SUFFICES ASSUME journalFaults' = 0 PROVE machine'[c] \in MachineAt(pc'[c])
  <2>1. journalFaults' = 0 => journalFaults = 0  BY RunFrame, ConstantsAssumption
  <2> QED BY <2>1, RunFrame DEF MachineInv
<1>1. journalFaults = 0 /\ machine[c] \in MachineAt(pc[c])  BY <1>0, RunFrame, ConstantsAssumption DEF MachineInv
<1>2. CASE \E ok \in BOOLEAN : Emit(c, ok) /\ PersistEvent(c, ok)
  <2>1. machine'[c] = Emits[pc[c]].to /\ pc'[c] = Emits[pc[c]].next /\ pc[c] \in EmitCalls
    BY <1>0, <1>2, EmitGoesOn DEF Emit
  <2> QED BY <1>1, <2>1, EmissionsFit
<1>3. CASE \E ok \in BOOLEAN : AcquireApplicationLock(c, ok)
  BY <1>3 DEF AcquireApplicationLock, OnError, MachineAt, BeforeWrite, Turning
<1>4. CASE \E ok \in BOOLEAN : RollbackFailed(c, ok)
  <2>1. pc'[c] = "finally" /\ machine'[c] \in ApplyStates  BY <1>4 DEF RollbackFailed, ApplyStates
  <2> QED BY <2>1 DEF MachineAt, BeforeWrite, RollingBack
<1>5. CASE SilentStep(c)  BY <1>1, <1>5, SilentFits
<1> HIDE DEF SingleInv, PromiseInv, LeftoverInv, LockInv, TypeInv, TypeOK, Goto
<1> QED BY <1>2, <1>3, <1>4, <1>5 DEF RunStep, EmittingStep

\* A step of a run keeps the files that are still to be written as validated.
LEMMA PlanStep == ASSUME SingleInv, NEW c \in Changes, RunStep(c) PROVE PlanInv'
<1> USE DEF SingleInv, PromiseInv, LeftoverInv, LockInv, TypeInv, TypeOK, Goto
<1> DEFINE Before == {"emitSnapshotted", "writeSource"}
<1>0. SUFFICES ASSUME edits = 0, NEW d \in Changes, pc'[d] \in Before, NEW s \in todo'[d]
               PROVE  source'[s] = plan'[d][s]
  BY RunFrame DEF PlanInv
<1>1. CASE d # c
  <2>1. pc[d] = pc'[d] /\ todo'[d] = todo[d] /\ plan'[d] = plan[d]  BY <1>1, RunFrame
  <2>2. pc[d] \in Holding /\ s \in SourcesOf[d]  BY <1>0, <2>1 DEF Holding, BeforeWrite, Writing, TodoInv
  <2> QED BY <1>0, <1>1, <2>1, <2>2, RunsKeepApart DEF PlanInv
<1>2. CASE d = c
  <2>1. CASE CaptureSnapshot(c)
    <3>1. Unchanged(c) /\ UNCHANGED <<source, plan>> /\ todo'[c] = SourcesOf[c]
      BY <1>0, <1>2, <2>1, OnErrorType DEF CaptureSnapshot
    <3> QED BY <1>0, <1>2, <3>1 DEF Unchanged
  <2>2. CASE WriteSource(c)
    <3>1. PICK t \in todo[c] :
            /\ source' = [source EXCEPT ![t] = c] /\ todo' = [todo EXCEPT ![c] = todo[c] \ {t}]
            /\ UNCHANGED plan /\ pc[c] = "writeSource"
      BY <1>0, <1>2, <2>2, OnErrorType DEF WriteSource
    <3>2. s \in todo[c] /\ s # t  BY <1>0, <1>2, <3>1
    <3> QED BY <1>0, <1>2, <3>1, <3>2 DEF PlanInv, Images
  <2>3. CASE \E ok \in BOOLEAN : Emit(c, ok)
    <3>1. /\ UNCHANGED <<source, plan>> /\ pc[c] \in EmitCalls
          /\ \/ pc'[c] = OnError(pc[c])
             \/ /\ pc'[c] = Emits[pc[c]].next
                /\ todo'[c] = IF Emits[pc[c]].next = "restoreSnapshot" THEN SourcesOf[c] ELSE todo[c]
      BY <2>3 DEF Emit, diskVars
    <3>2. pc[c] = "emitSnapshotted" /\ todo'[c] = todo[c]  BY <1>0, <1>2, <3>1, OnErrorType DEF EmitCalls, Emits
    <3> QED BY <1>0, <1>2, <3>1, <3>2 DEF PlanInv
  <2>4. CASE \E ok \in BOOLEAN : AcquireApplicationLock(c, ok) \/ RollbackFailed(c, ok)
    BY <1>0, <1>2, <2>4, OnErrorType DEF AcquireApplicationLock, RollbackFailed
  <2>5. CASE ReadStaged(c) \/ ApplicationLockFails(c) \/ AcquireSourceLock(c) \/ AcquireActionLock(c) \/ CallFails(c)
             \/ RunHealth(c) \/ Finally(c)
    BY <1>0, <1>2, <2>5, OnErrorType DEF ReadStaged, ApplicationLockFails, AcquireSourceLock, AcquireActionLock,
      CallFails, RunHealth, Finally, Reject
  <2>6. CASE RestoreSource(c) \/ RollbackAction(c) \/ RunAction(c)
    BY <1>0, <1>2, <2>6, OnErrorType DEF RestoreSource, RollbackAction, RunAction
  <2> HIDE DEF SingleInv, PromiseInv, LeftoverInv, LockInv, TypeInv, TypeOK, Goto
  <2> QED BY <2>1, <2>2, <2>3, <2>4, <2>5, <2>6 DEF RunStep, EmittingStep, SilentStep
<1> QED BY <1>1, <1>2

\* Failures met stay met.
LEMMA MetStaysMet ==
    ASSUME NEW m \in Nat, NEW n \in Nat, NEW e \in Nat, n >= m
    PROVE  /\ m + e >= 1 => n + e >= 1
           /\ m + e >= 2 => n + e >= 2
           /\ e # 0 => n + e >= 1
  OBVIOUS

\* A step of a run counts the failure that turns it back.
LEMMA FailureStep == ASSUME SingleInv, NEW c \in Changes, RunStep(c) PROVE FailureInv'
<1>a. TypeInv /\ TodoInv  BY DEF SingleInv, PromiseInv, LeftoverInv, LockInv
<1>b. faults \in Nat /\ edits \in Nat /\ journalFaults \in Nat  BY <1>a, ConstantsAssumption DEF TypeInv, TypeOK
<1>c. faults' \in Nat /\ edits' = edits /\ faults' >= faults /\ journalFaults' >= journalFaults  BY <1>a, RunFrame
<1>d. journalFaults' = 0 => journalFaults = 0  BY <1>b, <1>c
<1> USE DEF SingleInv, PromiseInv, LeftoverInv, LockInv, TypeInv, TypeOK, Goto
<1> DEFINE Safe == /\ pc'[c] # "onNoWriteFailed"
                   /\ ActionOf[c] # "build" =>
                        /\ pc'[c] \in RollingBack => faults' + edits' >= 1
                        /\ pc'[c] = "onRollbackFailed" \/ outcome'[c] = "rollback_failed" => faults' + edits' >= 2
<1>1. /\ faults \in Nat /\ edits \in Nat /\ faults' \in Nat /\ edits' = edits /\ faults' >= faults
      /\ journalFaults' = 0 => journalFaults = 0
  BY ONLY <1>b, <1>c, <1>d
<1>2. /\ faults + edits >= 1 => faults' + edits' >= 1
      /\ faults + edits >= 2 => faults' + edits' >= 2
  BY <1>1, MetStaysMet
<1>3. SUFFICES ASSUME journalFaults' = 0 PROVE Safe
  <2>1. ASSUME NEW d \in Changes, d # c, journalFaults = 0
        PROVE  /\ pc'[d] # "onNoWriteFailed"
               /\ ActionOf[d] # "build" =>
                    /\ pc'[d] \in RollingBack => faults' + edits' >= 1
                    /\ pc'[d] = "onRollbackFailed" \/ outcome'[d] = "rollback_failed" => faults' + edits' >= 2
    <3>1. pc'[d] = pc[d] /\ outcome'[d] = outcome[d]  BY <2>1, RunFrame
    <3> HIDE DEF PromiseInv
    <3> QED BY <1>2, <2>1, <3>1 DEF FailureInv
  <2> QED BY <1>1, <2>1 DEF FailureInv
<1>4. journalFaults = 0  BY <1>1, <1>3
<1>5. outcome[c] = "rollback_failed" => pc[c] \in {"finally", "over"}  BY DEF OutcomeInv
<1>6. ASSUME pc'[c] \notin RollingBack \cup {"onRollbackFailed", "onNoWriteFailed"}, outcome'[c] # "rollback_failed"
      PROVE  Safe
  BY <1>6
<1>7. CASE \E ok \in BOOLEAN : Emit(c, ok) /\ PersistEvent(c, ok)
  <2>1. PICK ok \in BOOLEAN : Emit(c, ok) /\ PersistEvent(c, ok)  BY <1>7
  <2>2. pc'[c] = Emits[pc[c]].next /\ pc[c] \in EmitCalls /\ outcome'[c] # "rollback_failed"
    <3>1. pc[c] \in EmitCalls /\ pc'[c] = Emits[pc[c]].next  BY <1>3, <2>1, EmitGoesOn DEF Emit
    <3>2. outcome'[c] \in {outcome[c], "completed", "rolled_back"}  BY <2>1 DEF Emit
    <3> QED BY <1>5, <3>1, <3>2 DEF EmitCalls
  <2>3. /\ pc'[c] \notin {"onRollbackFailed", "onNoWriteFailed"}
        /\ pc'[c] \in RollingBack => pc[c] \in RollingBack
    BY <2>2 DEF EmitCalls, Emits, RollingBack
  <2> QED BY <1>2, <1>4, <2>2, <2>3 DEF FailureInv
<1>8. CASE \E ok \in BOOLEAN : AcquireApplicationLock(c, ok)
  BY <1>5, <1>6, <1>8 DEF AcquireApplicationLock, OnError, BeforeWrite, RollingBack
<1>9. CASE \E ok \in BOOLEAN : RollbackFailed(c, ok)
  <2>1. pc[c] = "onRollbackFailed" /\ pc'[c] = "finally"  BY <1>4, <1>9 DEF RollbackFailed, FailureInv
  <2> QED BY <1>2, <1>4, <2>1 DEF FailureInv, RollingBack
<1>10. CASE ReadStaged(c) \/ ApplicationLockFails(c) \/ AcquireSourceLock(c) \/ AcquireActionLock(c) \/ CaptureSnapshot(c)
  <2>1. pc[c] \notin {"finally", "over"} /\ outcome'[c] \in {outcome[c], "rejected"}
    BY <1>10 DEF ReadStaged, ApplicationLockFails, AcquireSourceLock, AcquireActionLock, CaptureSnapshot, Reject
  <2>2. pc'[c] \in {"over", "acquireApplicationLock", "acquireSourceLock", "acquireActionLock", "captureSnapshot",
                    "emitSnapshotted", "emitNoWriteRollingBack"}
    BY <1>10 DEF ReadStaged, ApplicationLockFails, AcquireSourceLock, AcquireActionLock, CaptureSnapshot, Reject,
      OnError, BeforeWrite
  <2> QED BY <1>5, <1>6, <2>1, <2>2 DEF RollingBack
<1>11. CASE Finally(c)
  <2>1. pc[c] = "finally" /\ pc'[c] = "over" /\ outcome' = outcome  BY <1>11 DEF Finally
  <2> QED BY <1>2, <1>4, <2>1 DEF FailureInv, RollingBack
<1>12. ASSUME Fault, outcome' = outcome, pc[c] \notin {"finally", "over"},
              pc'[c] = "onRollbackFailed" => pc[c] \in RollingBack, pc'[c] # "onNoWriteFailed"
       PROVE  Safe
  <2>1. faults' = faults + 1  BY <1>12 DEF Fault
  <2>2. pc[c] \in RollingBack /\ ActionOf[c] # "build" => faults + edits >= 1  BY <1>4 DEF FailureInv
  <2> QED BY <1>1, <1>5, <1>12, <2>1, <2>2
<1>13. CASE CallFails(c)
  <2>1. Fault /\ outcome' = outcome /\ pc[c] \notin {"finally", "over"}  BY <1>13 DEF CallFails
  <2>2. (pc'[c] = "onRollbackFailed" => pc[c] \in RollingBack) /\ pc'[c] # "onNoWriteFailed"
    BY <1>13 DEF CallFails, OnError, BeforeWrite, Writing, RollingBack, NoWriteRollingBack
  <2> QED BY <1>12, <2>1, <2>2
<1>14. CASE WriteSource(c)
  <2>1. /\ pc[c] = "writeSource" /\ outcome' = outcome
        /\ pc'[c] \in {"writeSource", "emitWritten", "emitRollingBack"}
    BY <1>14 DEF WriteSource, OnError, BeforeWrite, Writing
  <2>2. CASE Fault  BY <1>12, <2>1, <2>2
  <2>3. CASE pc'[c] = "emitRollingBack" /\ ~Fault
    <3>1. \E s \in todo[c] : source[s] # plan[c][s]  BY <1>14, <2>1, <2>3 DEF WriteSource
    <3>2. edits # 0  BY <2>1, <3>1 DEF PlanInv
    <3>3. faults' + edits' >= 1  BY <1>1, <3>2, MetStaysMet
    <3>4. outcome'[c] # "rollback_failed"  BY <1>5, <2>1
    <3> HIDE DEF SingleInv
    <3> QED BY <2>3, <3>3, <3>4
  <2>4. CASE pc'[c] # "emitRollingBack"  BY <1>5, <1>6, <2>1, <2>4 DEF RollingBack
  <2> QED BY <2>2, <2>3, <2>4
<1>15. CASE RunAction(c)
  <2>1. /\ pc[c] = "runAction" /\ outcome' = outcome
        /\ pc'[c] \in {"emitHealthChecking", "emitRollingBack"}
        /\ pc'[c] = "emitHealthChecking" \/ Fault \/ ActionOf[c] = "build"
    BY <1>15 DEF RunAction, OnError, BeforeWrite, Writing
  <2> QED BY <1>5, <1>6, <1>12, <2>1 DEF RollingBack
<1>16. CASE RunHealth(c)
  <2>1. /\ outcome' = outcome
        /\ \/ pc[c] = "runHealth" /\ pc'[c] = "emitCompleted"
           \/ pc[c] = "rollbackHealth" /\ pc'[c] = "emitRolledBack"
    BY <1>16 DEF RunHealth
  <2> QED BY <1>2, <1>4, <1>5, <2>1 DEF FailureInv, RollingBack
<1>17. CASE RestoreSource(c) \/ RollbackAction(c)
  <2>1. /\ pc[c] \in RollingBack /\ pc[c] \notin {"finally", "over"} /\ outcome' = outcome
        /\ pc'[c] \in {"restoreSnapshot", "rollbackAction", "rollbackHealth", "onRollbackFailed"}
        /\ pc'[c] = "onRollbackFailed" => Fault \/ ActionOf[c] = "build"
    BY <1>17 DEF RestoreSource, RollbackAction, OnError, BeforeWrite, Writing, RollingBack, NoWriteRollingBack
  <2>2. CASE Fault  BY <1>12, <2>1, <2>2
  <2>3. CASE ~Fault  BY <1>2, <1>4, <1>5, <2>1, <2>3 DEF FailureInv, RollingBack
  <2> QED BY <2>2, <2>3
<1> QED BY <1>7, <1>8, <1>9, <1>10, <1>11, <1>13, <1>14, <1>15, <1>16, <1>17 DEF RunStep, EmittingStep, SilentStep

\* Staging, expiry, the start of a run and an edit keep all three.
LEMMA SingleEnvironment == ASSUME SingleInv, Environment PROVE (MachineInv /\ PlanInv /\ FailureInv)'
<1> USE DEF SingleInv, PromiseInv, LeftoverInv, LockInv, TypeInv, TypeOK, Goto
<1>1. /\ UNCHANGED <<machine, outcome, todo, faults, journalFaults>>
      /\ \A d \in Changes : \/ pc'[d] = pc[d] /\ plan'[d] = plan[d]
                            \/ pc[d] = "idle" /\ pc'[d] = "readStaged"
  BY DEF Environment, Stage, Unstage, ExpireSnapshot, Apply, Edit, runVars, envVars
<1>2. edits \in Nat /\ faults \in Nat /\ ((edits' = edits /\ UNCHANGED source) \/ edits' = edits + 1)
  BY ConstantsAssumption DEF Environment, Stage, Unstage, ExpireSnapshot, Apply, Edit, diskVars, envVars
<1>3. MachineInv'
  <2>1. \A d \in Changes : machine[d] \in ApplyStates  OBVIOUS
  <2> QED BY <1>1, <2>1 DEF MachineInv, MachineAt, BeforeWrite, RollingBack
<1>4. PlanInv'  BY <1>1, <1>2 DEF PlanInv
<1>5. FailureInv'  BY <1>1, <1>2 DEF FailureInv, RollingBack
<1> QED BY <1>3, <1>4, <1>5

\* The invariant of single failures is inductive.
LEMMA SingleNext == SingleInv /\ [Next]_vars => SingleInv'
<1> SUFFICES ASSUME SingleInv, [Next]_vars PROVE SingleInv'  OBVIOUS
<1>1. PromiseInv'  BY PromiseInvNext DEF SingleInv
<1>2. CASE \E c \in Changes : RunStep(c)  BY <1>1, <1>2, MachineStep, PlanStep, FailureStep DEF SingleInv
<1>3. CASE Environment  BY <1>1, <1>3, SingleEnvironment DEF SingleInv
<1>4. CASE UNCHANGED vars
  BY <1>1, <1>4 DEF SingleInv, MachineInv, PlanInv, FailureInv, vars, coordinatorVars, diskVars, runVars, envVars
<1> QED BY <1>2, <1>3, <1>4 DEF Next

\* It holds before the first run.
LEMMA SingleInit == Init => SingleInv
  BY PromiseInvInit, ConstantsAssumption DEF Init, SingleInv, MachineInv, MachineAt, PlanInv, FailureInv, BeforeWrite,
    RollingBack, ApplyStates

\* One failing call, or one edit, never ends in ROLLBACK_FAILED while the journal
\* works, whatever bounds the failures have and however the runs interleave: the
\* rollback of performApply fails only on a second one, or, for a build, because
\* the build had not begun.
THEOREM OneFailureRollsBack == Spec => []SingleFailureRollsBack
<1>1. SingleInv => SingleFailureRollsBack
  <2> SUFFICES ASSUME SingleInv, NEW c \in Changes, faults + edits <= 1, journalFaults = 0,
                      outcome[c] = "rollback_failed", ActionOf[c] # "build"
               PROVE  FALSE
    BY DEF SingleFailureRollsBack
  <2>1. faults \in Nat /\ edits \in Nat /\ faults + edits >= 2
    BY ConstantsAssumption DEF SingleInv, FailureInv, PromiseInv, LeftoverInv, LockInv, TypeInv, TypeOK
  <2> QED BY <2>1
<1> QED BY <1>1, SingleInit, SingleNext, PTL DEF Spec

======
