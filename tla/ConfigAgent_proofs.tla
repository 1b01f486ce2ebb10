------ MODULE ConfigAgent_proofs ------
(* Theorems about the config agent: its journal, its crashes, its recovery
   and its application blocks, for any set of changes, applications and
   source files and any bounds.  MinSequence is left open except where a
   property needs the journal to be readable at all. *)
EXTENDS ConfigAgent, ApplyCoordinator_proofs

-----
(* The inductive invariant. *)

RecoverySteps ==
    {"emitRollingBack", "restore", "rollbackAction", "emitRolledBack", "emitRollbackFailed"}

AgentTypeOK ==
    /\ TypeOK
    /\ draft \in [Changes -> Images \cup {NoValue}]
    /\ journal \in [Changes -> JournalRecords \cup {NoValue}]
    /\ chg \in [Changes -> ChangeRecords \cup {NoValue}]
    /\ blocked \subseteq Apps
    /\ up \in {"ready", "recovering", "down", "failed"}
    /\ queue \subseteq Changes
    /\ rec \in Changes \cup {NoValue}
    /\ recPc \in RecoverySteps \cup {"none", "resume"}
    /\ crashes \in 0..MaxCrashes
    /\ torn \subseteq Changes /\ cleared \subseteq Changes

Running(c) == pc[c] \notin {"idle", "over"}
Recorded(c) == journal[c] # NoValue
Ended(c) == journal[c] # NoValue /\ journal[c].state \in TerminalApplyStates

\* The recovery works on one change at a time, before the agent serves, and runs
\* nothing but the run it resumed.
RecoveryInv ==
    /\ rec = NoValue <=> recPc = "none"
    /\ up # "recovering" => rec = NoValue /\ queue = {}
    /\ up # "ready" => \A c \in Changes : Running(c) => up = "recovering" /\ rec = c /\ recPc = "resume"
    /\ rec # NoValue /\ recPc # "resume" => pc[rec] = "over" /\ snapshot[rec] # NoValue
    /\ \A c \in queue : c # rec /\ pc[c] = "over" /\ Recorded(c) /\ ~Ended(c)

\* A run has a record of the journal from its first event on, and the agent
\* knows the digest it will write into it.
JournalInv ==
    \A c \in Changes :
        /\ pc[c] = "idle" => ~Recorded(c)
        /\ pc[c] \in BeforeWrite \cup Writing \cup RollingBack => Recorded(c)
        /\ rec = c => Recorded(c)
        /\ Running(c) \/ c \in queue \/ rec = c => chg[c] # NoValue /\ chg[c].digest # NoValue

\* Where a run can be when its record is final: at its end, or at the emission
\* that follows a journal write that failed after it replaced the file.
EndInv ==
    \A c \in Changes : Ended(c) =>
        /\ pc[c] \in {"emitRollingBack", "onRollbackFailed", "onNoWriteFailed", "finally", "over"}
        /\ pc[c] = "emitRollingBack" => machine[c] = "COMPLETED"
        /\ rec = c => recPc \in {"resume", "emitRollbackFailed"}
        /\ journalFaults = 0 => pc[c] \in {"finally", "over"} /\ (rec = c => recPc = "resume")

\* A content of a change, in a file or in a stored snapshot, is one the journal
\* knows the run of, and the run can be undone as long as its record is not final.
ContentInv ==
    \A c \in Changes, s \in Sources :
        source[s] = c \/ (\E d \in Changes : snapshot[d] # NoValue /\ snapshot[d][s] = c)
        => Recorded(c) /\ (Ended(c) \/ snapshot[c] # NoValue)

\* As long as the journal works, the machine accepts every emission.
EventsFit ==
    journalFaults = 0 /\ JournalReadable => \A c \in Changes :
        /\ machine[c] \in MachineAt(pc[c])
        /\ pc[c] = "onRollbackFailed" => machine[c] = "ROLLING_BACK"
        /\ pc[c] # "onNoWriteFailed"

\* A failed rollback is in the journal, or the journal cannot be read and the
\* agent does not start again; and the application is blocked.
BlockInv ==
    \A c \in Changes : journalFaults = 0 /\ outcome[c] = "rollback_failed" /\ c \notin cleared =>
        /\ ~JournalReadable \/ (Recorded(c) /\ journal[c].state = "ROLLBACK_FAILED")
        /\ up \in {"ready", "recovering"} => AppOf[c] \in blocked

\* With a journal that can be read and written, a run that is over has a final
\* record unless the recovery has still to look at it.
ReconciledInv ==
    MinSequence = 0 /\ journalFaults = 0 => \A c \in Changes :
        /\ pc[c] = "finally" => Ended(c)
        /\ pc[c] \in {"readStaged", "acquireApplicationLock"} /\ Recorded(c) => rec = c
        /\ pc[c] = "over" /\ Recorded(c) /\ ~Ended(c) =>
             \/ c \in queue
             \/ rec = c /\ (recPc = "resume" => outcome[c] = "rejected")
             \/ up \in {"down", "failed"}

AgentTypes == AgentTypeOK /\ SnapshotStored /\ TodoInv
Places == RecoveryInv /\ JournalInv /\ EndInv
AgentInv == AgentTypes /\ Places /\ ContentInv /\ EventsFit /\ BlockInv /\ ReconciledInv

\* A step does not change what the record of c says of its state.
SameRecord(c) ==
    /\ Recorded(c)' = Recorded(c)
    /\ Recorded(c) => journal'[c].state = journal[c].state

\* A step writes a record of the given state for c.
Writes(c, state) == Recorded(c)' /\ journal'[c].state = state

-----
(* The journal. *)

\* What persistEvent writes is a record of the state.
LEMMA RecordForType ==
    ASSUME AgentTypeOK, NEW c \in Changes, NEW state \in ApplyStates,
           chg[c] # NoValue, chg[c].digest # NoValue
    PROVE  RecordFor(c, state) \in JournalRecords /\ RecordFor(c, state).state = state
<1>1. chg[c].digest \in Images  BY DEF AgentTypeOK, ChangeRecords
<1>2. journal[c] # NoValue => journal[c].prev \in Images \cup {NoValue} /\ journal[c].hasWrites \in BOOLEAN
  BY DEF AgentTypeOK, JournalRecords
<1>3. prev[c] \in Images \cup {NoValue}  BY DEF AgentTypeOK, TypeOK
<1>4. ((journal[c] # NoValue /\ journal[c].hasWrites) \/ state \in WroteStates) \in BOOLEAN  OBVIOUS
<1>5. (IF prev[c] # NoValue THEN prev[c] ELSE IF journal[c] # NoValue THEN journal[c].prev ELSE NoValue)
      \in Images \cup {NoValue}
  BY <1>2, <1>3
<1> QED BY <1>1, <1>4, <1>5 DEF RecordFor, JournalRecords

\* What an event does to the journal, whether it is recorded or not.
LEMMA JournalEffect ==
    ASSUME AgentTypeOK, NEW c \in Changes, NEW state \in ApplyStates, NEW ok \in BOOLEAN,
           NEW extra \in SUBSET Apps, JournalEvent(c, state, ok, extra),
           chg[c] # NoValue, chg[c].digest # NoValue
    PROVE  /\ journal' \in [Changes -> JournalRecords \cup {NoValue}]
           /\ chg' \in [Changes -> ChangeRecords \cup {NoValue}]
           /\ blocked' \subseteq Apps /\ blocked \subseteq blocked' /\ extra \subseteq blocked'
           /\ journalFaults' \in 0..MaxJournalFaults /\ journalFaults' >= journalFaults
           /\ \A d \in Changes : d # c => journal'[d] = journal[d] /\ chg'[d] = chg[d]
           /\ chg'[c] # NoValue /\ chg'[c].digest = chg[c].digest
           /\ journal'[c] = journal[c] \/ (JournalReadable /\ Writes(c, state))
           /\ ok => JournalReadable /\ Writes(c, state) /\ journalFaults' = journalFaults
           /\ ~ok => journalFaults' > 0 \/ (~JournalReadable /\ journal' = journal)
           /\ JournalReadable' => JournalReadable
<1>1. RecordFor(c, state) \in JournalRecords /\ RecordFor(c, state).state = state /\ RecordFor(c, state) # NoValue
  BY RecordForType, AgentAssumption
<1>2. JournalBlocks \subseteq Apps  BY ConstantsAssumption DEF JournalBlocks
<1>3. /\ journal' \in [Changes -> JournalRecords \cup {NoValue}]
      /\ \A d \in Changes : d # c => journal'[d] = journal[d]
      /\ journal'[c] = journal[c] \/ (JournalReadable /\ Writes(c, state))
      /\ ok => JournalReadable /\ Writes(c, state)
  <2>1. journal \in [Changes -> JournalRecords \cup {NoValue}]  BY DEF AgentTypeOK
  <2>2. journal' = journal \/ (JournalReadable /\ journal' = [journal EXCEPT ![c] = RecordFor(c, state)])
    BY DEF JournalEvent
  <2>3. ok => JournalReadable /\ journal' = [journal EXCEPT ![c] = RecordFor(c, state)]  BY DEF JournalEvent
  <2>4. journal' = [journal EXCEPT ![c] = RecordFor(c, state)] =>
          /\ journal' \in [Changes -> JournalRecords \cup {NoValue}]
          /\ \A d \in Changes : d # c => journal'[d] = journal[d]
          /\ Writes(c, state)
    BY <1>1, <2>1 DEF Writes, Recorded
  <2> QED BY <2>1, <2>2, <2>3, <2>4
<1>4. /\ chg' \in [Changes -> ChangeRecords \cup {NoValue}]
      /\ \A d \in Changes : d # c => chg'[d] = chg[d]
      /\ chg'[c] # NoValue /\ chg'[c].digest = chg[c].digest
  <2>1. chg \in [Changes -> ChangeRecords \cup {NoValue}]  BY DEF AgentTypeOK
  <2>2. PICK r : r = [chg[c] EXCEPT !.state = state]  OBVIOUS
  <2>3. chg' = [chg EXCEPT ![c] = r]  BY <2>2 DEF JournalEvent
  <2>4. chg[c] \in ChangeRecords  BY <2>1
  <2>5. r \in ChangeRecords /\ r.digest = chg[c].digest  BY <2>2, <2>4 DEF ChangeRecords
  <2>6. r # NoValue  BY <2>5, AgentAssumption
  <2> QED BY <2>1, <2>3, <2>5, <2>6
<1>5. blocked' \subseteq Apps /\ blocked \subseteq blocked' /\ extra \subseteq blocked'
  BY <1>2 DEF JournalEvent, AgentTypeOK
<1>6. /\ journalFaults' \in 0..MaxJournalFaults /\ journalFaults' >= journalFaults
      /\ ok => journalFaults' = journalFaults
      /\ ~ok => journalFaults' > 0 \/ (~JournalReadable /\ journal' = journal)
  BY ConstantsAssumption DEF JournalEvent, AgentTypeOK, TypeOK
<1>7. JournalReadable' => JournalReadable
  <2>1. CASE JournalReadable  BY <2>1
  <2>2. CASE ~JournalReadable
    <3>1. journal' = journal  BY <2>2 DEF JournalEvent
    <3> QED BY <2>2, <3>1 DEF JournalReadable
  <2> QED BY <2>1, <2>2
<1> QED BY <1>3, <1>4, <1>5, <1>6, <1>7
\* A step that leaves the states of all records alone leaves the journal readable
\* or unreadable.
LEMMA SameReadable ==
    (\A d \in Changes : SameRecord(d)) => (JournalReadable' <=> JournalReadable)
<1> SUFFICES ASSUME \A d \in Changes : SameRecord(d) PROVE JournalReadable' <=> JournalReadable  OBVIOUS
<1>1. ASSUME NEW d \in Changes
      PROVE  (journal'[d] # NoValue => Sequence(journal'[d].state) >= MinSequence) <=>
             (journal[d] # NoValue => Sequence(journal[d].state) >= MinSequence)
  BY DEF SameRecord, Recorded
<1> QED BY <1>1 DEF JournalReadable

\* A run hands an event to the journal, which records it or not.
Recording(c, ok) ==
    /\ EmittingStep(c, ok) /\ EventOf(c) # "none"
    /\ journal'[c] = journal[c] \/ (JournalReadable /\ Writes(c, EventOf(c)))
    /\ ok => JournalReadable /\ Writes(c, EventOf(c)) /\ journalFaults' = journalFaults
    /\ ~ok => journalFaults' > 0 \/ (~JournalReadable /\ journal' = journal)
    /\ BlockedBy(c) \subseteq blocked'

\* The machine of the run refuses the event.
Refused(c) ==
    /\ EmittingStep(c, FALSE) /\ EventOf(c) = "none"
    /\ journal' = journal /\ journalFaults' = journalFaults
    /\ BlockedBy(c) \subseteq blocked'

\* A call that emits nothing; a build may store the release it replaces.
Silent(c) == SilentStep(c) /\ SameRecord(c) /\ journalFaults' = journalFaults

\* What a step of a run does to the agent.
LEMMA RunEffect ==
    ASSUME AgentTypes, JournalInv, NEW c \in Changes, AgentRunStep(c)
    PROVE  /\ RunMove(c) /\ Running(c)
           /\ up \in {"ready", "recovering"}
           /\ UNCHANGED <<draft, up, queue, rec, recPc, crashes, torn, cleared>>
           /\ journal' \in [Changes -> JournalRecords \cup {NoValue}]
           /\ chg' \in [Changes -> ChangeRecords \cup {NoValue}]
           /\ blocked' \subseteq Apps /\ blocked \subseteq blocked'
           /\ journalFaults' \in 0..MaxJournalFaults /\ journalFaults' >= journalFaults
           /\ \A d \in Changes : d # c => journal'[d] = journal[d] /\ chg'[d] = chg[d]
           /\ chg'[c] # NoValue /\ chg'[c].digest = chg[c].digest
           /\ JournalReadable' => JournalReadable
           /\ (\E ok \in BOOLEAN : Recording(c, ok)) \/ Refused(c) \/ Silent(c)
<1> USE DEF AgentTypes
<1>1. RunMove(c)  BY DEF AgentRunStep, JournalledStep, BuildStep, QuietStep, RunMove, SilentStep
<1>2. Running(c)  BY <1>1, RunMoveFrame DEF AgentTypeOK, TypeInv, Running
<1>3. chg[c] # NoValue /\ chg[c].digest # NoValue  BY <1>2 DEF JournalInv
<1>4. /\ up \in {"ready", "recovering"}
      /\ UNCHANGED <<draft, up, queue, rec, recPc, crashes, torn, cleared>>
  BY DEF AgentRunStep, JournalledStep, BuildStep, QuietStep, agentVars, agentMemory, historyVars
<1>5. journalFaults \in 0..MaxJournalFaults /\ 0..MaxJournalFaults \subseteq Nat
  BY ConstantsAssumption DEF AgentTypeOK, TypeOK
<1>6. BlockedBy(c) \in SUBSET Apps  BY ConstantsAssumption DEF BlockedBy
<1>7. ASSUME NEW ok \in BOOLEAN, EmittingStep(c, ok), EventOf(c) # "none",
             JournalEvent(c, EventOf(c), ok, BlockedBy(c))
      PROVE  /\ journal' \in [Changes -> JournalRecords \cup {NoValue}]
             /\ chg' \in [Changes -> ChangeRecords \cup {NoValue}]
             /\ blocked' \subseteq Apps /\ blocked \subseteq blocked'
             /\ journalFaults' \in 0..MaxJournalFaults /\ journalFaults' >= journalFaults
             /\ \A d \in Changes : d # c => journal'[d] = journal[d] /\ chg'[d] = chg[d]
             /\ chg'[c] # NoValue /\ chg'[c].digest = chg[c].digest
             /\ JournalReadable' => JournalReadable
             /\ Recording(c, ok)
  <2>1. EventOf(c) \in ApplyStates  BY <1>7, EmitsType DEF EventOf, ApplyStates
  <2> HIDE DEF AgentTypes
  <2> QED BY <1>3, <1>6, <1>7, <2>1, JournalEffect DEF Recording, AgentTypes
<1>8. ASSUME EmittingStep(c, FALSE), EventOf(c) = "none",
             blocked' = blocked \cup BlockedBy(c), UNCHANGED <<chg, journal, journalFaults>>
      PROVE  Refused(c) /\ blocked' \subseteq Apps /\ blocked \subseteq blocked'
  BY <1>6, <1>8 DEF Refused, AgentTypeOK
<1>9. CASE JournalledStep(c)
  <2>1. CASE \E ok \in BOOLEAN : /\ EmittingStep(c, ok) /\ EventOf(c) # "none"
                               /\ JournalEvent(c, EventOf(c), ok, BlockedBy(c))
    BY <1>1, <1>2, <1>4, <1>7, <2>1
  <2>2. CASE /\ EmittingStep(c, FALSE) /\ EventOf(c) = "none"
             /\ blocked' = blocked \cup BlockedBy(c) /\ UNCHANGED <<chg, journal, journalFaults>>
    <3>1. JournalReadable' => JournalReadable  BY <2>2 DEF JournalReadable
    <3>2. journalFaults' >= journalFaults  BY <1>5, <2>2
    <3> QED BY <1>1, <1>2, <1>3, <1>4, <1>5, <1>8, <2>2, <3>1, <3>2 DEF AgentTypeOK
  <2> QED BY <1>9, <2>1, <2>2 DEF JournalledStep
<1>10. CASE BuildStep(c)
  <2>1. SilentStep(c) /\ UNCHANGED <<journalFaults, chg>> /\ Recorded(c)
    BY <1>10 DEF BuildStep, SilentStep, JournalInv, Writing
  <2>2. blocked' \subseteq Apps /\ blocked \subseteq blocked'
    BY <1>10, ConstantsAssumption DEF BuildStep, AgentTypeOK, JournalBlocks
  <2>3. /\ journal' \in [Changes -> JournalRecords \cup {NoValue}]
        /\ \A d \in Changes : d # c => journal'[d] = journal[d]
        /\ SameRecord(c)
    <3>1. journal \in [Changes -> JournalRecords \cup {NoValue}]  BY DEF AgentTypeOK
    <3>2. CASE UNCHANGED journal  BY <3>1, <3>2 DEF SameRecord, Recorded
    <3>3. CASE prev'[c] # NoValue /\ journal' = [journal EXCEPT ![c].prev = prev'[c]]
      <4>1. prev' \in [Changes -> Images \cup {NoValue}]
        <5>1. TypeInv'  BY <1>1, <1>5, <2>1, TypeRunMove DEF AgentTypeOK, TypeInv
        <5> QED BY <5>1 DEF TypeInv, TypeOK
      <4>2. PICK p \in Images : p = prev'[c]  BY <3>3, <4>1
      <4>3. PICK r : r = [journal[c] EXCEPT !.prev = p]  OBVIOUS
      <4>4. journal' = [journal EXCEPT ![c] = r]  BY <3>3, <4>2, <4>3
      <4>5. journal[c] \in JournalRecords  BY <2>1, <3>1 DEF Recorded
      <4>6. r \in JournalRecords /\ r.state = journal[c].state  BY <4>3, <4>5 DEF JournalRecords
      <4>7. r # NoValue  BY <4>6, AgentAssumption
      <4> QED BY <2>1, <3>1, <4>4, <4>6, <4>7 DEF SameRecord, Recorded
    <3> QED BY <1>10, <3>2, <3>3 DEF BuildStep
  <2>4. JournalReadable' => JournalReadable  BY <2>3, SameReadable DEF SameRecord, Recorded
  <2>5. chg' \in [Changes -> ChangeRecords \cup {NoValue}] /\ journalFaults' >= journalFaults
    BY <1>5, <2>1 DEF AgentTypeOK
  <2> QED BY <1>1, <1>2, <1>3, <1>4, <1>5, <2>1, <2>2, <2>3, <2>4, <2>5 DEF Silent
<1>11. CASE QuietStep(c)
  <2>1. SilentStep(c) /\ UNCHANGED <<journalFaults, chg, journal, blocked>>
    BY <1>11 DEF QuietStep, agentVars, agentMemory
  <2>2. SameRecord(c) /\ (JournalReadable' => JournalReadable)  BY <2>1 DEF SameRecord, Recorded, JournalReadable
  <2>3. /\ chg' \in [Changes -> ChangeRecords \cup {NoValue}] /\ journalFaults' >= journalFaults
        /\ journal' \in [Changes -> JournalRecords \cup {NoValue}] /\ blocked' \subseteq Apps
    BY <1>5, <2>1 DEF AgentTypeOK
  <2> QED BY <1>1, <1>2, <1>3, <1>4, <1>5, <2>1, <2>2, <2>3 DEF Silent
<1> QED BY <1>9, <1>10, <1>11 DEF AgentRunStep

-----
(* The calls of a run, as the agent sees them. *)

\* The calls of a run that is in the journal.
Journalled == BeforeWrite \cup Writing \cup RollingBack

LEMMA EmitsJournalled ==
    \A e \in EmitCalls :
        /\ Emits[e].next \in Journalled => e \in Journalled
        /\ OnError(e) \in Journalled => e \in Journalled
        /\ Emits[e].next # "idle" /\ OnError(e) # "idle"
  BY DEF EmitCalls, Emits, Journalled, OnError, BeforeWrite, Writing, RollingBack, NoWriteRollingBack

\* Where an emission takes the run, and the event it hands to persistEvent.
LEMMA EmitMoves ==
    ASSUME TypeOK, NEW c \in Changes, NEW ok \in BOOLEAN, EmittingStep(c, ok)
    PROVE  /\ UNCHANGED <<source, snapshot>>
           /\ \/ /\ pc[c] = "acquireApplicationLock" /\ EventOf(c) = "APPLYING"
                 /\ pc'[c] = IF ok THEN "acquireSourceLock" ELSE "emitNoWriteRollingBack"
                 /\ machine'[c] = "APPLYING" /\ outcome'[c] = outcome[c]
              \/ /\ pc[c] \in EmitCalls /\ CanTransition(machine[c], Emits[pc[c]].to)
                 /\ EventOf(c) = Emits[pc[c]].to
                 /\ pc'[c] = IF ok THEN Emits[pc[c]].next ELSE OnError(pc[c])
                 /\ machine'[c] = Emits[pc[c]].to /\ outcome'[c] \in {outcome[c], "completed", "rolled_back"}
              \/ /\ pc[c] \in EmitCalls /\ ~CanTransition(machine[c], Emits[pc[c]].to)
                 /\ EventOf(c) = "none" /\ ~ok
                 /\ pc'[c] = OnError(pc[c])
                 /\ machine'[c] = machine[c] /\ outcome'[c] = outcome[c]
              \/ /\ pc[c] \in {"onRollbackFailed", "onNoWriteFailed"}
                 /\ EventOf(c) = IF CanTransition(machine[c], "ROLLBACK_FAILED") THEN "ROLLBACK_FAILED" ELSE "none"
                 /\ pc'[c] = "finally" /\ outcome'[c] = "rollback_failed"
<1> USE DEF TypeOK, Goto
<1>1. CASE AcquireApplicationLock(c, ok)  BY <1>1 DEF AcquireApplicationLock, EventOf, OnError, BeforeWrite, diskVars
<1>2. CASE Emit(c, ok)
  <2>1. pc[c] \in EmitCalls /\ pc[c] # "acquireApplicationLock" /\ UNCHANGED <<source, snapshot>>
        /\ pc[c] \notin {"onRollbackFailed", "onNoWriteFailed"}
    BY <1>2 DEF Emit, EmitCalls, diskVars
  <2>2. EventOf(c) = IF CanTransition(machine[c], Emits[pc[c]].to) THEN Emits[pc[c]].to ELSE "none"
    BY <2>1 DEF EventOf
  <2>3. CASE CanTransition(machine[c], Emits[pc[c]].to)  BY <1>2, <2>1, <2>2, <2>3 DEF Emit
  <2>4. CASE ~CanTransition(machine[c], Emits[pc[c]].to)  BY <1>2, <2>1, <2>2, <2>4 DEF Emit
  <2> QED BY <2>3, <2>4
<1>3. CASE RollbackFailed(c, ok)
  <2>1. pc[c] \notin EmitCalls /\ pc[c] # "acquireApplicationLock"  BY <1>3 DEF RollbackFailed, EmitCalls
  <2> QED BY <1>3, <2>1 DEF RollbackFailed, EventOf
<1> QED BY <1>1, <1>2, <1>3 DEF EmittingStep

\* Where the other calls take the run.
LEMMA SilentMoves ==
    ASSUME TypeOK, SnapshotStored, NEW c \in Changes, SilentStep(c)
    PROVE  /\ pc[c] \notin EmitCalls \cup {"onRollbackFailed", "onNoWriteFailed"}
           /\ pc[c] = "finally" => pc'[c] = "over"
           /\ pc'[c] \notin {"idle", "readStaged", "finally", "onNoWriteFailed"}
           /\ pc'[c] = "acquireApplicationLock" => pc[c] = "readStaged"
           /\ pc'[c] = "onRollbackFailed" => pc[c] \in RollingBack
           /\ pc'[c] \in Journalled => pc[c] \in Journalled
           /\ \/ outcome'[c] = outcome[c] /\ (pc'[c] = "over" => pc[c] = "finally")
              \/ outcome'[c] = "rejected" /\ pc'[c] = "over" /\ pc[c] \in {"readStaged", "acquireApplicationLock"}
           /\ snapshot' = snapshot \/ snapshot' = [snapshot EXCEPT ![c] = source]
           /\ \A s \in Sources : \/ source'[s] = source[s]
                                 \/ pc[c] = "writeSource" /\ source'[s] = c
                                 \/ snapshot[c] # NoValue /\ source'[s] = snapshot[c][s]
<1> USE DEF TypeOK, Goto
<1>1. CASE ReadStaged(c) \/ ApplicationLockFails(c)
  BY <1>1 DEF ReadStaged, ApplicationLockFails, Reject, diskVars, EmitCalls, Journalled, BeforeWrite, Writing, RollingBack
<1>2. CASE AcquireSourceLock(c) \/ AcquireActionLock(c)
  BY <1>2 DEF AcquireSourceLock, AcquireActionLock, diskVars, EmitCalls, Journalled, BeforeWrite
<1>3. CASE CallFails(c)
  BY <1>3 DEF CallFails, diskVars, EmitCalls, Journalled, BeforeWrite, Writing, RollingBack, NoWriteRollingBack, OnError
<1>4. CASE CaptureSnapshot(c)
  BY <1>4 DEF CaptureSnapshot, EmitCalls, Journalled, BeforeWrite, Writing, RollingBack, OnError
<1>5. CASE WriteSource(c)
  <2>1. /\ pc[c] = "writeSource" /\ pc'[c] \in {"writeSource", "emitWritten", "emitRollingBack"}
        /\ outcome' = outcome /\ snapshot' = snapshot
    BY <1>5 DEF WriteSource, OnError, BeforeWrite, Writing
  <2>2. \A s \in Sources : source'[s] = source[s] \/ source'[s] = c  BY <1>5 DEF WriteSource, Images
  <2> QED BY <2>1, <2>2 DEF EmitCalls, Journalled, Writing, RollingBack
<1>6. CASE RunAction(c)
  <2>1. /\ pc[c] = "runAction" /\ pc'[c] \in {"emitHealthChecking", "emitRollingBack"}
        /\ UNCHANGED <<outcome, snapshot, source>>
    BY <1>6 DEF RunAction, OnError, BeforeWrite, Writing
  <2> QED BY <2>1 DEF EmitCalls, Journalled, Writing, RollingBack
<1>7. CASE RunHealth(c)  BY <1>7 DEF RunHealth, diskVars, EmitCalls, Journalled, Writing, RollingBack
<1>8. CASE RestoreSource(c)
  <2>1. /\ pc[c] = "restoreSnapshot" /\ pc'[c] \in {"restoreSnapshot", "rollbackAction", "onRollbackFailed"}
        /\ outcome' = outcome /\ snapshot' = snapshot
    BY <1>8 DEF RestoreSource, OnError, BeforeWrite, Writing, NoWriteRollingBack
  <2>2. \A s \in Sources : source'[s] = source[s] \/ source'[s] = snapshot[c][s]  BY <1>8 DEF RestoreSource, Images
  <2>3. snapshot[c] # NoValue  BY <2>1 DEF SnapshotStored, AfterSnapshot, RollingBack
  <2> QED BY <2>1, <2>2, <2>3 DEF EmitCalls, Journalled, Writing, RollingBack
<1>9. CASE RollbackAction(c)
  <2>1. /\ pc[c] = "rollbackAction" /\ pc'[c] \in {"rollbackHealth", "onRollbackFailed"}
        /\ UNCHANGED <<outcome, snapshot, source>>
    BY <1>9 DEF RollbackAction, OnError, BeforeWrite, Writing, NoWriteRollingBack
  <2> QED BY <2>1 DEF EmitCalls, Journalled, Writing, RollingBack
<1>10. CASE Finally(c)  BY <1>10 DEF Finally, diskVars, EmitCalls, Journalled, BeforeWrite, Writing, RollingBack
<1> QED BY <1>1, <1>2, <1>3, <1>4, <1>5, <1>6, <1>7, <1>8, <1>9, <1>10 DEF SilentStep

-----
(* A step of a run keeps the invariant. *)

LEMMA RunTypes == ASSUME AgentTypes, JournalInv, NEW c \in Changes, AgentRunStep(c) PROVE AgentTypes'
<1>1. /\ RunMove(c) /\ journalFaults' \in 0..MaxJournalFaults
      /\ UNCHANGED <<draft, up, queue, rec, recPc, crashes, torn, cleared>>
      /\ journal' \in [Changes -> JournalRecords \cup {NoValue}]
      /\ chg' \in [Changes -> ChangeRecords \cup {NoValue}]
      /\ blocked' \subseteq Apps
  BY RunEffect
<1>2. TypeInv' /\ TodoInv'  BY <1>1, TypeRunMove, TodoRunMove DEF AgentTypes, AgentTypeOK, TypeInv
<1> QED BY <1>1, <1>2 DEF AgentTypes, AgentTypeOK, TypeInv

\* A final record stays final, and stays as it is while the journal works.
LEMMA RunKeepsEnded ==
    ASSUME AgentTypes, Places, NEW c \in Changes, AgentRunStep(c), NEW d \in Changes, Ended(d)
    PROVE  Ended(d)' /\ (journalFaults = 0 => SameRecord(d))
<1> USE DEF AgentTypes, Places
<1>1. CASE d # c  BY <1>1, RunEffect DEF Ended, SameRecord, Recorded
<1>2. CASE d = c
  <2>1. CASE Silent(c)  BY <1>2, <2>1 DEF Silent, SameRecord, Ended, Recorded
  <2>2. CASE Refused(c)  BY <1>2, <2>2 DEF Refused, SameRecord, Ended, Recorded
  <2>3. CASE \E ok \in BOOLEAN : Recording(c, ok)
    <3> PICK ok \in BOOLEAN : Recording(c, ok)  BY <2>3
    <3>1. EmittingStep(c, ok) /\ EventOf(c) # "none"  BY DEF Recording
    <3>2. pc[c] \in {"emitRollingBack", "onRollbackFailed", "onNoWriteFailed", "finally", "over"}
          /\ (pc[c] = "emitRollingBack" => machine[c] = "COMPLETED")
          /\ (journalFaults = 0 => pc[c] \in {"finally", "over"})
      BY <1>2 DEF EndInv
    <3>3. pc[c] \in {"onRollbackFailed", "onNoWriteFailed"} /\ EventOf(c) = "ROLLBACK_FAILED"
      BY <3>1, <3>2, EmitMoves DEF AgentTypeOK, EmitCalls, Emits, CanTransition, ApplyTransitions
    <3>4. journal'[c] = journal[c] \/ Writes(c, "ROLLBACK_FAILED")  BY <3>3 DEF Recording
    <3> QED BY <1>2, <3>2, <3>3, <3>4 DEF Writes, Ended, Recorded, TerminalApplyStates
  <2> QED BY <2>1, <2>2, <2>3, RunEffect
<1> QED BY <1>1, <1>2

LEMMA RunRecovery == ASSUME AgentTypes, Places, NEW c \in Changes, AgentRunStep(c) PROVE RecoveryInv'
<1>1. /\ RunMove(c) /\ Running(c) /\ up \in {"ready", "recovering"}
      /\ UNCHANGED <<up, queue, rec, recPc>>
      /\ \A d \in Changes : d # c => journal'[d] = journal[d]
  BY RunEffect DEF Places
<1>2. \A d \in Changes : d # c => pc'[d] = pc[d] /\ snapshot'[d] = snapshot[d]
  BY <1>1, RunMoveFrame DEF AgentTypes, AgentTypeOK, TypeInv
<1>3. rec # NoValue => rec \in Changes  BY DEF AgentTypes, AgentTypeOK
<1>4. queue \subseteq Changes  BY DEF AgentTypes, AgentTypeOK
<1> QED BY <1>1, <1>2, <1>3, <1>4 DEF Places, RecoveryInv, Running, Recorded, Ended

LEMMA RunJournal == ASSUME AgentTypes, Places, NEW c \in Changes, AgentRunStep(c) PROVE JournalInv'
<1> USE DEF AgentTypes, Places
<1>1. /\ RunMove(c) /\ Running(c)
      /\ UNCHANGED <<queue, rec>>
      /\ \A d \in Changes : d # c => journal'[d] = journal[d] /\ chg'[d] = chg[d]
      /\ chg'[c] # NoValue /\ chg'[c].digest = chg[c].digest
      /\ (\E ok \in BOOLEAN : Recording(c, ok)) \/ Refused(c) \/ Silent(c)
  BY RunEffect
<1>2. \A d \in Changes : d # c => pc'[d] = pc[d]  BY <1>1, RunMoveFrame DEF AgentTypeOK, TypeInv
<1>3. chg'[c].digest # NoValue  BY <1>1 DEF JournalInv
<1>4. /\ Recorded(c) => Recorded(c)'
      /\ pc'[c] # "idle"
      /\ pc'[c] \in Journalled => Recorded(c)'
  <2>1. CASE Silent(c)
    <3>1. pc'[c] # "idle" /\ (pc'[c] \in Journalled => pc[c] \in Journalled)
      BY <2>1, SilentMoves DEF Silent, AgentTypeOK
    <3>2. Recorded(c)' = Recorded(c)  BY <2>1 DEF Silent, SameRecord
    <3> QED BY <3>1, <3>2 DEF JournalInv, Journalled
  <2>2. CASE Refused(c)
    <3>1. pc'[c] # "idle" /\ (pc'[c] \in Journalled => pc[c] \in Journalled)
      <4>1. EmittingStep(c, FALSE) /\ EventOf(c) = "none"  BY <2>2 DEF Refused
      <4>2. \/ pc[c] \in EmitCalls /\ pc'[c] = OnError(pc[c])
            \/ pc'[c] = "finally"
        BY <4>1, EmitMoves DEF AgentTypeOK, EmitCalls, Emits
      <4> QED BY <4>2, EmitsJournalled DEF Journalled, BeforeWrite, Writing, RollingBack
    <3>2. Recorded(c)' = Recorded(c)  BY <2>2 DEF Refused, Recorded
    <3> QED BY <3>1, <3>2 DEF JournalInv, Journalled
  <2>3. CASE \E ok \in BOOLEAN : Recording(c, ok)
    <3> PICK ok \in BOOLEAN : Recording(c, ok)  BY <2>3
    <3>1. Recorded(c) => Recorded(c)'  BY DEF Recording, Writes, Recorded
    <3>2. ok => Recorded(c)'  BY DEF Recording, Writes
    <3>3. /\ pc'[c] # "idle"
          /\ pc'[c] \in Journalled => pc[c] \in Journalled \/ ok
      <4>1. \/ pc[c] = "acquireApplicationLock" /\ pc'[c] = IF ok THEN "acquireSourceLock" ELSE "emitNoWriteRollingBack"
            \/ pc[c] \in EmitCalls /\ pc'[c] = IF ok THEN Emits[pc[c]].next ELSE OnError(pc[c])
            \/ pc'[c] = "finally"
        BY EmitMoves DEF Recording, AgentTypeOK
      <4> QED BY <4>1, EmitsJournalled DEF Journalled, BeforeWrite, Writing, RollingBack
    <3> QED BY <3>1, <3>2, <3>3 DEF JournalInv, Journalled
  <2> QED BY <1>1, <2>1, <2>2, <2>3
<1> QED BY <1>1, <1>2, <1>3, <1>4 DEF JournalInv, Journalled, Running, Recorded

LEMMA RunEnd == ASSUME AgentTypes, Places, NEW c \in Changes, AgentRunStep(c) PROVE EndInv'
<1> USE DEF AgentTypes, Places
<1>1. /\ RunMove(c) /\ Running(c) /\ up \in {"ready", "recovering"}
      /\ UNCHANGED <<queue, rec, recPc>>
      /\ \A d \in Changes : d # c => journal'[d] = journal[d]
      /\ journalFaults' >= journalFaults /\ journalFaults' \in Nat /\ journalFaults \in Nat
      /\ (\E ok \in BOOLEAN : Recording(c, ok)) \/ Refused(c) \/ Silent(c)
  BY RunEffect, ConstantsAssumption DEF AgentTypeOK, TypeOK
<1>2. \A d \in Changes : d # c => pc'[d] = pc[d] /\ machine'[d] = machine[d]
  BY <1>1, RunMoveFrame DEF AgentTypeOK, TypeInv
<1>3. rec = c => recPc = "resume"  BY <1>1, ConstantsAssumption DEF RecoveryInv, Running
<1>4. ASSUME Ended(c)'
      PROVE  /\ pc'[c] \in {"emitRollingBack", "onRollbackFailed", "onNoWriteFailed", "finally", "over"}
             /\ pc'[c] = "emitRollingBack" => machine'[c] = "COMPLETED"
             /\ journalFaults' = 0 => pc'[c] \in {"finally", "over"}
  <2>1. CASE Silent(c)
    <3>1. Ended(c)  BY <1>4, <2>1 DEF Silent, SameRecord, Ended, Recorded
    <3>2. pc[c] = "finally" /\ pc'[c] = "over"
      BY <1>1, <2>1, <3>1, SilentMoves DEF Silent, EndInv, Running, EmitCalls, AgentTypeOK
    <3> QED BY <3>2
  <2>2. CASE Refused(c)
    <3>1. Ended(c) /\ journalFaults' = journalFaults  BY <1>4, <2>2 DEF Refused, Ended
    <3>2. EmittingStep(c, FALSE)  BY <2>2 DEF Refused
    <3>3. /\ pc[c] \in {"emitRollingBack", "onRollbackFailed", "onNoWriteFailed", "finally", "over"}
          /\ journalFaults = 0 => pc[c] \in {"finally", "over"}
      BY <3>1 DEF EndInv
    <3>4. /\ pc[c] \in EmitCalls \cup {"acquireApplicationLock", "onRollbackFailed", "onNoWriteFailed"}
          /\ pc[c] = "emitRollingBack" => pc'[c] = "onRollbackFailed"
          /\ pc[c] \in {"onRollbackFailed", "onNoWriteFailed"} => pc'[c] = "finally"
      BY <3>2, EmitMoves DEF AgentTypeOK, EmitCalls, OnError, BeforeWrite, Writing, NoWriteRollingBack
    <3> QED BY <3>1, <3>3, <3>4 DEF EmitCalls
  <2>3. CASE \E ok \in BOOLEAN : Recording(c, ok)
    <3> PICK ok \in BOOLEAN : Recording(c, ok)  BY <2>3
    <3>1. EmittingStep(c, ok) /\ EventOf(c) # "none"  BY DEF Recording
    <3>2. CASE Ended(c)
      <4>1. pc[c] \in {"onRollbackFailed", "onNoWriteFailed"}
        BY <3>1, <3>2, EmitMoves DEF EndInv, AgentTypeOK, EmitCalls, Emits, CanTransition, ApplyTransitions
      <4>2. pc'[c] = "finally"  BY <3>1, <4>1, EmitMoves DEF AgentTypeOK, EmitCalls
      <4> QED BY <4>2
    <3>3. CASE ~Ended(c)
      <4>1. Writes(c, EventOf(c)) /\ EventOf(c) \in TerminalApplyStates
        BY <1>4, <3>3 DEF Recording, Ended, Writes, Recorded
      <4>2. ~ok => journalFaults' > 0
        <5>1. SUFFICES ASSUME ~ok, ~(journalFaults' > 0) PROVE FALSE  OBVIOUS
        <5>2. journal' = journal  BY <5>1 DEF Recording
        <5> QED BY <1>4, <3>3, <5>2 DEF Ended
      <4>3. \/ pc'[c] = "finally"
            \/ ~ok /\ pc'[c] = OnError(pc[c]) /\ pc[c] = "emitCompleted" /\ machine'[c] = "COMPLETED"
            \/ ~ok /\ pc'[c] = OnError(pc[c]) /\ pc[c] \in {"emitRolledBack", "emitNoWriteRolledBack"}
        BY <3>1, <4>1, EmitMoves DEF AgentTypeOK, EmitCalls, Emits, TerminalApplyStates
      <4>4. /\ OnError("emitCompleted") = "emitRollingBack"
            /\ OnError("emitRolledBack") = "onRollbackFailed"
            /\ OnError("emitNoWriteRolledBack") = "onNoWriteFailed"
        BY DEF OnError, BeforeWrite, Writing, NoWriteRollingBack
      <4> QED BY <1>1, <4>2, <4>3, <4>4
    <3> QED BY <3>2, <3>3
  <2> QED BY <1>1, <2>1, <2>2, <2>3
<1>5. ASSUME NEW d \in Changes, d # c, Ended(d)'
      PROVE  /\ pc'[d] \in {"emitRollingBack", "onRollbackFailed", "onNoWriteFailed", "finally", "over"}
             /\ pc'[d] = "emitRollingBack" => machine'[d] = "COMPLETED"
             /\ rec' = d => recPc' \in {"resume", "emitRollbackFailed"}
             /\ journalFaults' = 0 => pc'[d] \in {"finally", "over"} /\ (rec' = d => recPc' = "resume")
  <2>1. Ended(d) /\ pc'[d] = pc[d] /\ machine'[d] = machine[d]  BY <1>1, <1>2, <1>5 DEF Ended
  <2>2. journalFaults' = 0 => journalFaults = 0  BY <1>1
  <2> QED BY <1>1, <2>1, <2>2 DEF EndInv
<1> QED BY <1>1, <1>3, <1>4, <1>5 DEF EndInv

\* While the journal works, no emission is refused, and every one is recorded.
LEMMA EventsAccepted ==
    ASSUME AgentTypes, EventsFit, NEW c \in Changes,
           (\E ok \in BOOLEAN : Recording(c, ok)) \/ Refused(c),
           journalFaults = 0, journalFaults' = 0, JournalReadable
    PROVE  /\ EmittingStep(c, TRUE) /\ Writes(c, EventOf(c)) /\ EventOf(c) # "none"
           /\ pc[c] # "onNoWriteFailed" /\ machine[c] \in MachineAt(pc[c])
           /\ pc[c] = "onRollbackFailed" => EventOf(c) = "ROLLBACK_FAILED"
<1> USE DEF AgentTypes
<1>1. /\ machine[c] \in MachineAt(pc[c]) /\ pc[c] # "onNoWriteFailed"
      /\ pc[c] = "onRollbackFailed" => machine[c] = "ROLLING_BACK"
  BY DEF EventsFit
<1>2. CanTransition("ROLLING_BACK", "ROLLBACK_FAILED")  BY DEF CanTransition, ApplyTransitions
<1>3. ASSUME NEW ok \in BOOLEAN, EmittingStep(c, ok)
      PROVE  EventOf(c) # "none" /\ (pc[c] = "onRollbackFailed" => EventOf(c) = "ROLLBACK_FAILED")
  <2>1. pc[c] \in EmitCalls => CanTransition(machine[c], Emits[pc[c]].to)  BY <1>1, EmissionsFit
  <2>2. pc[c] \in EmitCalls => Emits[pc[c]].to # "none"  BY DEF EmitCalls, Emits
  <2>3. "onRollbackFailed" \notin EmitCalls  BY DEF EmitCalls
  <2> QED BY <1>1, <1>2, <1>3, <2>1, <2>2, <2>3, EmitMoves DEF AgentTypeOK
<1>4. ~Refused(c)  BY <1>3 DEF Refused
<1>5. PICK ok \in BOOLEAN : Recording(c, ok)  BY <1>4
<1>6. ok  BY <1>5 DEF Recording
<1>7. EmittingStep(c, TRUE) /\ Writes(c, EventOf(c))  BY <1>5, <1>6 DEF Recording
<1> QED BY <1>1, <1>3, <1>7

LEMMA RunContent ==
    ASSUME AgentTypes, Places, ContentInv, NEW c \in Changes, AgentRunStep(c)
    PROVE  ContentInv'
<1> USE DEF AgentTypes, Places
<1>1. RunMove(c)  BY RunEffect
<1>2. /\ snapshot' = snapshot \/ snapshot' = [snapshot EXCEPT ![c] = source]
      /\ \A s \in Sources : \/ source'[s] = source[s]
                            \/ pc[c] = "writeSource" /\ source'[s] = c
                            \/ snapshot[c] # NoValue /\ source'[s] = snapshot[c][s]
  BY <1>1, EmitMoves, SilentMoves DEF RunMove, AgentTypeOK
<1>3. snapshot \in [Changes -> Images \cup {NoValue}] /\ source \in Images /\ NoValue \notin Images
  BY ConstantsAssumption DEF AgentTypeOK, TypeOK
<1>4. \A d \in Changes : snapshot[d] # NoValue => snapshot'[d] # NoValue  BY <1>2, <1>3
<1>5. \A d \in Changes : Recorded(d) => Recorded(d)'
  <2>1. \A d \in Changes : d # c => journal'[d] = journal[d]  BY RunEffect
  <2>2. (\E ok \in BOOLEAN : Recording(c, ok)) \/ Refused(c) \/ Silent(c)  BY RunEffect
  <2>3. Recorded(c) => Recorded(c)'  BY <2>2 DEF Recording, Refused, Silent, SameRecord, Writes, Recorded
  <2> QED BY <2>1, <2>3 DEF Recorded
<1>6. \A d \in Changes : Ended(d) => Ended(d)'  BY RunKeepsEnded
<1> DEFINE Holds(d, s) == source[s] = d \/ (\E e \in Changes : snapshot[e] # NoValue /\ snapshot[e][s] = d)
<1>7. ASSUME NEW d \in Changes, NEW s \in Sources, Holds(d, s)'
      PROVE  Holds(d, s) \/ (d = c /\ pc[c] = "writeSource")
  <2>1. CASE source'[s] = d  BY <1>2, <2>1
  <2>2. CASE \E e \in Changes : snapshot'[e] # NoValue /\ snapshot'[e][s] = d
    <3> PICK e \in Changes : snapshot'[e] # NoValue /\ snapshot'[e][s] = d  BY <2>2
    <3>1. snapshot'[e] = snapshot[e] \/ snapshot'[e] = source  BY <1>2, <1>3
    <3> QED BY <3>1
  <2> QED BY <1>7, <2>1, <2>2
<1>8. ASSUME NEW d \in Changes, NEW s \in Sources, Holds(d, s)'
      PROVE  Recorded(d)' /\ (Ended(d)' \/ snapshot'[d] # NoValue)
  <2>1. CASE Holds(d, s)
    <3>1. Recorded(d) /\ (Ended(d) \/ snapshot[d] # NoValue)  BY <2>1 DEF ContentInv
    <3> QED BY <3>1, <1>4, <1>5, <1>6
  <2>2. CASE d = c /\ pc[c] = "writeSource"
    <3>1. Recorded(c) /\ snapshot[c] # NoValue  BY <2>2 DEF JournalInv, SnapshotStored, AfterSnapshot, Writing
    <3> QED BY <2>2, <3>1, <1>4, <1>5
  <2> QED BY <1>7, <1>8, <2>1, <2>2
<1> QED BY <1>8 DEF ContentInv, Recorded, Ended

LEMMA RunFits ==
    ASSUME AgentTypes, Places, EventsFit, NEW c \in Changes, AgentRunStep(c)
    PROVE  EventsFit'
<1> USE DEF AgentTypes, Places
<1>1. SUFFICES ASSUME journalFaults' = 0, JournalReadable' PROVE
        \A d \in Changes : /\ machine'[d] \in MachineAt(pc'[d])
                           /\ pc'[d] = "onRollbackFailed" => machine'[d] = "ROLLING_BACK"
                           /\ pc'[d] # "onNoWriteFailed"
  BY DEF EventsFit
<1>2. /\ RunMove(c) /\ journalFaults = 0 /\ JournalReadable
      /\ (\E ok \in BOOLEAN : Recording(c, ok)) \/ Refused(c) \/ Silent(c)
  BY <1>1, RunEffect, ConstantsAssumption DEF AgentTypeOK, TypeOK
<1>3. \A d \in Changes : d # c => pc'[d] = pc[d] /\ machine'[d] = machine[d]
  BY <1>2, RunMoveFrame DEF AgentTypeOK, TypeInv
<1>4. \A d \in Changes : /\ machine[d] \in MachineAt(pc[d])
                         /\ pc[d] = "onRollbackFailed" => machine[d] = "ROLLING_BACK"
                         /\ pc[d] # "onNoWriteFailed"
  BY <1>2 DEF EventsFit
<1>5. CASE Silent(c)
  <2>1. SilentStep(c)  BY <1>5 DEF Silent
  <2>2. machine'[c] \in MachineAt(pc'[c])  BY <1>4, <2>1, SilentFits DEF AgentTypeOK, TypeInv
  <2>3. pc'[c] # "onNoWriteFailed" /\ (pc'[c] = "onRollbackFailed" => pc[c] \in RollingBack)
    BY <2>1, SilentMoves DEF AgentTypeOK
  <2>4. pc'[c] = "onRollbackFailed" => machine'[c] = "ROLLING_BACK"
    <3>1. SUFFICES ASSUME pc'[c] = "onRollbackFailed" PROVE machine'[c] = "ROLLING_BACK"  OBVIOUS
    <3>2. pc[c] \in {"restoreSnapshot", "rollbackAction", "rollbackHealth"} /\ machine'[c] = machine[c]
      BY <2>1, <2>3, <3>1 DEF SilentStep, ReadStaged, ApplicationLockFails, AcquireSourceLock, AcquireActionLock,
        CallFails, CaptureSnapshot, WriteSource, RunAction, RunHealth, RestoreSource, RollbackAction, Finally,
        RollingBack, runVars, Reject
    <3> QED BY <1>4, <3>2 DEF MachineAt, BeforeWrite, RollingBack
  <2> QED BY <1>3, <1>4, <2>2, <2>3, <2>4
<1>6. CASE (\E ok \in BOOLEAN : Recording(c, ok)) \/ Refused(c)
  <2>1. EmittingStep(c, TRUE) /\ pc[c] # "onNoWriteFailed" /\ machine[c] \in MachineAt(pc[c])
    BY <1>1, <1>2, <1>6, EventsAccepted
  <2>2. \/ pc'[c] = "acquireSourceLock" /\ machine'[c] = "APPLYING"
        \/ pc[c] \in EmitCalls /\ pc'[c] = Emits[pc[c]].next /\ machine'[c] = Emits[pc[c]].to
        \/ pc'[c] = "finally"
    BY <2>1, EmitMoves DEF AgentTypeOK
  <2>3. machine'[c] \in ApplyStates
    <3>1. TypeInv'  BY <1>2, RunEffect, TypeRunMove DEF AgentTypeOK, TypeInv
    <3> QED BY <3>1 DEF TypeInv, TypeOK
  <2>4. machine'[c] \in MachineAt(pc'[c]) /\ pc'[c] \notin {"onRollbackFailed", "onNoWriteFailed"}
    <3>1. CASE pc'[c] = "acquireSourceLock" /\ machine'[c] = "APPLYING"  BY <3>1 DEF MachineAt, BeforeWrite
    <3>2. CASE pc[c] \in EmitCalls /\ pc'[c] = Emits[pc[c]].next /\ machine'[c] = Emits[pc[c]].to
      <4>1. Emits[pc[c]].next \notin {"onRollbackFailed", "onNoWriteFailed"}  BY <3>2 DEF EmitCalls, Emits
      <4> QED BY <2>1, <3>2, <4>1, EmissionsFit
    <3>3. CASE pc'[c] = "finally"  BY <2>3, <3>3 DEF MachineAt, BeforeWrite, RollingBack
    <3> QED BY <2>2, <3>1, <3>2, <3>3
  <2> QED BY <1>3, <1>4, <2>4
<1> QED BY <1>2, <1>5, <1>6

LEMMA RunBlock ==
    ASSUME AgentTypes, Places, EventsFit, BlockInv, NEW c \in Changes, AgentRunStep(c)
    PROVE  BlockInv'
<1> USE DEF AgentTypes, Places
<1>1. SUFFICES ASSUME NEW d \in Changes, journalFaults' = 0, outcome'[d] = "rollback_failed", d \notin cleared'
               PROVE  /\ ~JournalReadable' \/ (Recorded(d)' /\ journal'[d].state = "ROLLBACK_FAILED")
                      /\ up' \in {"ready", "recovering"} => AppOf[d] \in blocked'
  BY DEF BlockInv, Recorded
<1>2. /\ RunMove(c) /\ journalFaults = 0 /\ (JournalReadable' => JournalReadable)
      /\ blocked \subseteq blocked' /\ cleared' = cleared /\ up' = up
      /\ (\E ok \in BOOLEAN : Recording(c, ok)) \/ Refused(c) \/ Silent(c)
  BY <1>1, RunEffect, ConstantsAssumption DEF AgentTypeOK, TypeOK
<1>3. CASE outcome[d] = "rollback_failed"
  <2>1. /\ ~JournalReadable \/ (Recorded(d) /\ journal[d].state = "ROLLBACK_FAILED")
        /\ up \in {"ready", "recovering"} => AppOf[d] \in blocked
    BY <1>1, <1>2, <1>3 DEF BlockInv
  <2>2. CASE ~JournalReadable  BY <1>2, <2>1, <2>2
  <2>3. CASE Recorded(d) /\ journal[d].state = "ROLLBACK_FAILED"
    <3>1. Ended(d)  BY <2>3 DEF Ended, Recorded, TerminalApplyStates
    <3>2. SameRecord(d)  BY <1>2, <3>1, RunKeepsEnded
    <3> QED BY <1>2, <2>1, <2>3, <3>2 DEF SameRecord
  <2> QED BY <2>1, <2>2, <2>3
<1>4. CASE outcome[d] # "rollback_failed"
  <2>1. d = c  BY <1>1, <1>2, <1>4, RunMoveFrame DEF AgentTypeOK, TypeInv
  <2>2. ~Silent(c)  BY <1>1, <1>4, <2>1, SilentMoves DEF Silent, AgentTypeOK
  <2>3. pc[c] \in {"onRollbackFailed", "onNoWriteFailed"} /\ BlockedBy(c) \subseteq blocked'
    BY <1>1, <1>2, <1>4, <2>1, <2>2, EmitMoves DEF Recording, Refused, AgentTypeOK
  <2>4. AppOf[c] \in blocked'  BY <2>3 DEF BlockedBy
  <2>5. JournalReadable' => Recorded(c)' /\ journal'[c].state = "ROLLBACK_FAILED"
    BY <1>1, <1>2, <2>2, <2>3, EventsAccepted DEF Writes
  <2> QED BY <2>1, <2>4, <2>5
<1> QED BY <1>3, <1>4

\* With MinSequence 0, the design, every journal can be read.
LEMMA AlwaysReadable == ASSUME AgentTypeOK, MinSequence = 0 PROVE JournalReadable
  BY DEF JournalReadable, Sequence

LEMMA RunReconciled ==
    ASSUME AgentTypes, Places, EventsFit, ReconciledInv, NEW c \in Changes, AgentRunStep(c)
    PROVE  ReconciledInv'
<1> USE DEF AgentTypes, Places
<1>1. SUFFICES ASSUME NEW d \in Changes, MinSequence = 0, journalFaults' = 0
               PROVE  /\ pc'[d] = "finally" => Ended(d)'
                      /\ pc'[d] \in {"readStaged", "acquireApplicationLock"} /\ Recorded(d)' => rec' = d
                      /\ pc'[d] = "over" /\ Recorded(d)' /\ ~Ended(d)' =>
                           \/ d \in queue'
                           \/ rec' = d /\ (recPc' = "resume" => outcome'[d] = "rejected")
                           \/ up' \in {"down", "failed"}
  BY DEF ReconciledInv, Ended, Recorded
<1>2. /\ RunMove(c) /\ journalFaults = 0 /\ JournalReadable
      /\ UNCHANGED <<queue, rec, recPc, up>>
      /\ \A e \in Changes : e # c => journal'[e] = journal[e]
      /\ (\E ok \in BOOLEAN : Recording(c, ok)) \/ Refused(c) \/ Silent(c)
  BY <1>1, RunEffect, AlwaysReadable, ConstantsAssumption DEF AgentTypeOK, TypeOK
<1>3. /\ pc[d] = "finally" => Ended(d)
      /\ pc[d] \in {"readStaged", "acquireApplicationLock"} /\ Recorded(d) => rec = d
      /\ pc[d] = "over" /\ Recorded(d) /\ ~Ended(d) =>
           \/ d \in queue
           \/ rec = d /\ (recPc = "resume" => outcome[d] = "rejected")
           \/ up \in {"down", "failed"}
  BY <1>1, <1>2 DEF ReconciledInv
<1>4. CASE d # c
  <2>1. pc'[d] = pc[d] /\ outcome'[d] = outcome[d]  BY <1>2, <1>4, RunMoveFrame DEF AgentTypeOK, TypeInv
  <2> QED BY <1>2, <1>3, <1>4, <2>1 DEF Ended, Recorded
<1>5. CASE d = c /\ Silent(c)
  <2>1. SilentStep(c) /\ SameRecord(c)  BY <1>5 DEF Silent
  <2>2. Recorded(c)' = Recorded(c) /\ Ended(c)' = Ended(c)  BY <2>1 DEF SameRecord, Ended, Recorded
  <2>3. /\ pc'[c] \notin {"readStaged", "finally"}
        /\ pc'[c] = "acquireApplicationLock" => pc[c] = "readStaged"
        /\ pc'[c] = "over" => \/ pc[c] = "finally"
                              \/ outcome'[c] = "rejected" /\ pc[c] \in {"readStaged", "acquireApplicationLock"}
    BY <2>1, SilentMoves DEF AgentTypeOK
  <2> QED BY <1>2, <1>3, <1>5, <2>2, <2>3
<1>6. CASE d = c /\ ~Silent(c)
  <2>1. /\ EmittingStep(c, TRUE) /\ Writes(c, EventOf(c)) /\ EventOf(c) # "none"
        /\ pc[c] # "onNoWriteFailed"
        /\ pc[c] = "onRollbackFailed" => EventOf(c) = "ROLLBACK_FAILED"
    BY <1>1, <1>2, <1>6, EventsAccepted
  <2>2. /\ pc'[c] \notin {"readStaged", "acquireApplicationLock", "over"}
        /\ pc'[c] = "finally" => EventOf(c) \in TerminalApplyStates
    <3>1. \/ pc'[c] = "acquireSourceLock"
          \/ pc[c] \in EmitCalls /\ pc'[c] = Emits[pc[c]].next /\ EventOf(c) = Emits[pc[c]].to
          \/ pc'[c] = "finally" /\ pc[c] = "onRollbackFailed"
      BY <2>1, EmitMoves DEF AgentTypeOK
    <3>2. CASE pc[c] \in EmitCalls /\ pc'[c] = Emits[pc[c]].next /\ EventOf(c) = Emits[pc[c]].to
      BY <3>2 DEF EmitCalls, Emits, TerminalApplyStates
    <3> QED BY <2>1, <3>1, <3>2 DEF TerminalApplyStates
  <2>3. pc'[c] = "finally" => Ended(c)'  BY <2>1, <2>2 DEF Writes, Ended, Recorded
  <2> QED BY <1>6, <2>2, <2>3
<1> QED BY <1>4, <1>5, <1>6

LEMMA RunKeeps == ASSUME AgentInv, NEW c \in Changes, AgentRunStep(c) PROVE AgentInv'
<1>1. AgentTypes /\ Places /\ ContentInv /\ EventsFit /\ BlockInv /\ ReconciledInv /\ JournalInv
  BY DEF AgentInv, Places
<1>2. AgentTypes'  BY <1>1, RunTypes
<1>3. Places'  BY <1>1, RunRecovery, RunJournal, RunEnd DEF Places
<1>4. ContentInv' /\ EventsFit' /\ BlockInv' /\ ReconciledInv'  BY <1>1, RunContent, RunFits, RunBlock, RunReconciled
<1> QED BY <1>2, <1>3, <1>4 DEF AgentInv

-----
(* The handlers and the environment keep the invariant. *)

\* A step that touches neither the runs nor the files, snapshots and records.
LEMMA QuietKeeps ==
    ASSUME AgentInv,
           UNCHANGED <<source, snapshot, pc, machine, todo, outcome, journalFaults,
                       journal, up, queue, rec, recPc>>
    PROVE  /\ SnapshotStored' /\ TodoInv' /\ RecoveryInv' /\ EndInv' /\ ContentInv' /\ EventsFit'
           /\ ReconciledInv'
           /\ UNCHANGED <<blocked, cleared>> => BlockInv'
<1> USE DEF AgentInv, AgentTypes, Places, AgentTypeOK
<1>1. SnapshotStored' /\ TodoInv'  BY DEF SnapshotStored, TodoInv
<1>2. RecoveryInv'  BY DEF RecoveryInv, Running, Recorded, Ended
<1>3. EndInv'  BY DEF EndInv, Ended
<1>4. ContentInv'  BY DEF ContentInv, Ended, Recorded
<1>5. JournalReadable' = JournalReadable  BY DEF JournalReadable
<1>6. EventsFit'  BY <1>5 DEF EventsFit
<1>7. ReconciledInv'  BY DEF ReconciledInv, Ended, Recorded
<1>8. UNCHANGED <<blocked, cleared>> => BlockInv'  BY <1>5 DEF BlockInv, Recorded
<1> QED BY <1>1, <1>2, <1>3, <1>4, <1>6, <1>7, <1>8

LEMMA HandlerKeeps == AgentInv /\ Handler => AgentInv'
<1> SUFFICES ASSUME AgentInv, Handler PROVE AgentInv'  OBVIOUS
<1>0. AgentTypeOK /\ JournalInv /\ TypeOK  BY DEF AgentInv, AgentTypes, Places, AgentTypeOK
<1>1. ASSUME NEW c \in Changes, Validate(c) PROVE AgentInv'
  <2>1. UNCHANGED <<source, snapshot, pc, machine, todo, outcome, journalFaults,
                    journal, up, queue, rec, recPc, blocked, cleared>>
    BY <1>1 DEF Validate, vars, coordinatorVars, diskVars, runVars, historyVars
  <2>2. TypeOK'  BY <1>0, <1>1 DEF Validate, vars, coordinatorVars, diskVars, lockVars, runVars, envVars, TypeOK
  <2>3. [state |-> "READY", digest |-> source] \in ChangeRecords  BY <1>0 DEF ChangeRecords, TypeOK
  <2>4. AgentTypeOK'  BY <1>0, <1>1, <2>2, <2>3 DEF Validate, AgentTypeOK, TypeOK, historyVars
  <2>5. source # NoValue /\ [state |-> "READY", digest |-> source] # NoValue
    BY <1>0, <2>3, ConstantsAssumption, AgentAssumption DEF TypeOK
  <2>6. JournalInv'  BY <1>0, <1>1, <2>1, <2>5 DEF Validate, JournalInv, Running, Recorded, AgentTypeOK
  <2> QED BY <2>1, <2>4, <2>6, QuietKeeps DEF AgentInv, AgentTypes, Places
<1>2. ASSUME NEW c \in Changes, Save(c) PROVE AgentInv'
  <2>1. UNCHANGED <<source, snapshot, pc, machine, todo, outcome, journalFaults,
                    journal, up, queue, rec, recPc, blocked, cleared>>
    BY <1>2 DEF Save, runVars, historyVars
  <2>2. TypeOK'  BY <1>0, <1>2 DEF Save, lockVars, runVars, envVars, TypeOK, AgentTypeOK
  <2>3. [state |-> "SAVED", digest |-> draft[c]] \in ChangeRecords  BY <1>0 DEF ChangeRecords, AgentTypeOK
  <2>4. AgentTypeOK'  BY <1>0, <1>2, <2>2, <2>3 DEF Save, AgentTypeOK, historyVars
  <2>5. draft[c] # NoValue /\ [state |-> "SAVED", digest |-> draft[c]] # NoValue
    BY <1>2, <2>3, AgentAssumption DEF Save
  <2>6. JournalInv'  BY <1>0, <1>2, <2>1, <2>5 DEF Save, JournalInv, Running, Recorded, AgentTypeOK
  <2> QED BY <2>1, <2>4, <2>6, QuietKeeps DEF AgentInv, AgentTypes, Places
<1>3. ASSUME NEW c \in Changes, Cancel(c) PROVE AgentInv'
  <2>1. UNCHANGED <<source, snapshot, pc, machine, todo, outcome, journalFaults,
                    journal, up, queue, rec, recPc, blocked, cleared>>
    BY <1>3 DEF Cancel, runVars, historyVars
  <2>2. TypeOK'  BY <1>0, <1>3 DEF Cancel, lockVars, runVars, envVars, TypeOK
  <2> DEFINE r == [state |-> "CANCELLED", digest |-> IF chg[c] = NoValue THEN NoValue ELSE chg[c].digest]
  <2>3. r \in ChangeRecords /\ r # NoValue /\ (chg[c] # NoValue => r.digest = chg[c].digest)
    <3>1. chg[c] # NoValue => chg[c].digest \in Images \cup {NoValue}  BY <1>0 DEF AgentTypeOK, ChangeRecords
    <3> QED BY <3>1, AgentAssumption DEF ChangeRecords
  <2>4. chg' = [chg EXCEPT ![c] = r]  BY <1>3 DEF Cancel
  <2> HIDE DEF r
  <2>5. AgentTypeOK'  BY <1>0, <1>3, <2>2, <2>3, <2>4 DEF Cancel, AgentTypeOK, historyVars
  <2>6. JournalInv'  BY <1>0, <2>1, <2>3, <2>4 DEF JournalInv, Running, Recorded, AgentTypeOK
  <2> QED BY <2>1, <2>5, <2>6, QuietKeeps DEF AgentInv, AgentTypes, Places
<1>4. ASSUME NEW a \in Apps, ClearApplyBlock(a) PROVE AgentInv'
  <2>1. UNCHANGED <<source, snapshot, pc, machine, todo, outcome, journalFaults,
                    journal, up, queue, rec, recPc, chg>>
    BY <1>4 DEF ClearApplyBlock, vars, coordinatorVars, diskVars, runVars
  <2>2. TypeOK'
    BY <1>0, <1>4 DEF ClearApplyBlock, vars, coordinatorVars, diskVars, lockVars, runVars, envVars, TypeOK
  <2>3. AgentTypeOK'  BY <1>0, <1>4, <2>2 DEF ClearApplyBlock, AgentTypeOK
  <2>4. JournalInv'  BY <1>0, <2>1 DEF JournalInv, Running, Recorded
  <2>5. BlockInv'
    <3>1. JournalReadable' = JournalReadable  BY <2>1 DEF JournalReadable
    <3>2. \A c \in Changes : outcome[c] = "rollback_failed" /\ c \notin cleared' => c \notin cleared /\ AppOf[c] # a
      BY <1>4 DEF ClearApplyBlock
    <3>3. blocked' = blocked \ {a}  BY <1>4 DEF ClearApplyBlock
    <3> QED BY <2>1, <3>1, <3>2, <3>3 DEF AgentInv, BlockInv, Recorded
  <2> QED BY <2>1, <2>3, <2>4, <2>5, QuietKeeps DEF AgentInv, AgentTypes, Places
<1>5. ASSUME NEW c \in Changes, ApplyRequest(c) PROVE AgentInv'
  <2>1. /\ UNCHANGED <<source, loaded, snapshot, staged, evidence, machine, todo, prev, outcome,
                       faults, edits, journalFaults, appLock, sourceLock, actionLock, active,
                       draft, journal, blocked, up, queue, rec, recPc, crashes, torn, cleared>>
        /\ up = "ready" /\ pc[c] = "idle" /\ staged[c] # NoValue
        /\ pc' = [pc EXCEPT ![c] = "readStaged"]
        /\ plan' = [plan EXCEPT ![c] = staged[c]]
        /\ chg' = [chg EXCEPT ![c] = [state |-> "APPLYING", digest |-> staged[c]]]
    BY <1>5 DEF ApplyRequest, Apply, Goto, diskVars, lockVars, envVars, historyVars
  <2>2. [state |-> "APPLYING", digest |-> staged[c]] \in ChangeRecords
        /\ [state |-> "APPLYING", digest |-> staged[c]] # NoValue
    BY <1>0, AgentAssumption DEF ChangeRecords, TypeOK, ApplyStates
  <2>3. TypeOK'  BY <1>0, <2>1 DEF TypeOK, Calls
  <2>4. AgentTypeOK'  BY <1>0, <2>1, <2>2, <2>3 DEF AgentTypeOK
  <2>5. pc[c] = "idle" /\ pc'[c] = "readStaged" /\ \A d \in Changes : d # c => pc'[d] = pc[d]
    BY <1>0, <2>1 DEF TypeOK
  <2>6. ~Recorded(c) /\ UNCHANGED <<journal>>  BY <1>0, <2>1 DEF JournalInv
  <2>7. SnapshotStored' /\ TodoInv'  BY <2>1, <2>5, CallSets DEF AgentInv, AgentTypes, SnapshotStored, TodoInv
  <2>8. RecoveryInv'  BY <2>1, <2>5, <1>0 DEF AgentInv, Places, RecoveryInv, Running, Recorded, Ended, AgentTypeOK
  <2>9. JournalInv'
    BY <1>0, <2>1, <2>2, <2>5, <2>6 DEF JournalInv, Running, Recorded, AgentTypeOK, BeforeWrite, Writing, RollingBack
  <2>10. EndInv' /\ ContentInv'
    <3>1. ContentInv'  BY <2>1 DEF AgentInv, ContentInv, Ended, Recorded
    <3>2. EndInv'  BY <2>1, <2>5, <2>6 DEF AgentInv, Places, EndInv, Ended, Recorded
    <3> QED BY <3>1, <3>2
  <2>11. EventsFit'
    <3>1. JournalReadable' = JournalReadable  BY <2>1 DEF JournalReadable
    <3>2. machine[c] \in MachineAt("readStaged")  BY <1>0 DEF TypeOK, MachineAt, BeforeWrite, RollingBack
    <3> QED BY <2>1, <2>5, <3>1, <3>2 DEF AgentInv, EventsFit
  <2>12. BlockInv'
    <3>1. JournalReadable' = JournalReadable  BY <2>1 DEF JournalReadable
    <3> QED BY <2>1, <3>1 DEF AgentInv, BlockInv, Recorded
  <2>13. ReconciledInv'  BY <2>1, <2>5, <2>6 DEF AgentInv, ReconciledInv, Ended, Recorded
  <2> QED BY <2>4, <2>7, <2>8, <2>9, <2>10, <2>11, <2>12, <2>13 DEF AgentInv, AgentTypes, Places
<1> QED BY <1>1, <1>2, <1>3, <1>4, <1>5 DEF Handler

LEMMA AgentEnvironmentKeeps == AgentInv /\ AgentEnvironment => AgentInv'
<1> SUFFICES ASSUME AgentInv, AgentEnvironment PROVE AgentInv'  OBVIOUS
<1>0. AgentTypeOK /\ JournalInv /\ TypeOK /\ journalFaults' = journalFaults
  BY DEF AgentInv, AgentTypes, Places, AgentTypeOK, AgentEnvironment
<1> USE DEF agentVars, agentMemory, historyVars
<1>1. ASSUME NEW c \in Changes, ExpireDraft(c) PROVE AgentInv'
  <2>1. UNCHANGED <<source, snapshot, pc, machine, todo, outcome, journalFaults,
                    journal, up, queue, rec, recPc, blocked, cleared, chg>>
    BY <1>0, <1>1 DEF ExpireDraft, coordinatorVars, diskVars, runVars
  <2>2. TypeOK'  BY <1>0, <1>1 DEF ExpireDraft, coordinatorVars, diskVars, lockVars, runVars, envVars, TypeOK
  <2>3. AgentTypeOK'  BY <1>0, <1>1, <2>2 DEF ExpireDraft, AgentTypeOK
  <2>4. JournalInv'  BY <1>0, <2>1 DEF JournalInv, Running, Recorded
  <2> QED BY <2>1, <2>3, <2>4, QuietKeeps DEF AgentInv, AgentTypes, Places
<1>2. ASSUME NEW c \in Changes, Unstage(c), UNCHANGED agentVars PROVE AgentInv'
  <2>1. UNCHANGED <<source, snapshot, pc, machine, todo, outcome, journalFaults,
                    journal, up, queue, rec, recPc, blocked, cleared, chg>>
    BY <1>0, <1>2 DEF Unstage, runVars
  <2>2. TypeOK'  BY <1>0, <1>2 DEF Unstage, lockVars, runVars, envVars, TypeOK
  <2>3. AgentTypeOK'  BY <1>0, <1>2, <2>2 DEF AgentTypeOK
  <2>4. JournalInv'  BY <1>0, <2>1 DEF JournalInv, Running, Recorded
  <2> QED BY <2>1, <2>3, <2>4, QuietKeeps DEF AgentInv, AgentTypes, Places
<1>3. ASSUME NEW c \in Changes, rec # c, journal[c] # NoValue => journal[c].state \in TerminalApplyStates,
             ExpireSnapshot(c), UNCHANGED agentVars
      PROVE  AgentInv'
  <2>1. /\ UNCHANGED <<source, pc, machine, todo, outcome, journalFaults,
                       journal, up, queue, rec, recPc, blocked, cleared, chg>>
        /\ snapshot' = [snapshot EXCEPT ![c] = NoValue] /\ pc[c] \in {"idle", "over"}
    BY <1>0, <1>3 DEF ExpireSnapshot, runVars
  <2>2. TypeOK'  BY <1>0, <1>3 DEF ExpireSnapshot, lockVars, runVars, envVars, TypeOK
  <2>3. AgentTypeOK'  BY <1>0, <1>3, <2>2 DEF AgentTypeOK
  <2>4. JournalInv' /\ EndInv' /\ TodoInv'
    BY <1>0, <2>1 DEF AgentInv, AgentTypes, Places, JournalInv, EndInv, TodoInv, Running, Recorded, Ended
  <2>5. \A d \in Changes : snapshot'[d] = IF d = c THEN NoValue ELSE snapshot[d]  BY <1>0, <2>1 DEF TypeOK
  <2>6. SnapshotStored'  BY <2>1, <2>5, CallSets DEF AgentInv, AgentTypes, SnapshotStored
  <2>7. RecoveryInv'
    BY <1>0, <1>3, <2>1, <2>5 DEF AgentInv, Places, RecoveryInv, Running, Recorded, Ended, AgentTypeOK
  <2>8. ContentInv'  BY <1>3, <2>1, <2>5 DEF AgentInv, ContentInv, Recorded, Ended
  <2>9. JournalReadable' = JournalReadable  BY <2>1 DEF JournalReadable
  <2>10. EventsFit' /\ BlockInv' /\ ReconciledInv'
    BY <2>1, <2>9 DEF AgentInv, EventsFit, BlockInv, ReconciledInv, Recorded, Ended
  <2> QED BY <2>3, <2>4, <2>6, <2>7, <2>8, <2>10 DEF AgentInv, AgentTypes, Places
<1>4. ASSUME NEW s \in Sources, Edit(s), UNCHANGED agentVars PROVE AgentInv'
  <2>1. /\ UNCHANGED <<snapshot, pc, machine, todo, outcome, journalFaults,
                       journal, up, queue, rec, recPc, blocked, cleared, chg>>
        /\ source' = [source EXCEPT ![s] = Edited]
    BY <1>0, <1>4 DEF Edit, runVars
  <2>2. TypeInv'
    <3>1. Environment  BY <1>0, <1>4 DEF Environment
    <3> QED BY <1>0, <3>1, TypeEnvironment DEF TypeInv, AgentInv, AgentTypes
  <2>3. AgentTypeOK' /\ SnapshotStored'  BY <1>0, <1>4, <2>2 DEF AgentTypeOK, TypeInv
  <2>4. JournalInv' /\ EndInv' /\ TodoInv' /\ RecoveryInv'
    <3>1. JournalInv' /\ EndInv'
      BY <1>0, <2>1 DEF AgentInv, AgentTypes, Places, JournalInv, EndInv, Running, Recorded, Ended
    <3>2. TodoInv' /\ RecoveryInv'
      BY <2>1 DEF AgentInv, AgentTypes, Places, TodoInv, RecoveryInv, Running, Recorded, Ended
    <3> QED BY <3>1, <3>2
  <2>5. \A t \in Sources : source'[t] = IF t = s THEN Edited ELSE source[t]  BY <1>0, <2>1 DEF TypeOK, Images
  <2>6. ContentInv'  BY <2>1, <2>5, ConstantsAssumption DEF AgentInv, ContentInv, Recorded, Ended
  <2>7. JournalReadable' = JournalReadable  BY <2>1 DEF JournalReadable
  <2>8. EventsFit' /\ BlockInv' /\ ReconciledInv'
    BY <2>1, <2>7 DEF AgentInv, EventsFit, BlockInv, ReconciledInv, Recorded, Ended
  <2> QED BY <2>3, <2>4, <2>6, <2>8 DEF AgentInv, AgentTypes, Places
<1> QED BY <1>1, <1>2, <1>3, <1>4 DEF AgentEnvironment

-----
(* The end of the process and the restart keep the invariant. *)

LEMMA ProcessEndsKeeps ==
    ASSUME AgentInv, ProcessEnds, up' \in {"down", "failed"}, crashes' \in 0..MaxCrashes, torn' \subseteq Changes
    PROVE  AgentInv'
<1>0. AgentTypeOK /\ JournalInv /\ TypeOK /\ EndInv  BY DEF AgentInv, AgentTypes, Places, AgentTypeOK
<1>1. /\ UNCHANGED <<source, loaded, staged, snapshot, evidence, outcome, faults, edits,
                     journalFaults, draft, journal, cleared>>
      /\ queue' = {} /\ rec' = NoValue /\ recPc' = "none" /\ blocked' = {} /\ active' = {}
      /\ todo' = [c \in Changes |-> {}]
      /\ \A c \in Changes : pc'[c] = IF pc[c] = "idle" THEN "idle" ELSE "over"
      /\ \A c \in Changes : machine'[c] = "APPLYING"
  BY DEF ProcessEnds, diskVars, envVars
<1>2. TypeOK'
  <2>1. pc' \in [Changes -> Calls] /\ machine' \in [Changes -> ApplyStates]  BY DEF ProcessEnds, Calls, ApplyStates
  <2>2. /\ appLock' \in [Apps -> Changes \cup {NoValue}]
        /\ sourceLock' \in [Sources -> Changes \cup {NoValue}]
        /\ actionLock' \in [RuntimeActions -> Changes \cup {NoValue}]
        /\ plan' \in [Changes -> Images \cup {NoValue}]
        /\ prev' \in [Changes -> Images \cup {NoValue}]
        /\ todo' \in [Changes -> SUBSET Sources]
    BY DEF ProcessEnds
  <2> QED BY <1>0, <1>1, <2>1, <2>2 DEF TypeOK
<1>3. AgentTypeOK'
  <2>1. chg' \in [Changes -> ChangeRecords \cup {NoValue}]  BY DEF ProcessEnds
  <2> QED BY <1>0, <1>1, <1>2, <2>1 DEF AgentTypeOK
<1>4. SnapshotStored' /\ TodoInv'  BY <1>1, CallSets DEF SnapshotStored, TodoInv
<1>5. RecoveryInv'  BY <1>1 DEF RecoveryInv, Running
<1>6. JournalInv'
  BY <1>0, <1>1, ConstantsAssumption DEF JournalInv, Running, Recorded, BeforeWrite, Writing, RollingBack
<1>7. EndInv'  BY <1>0, <1>1, ConstantsAssumption DEF EndInv, Ended
<1>8. ContentInv'  BY <1>1 DEF AgentInv, ContentInv, Recorded, Ended
<1>9. JournalReadable' = JournalReadable  BY <1>1 DEF JournalReadable
<1>10. EventsFit'
  <2>1. "APPLYING" \in MachineAt("idle") /\ "APPLYING" \in MachineAt("over")
    BY DEF MachineAt, BeforeWrite, RollingBack, ApplyStates
  <2> QED BY <1>1, <2>1 DEF EventsFit
<1>11. BlockInv'  BY <1>1, <1>9 DEF AgentInv, BlockInv, Recorded
<1>12. ReconciledInv'  BY <1>1 DEF ReconciledInv, Ended, Recorded
<1> QED BY <1>3, <1>4, <1>5, <1>6, <1>7, <1>8, <1>10, <1>11, <1>12 DEF AgentInv, AgentTypes, Places

LEMMA CrashKeeps == AgentInv /\ Crash => AgentInv'
<1> SUFFICES ASSUME AgentInv, Crash PROVE AgentInv'  OBVIOUS
<1>1. crashes' \in 0..MaxCrashes /\ torn' \subseteq Changes
  BY AgentAssumption DEF Crash, UnrecordedWrites, AgentInv, AgentTypes, AgentTypeOK
<1> QED BY <1>1, ProcessEndsKeeps DEF Crash

LEMMA RecoveryFailsKeeps == AgentInv /\ RecoveryFails => AgentInv'
  BY ProcessEndsKeeps DEF RecoveryFails, AgentInv, AgentTypes, AgentTypeOK

LEMMA RestartKeeps == AgentInv /\ Restart => AgentInv'
<1> SUFFICES ASSUME AgentInv, Restart PROVE AgentInv'  OBVIOUS
<1>0. AgentTypeOK /\ JournalInv /\ TypeOK /\ EndInv /\ RecoveryInv /\ up = "down"
  BY DEF AgentInv, AgentTypes, Places, AgentTypeOK, Restart
<1>1. /\ UNCHANGED <<source, loaded, staged, snapshot, evidence, appLock, sourceLock, actionLock, active,
                     pc, machine, plan, todo, prev, outcome, faults, edits, journalFaults>>
      /\ UNCHANGED <<draft, journal, crashes, torn, cleared, rec, recPc>>
  BY DEF Restart, agentMemory, vars, coordinatorVars, diskVars, lockVars, runVars, envVars, historyVars
<1>2. rec = NoValue /\ queue = {} /\ \A c \in Changes : pc[c] \in {"idle", "over"}  BY <1>0 DEF RecoveryInv, Running
<1>3. TypeOK'  BY <1>0, <1>1 DEF TypeOK
<1>4. SnapshotStored' /\ TodoInv' /\ EndInv' /\ ContentInv' /\ EventsFit' /\ (JournalReadable' = JournalReadable)
  <2>1. JournalReadable' = JournalReadable  BY <1>1 DEF JournalReadable
  <2>2. SnapshotStored' /\ TodoInv' /\ EndInv'
    BY <1>1 DEF AgentInv, AgentTypes, Places, SnapshotStored, TodoInv, EndInv, Ended
  <2>3. ContentInv' /\ EventsFit'  BY <1>1, <2>1 DEF AgentInv, ContentInv, EventsFit, Ended, Recorded
  <2> QED BY <2>1, <2>2, <2>3
<1>5. CASE ~JournalReadable
  <2>1. up' = "failed" /\ UNCHANGED <<chg, blocked, queue>>  BY <1>5 DEF Restart, agentMemory
  <2>2. AgentTypeOK'  BY <1>0, <1>1, <1>3, <2>1 DEF AgentTypeOK
  <2>3. RecoveryInv' /\ JournalInv'  BY <1>0, <1>1, <1>2, <2>1 DEF RecoveryInv, JournalInv, Running, Recorded, Ended
  <2>4. BlockInv' /\ ReconciledInv'  BY <1>1, <1>4, <2>1 DEF AgentInv, BlockInv, ReconciledInv, Recorded, Ended
  <2> QED BY <1>4, <2>2, <2>3, <2>4 DEF AgentInv, AgentTypes, Places
<1>6. CASE JournalReadable
  <2>1. /\ up' = "recovering" /\ blocked' = JournalBlocks
        /\ chg' = [c \in Changes |->
                     IF journal[c] = NoValue THEN NoValue
                     ELSE [state |-> journal[c].state, digest |-> journal[c].digest]]
        /\ queue' = {c \in Changes : /\ journal[c] # NoValue
                                     /\ journal[c].state \notin TerminalApplyStates}
    BY <1>6 DEF Restart
  <2>2. \A c \in Changes : journal[c] # NoValue =>
          /\ [state |-> journal[c].state, digest |-> journal[c].digest] \in ChangeRecords
          /\ [state |-> journal[c].state, digest |-> journal[c].digest] # NoValue
          /\ journal[c].digest # NoValue
    BY <1>0, AgentAssumption, ConstantsAssumption DEF AgentTypeOK, JournalRecords, ChangeRecords
  <2>3. AgentTypeOK'
    <3>1. chg' \in [Changes -> ChangeRecords \cup {NoValue}]  BY <2>1, <2>2
    <3>2. blocked' \subseteq Apps /\ queue' \subseteq Changes  BY <2>1, ConstantsAssumption DEF JournalBlocks
    <3> QED BY <1>0, <1>1, <1>3, <2>1, <3>1, <3>2 DEF AgentTypeOK
  <2>4. RecoveryInv'
    BY <1>0, <1>1, <1>2, <2>1, ConstantsAssumption DEF RecoveryInv, JournalInv, Running, Recorded, Ended
  <2>5. JournalInv'
    <3>1. \A c \in Changes : c \in queue' => chg'[c] # NoValue /\ chg'[c].digest # NoValue  BY <2>1, <2>2
    <3> QED BY <1>0, <1>1, <1>2, <3>1, ConstantsAssumption DEF JournalInv, Running, Recorded
  <2>6. BlockInv'  BY <1>1, <1>4, <1>6, <2>1 DEF AgentInv, BlockInv, Recorded, JournalBlocks
  <2>7. ReconciledInv'  BY <1>1, <2>1 DEF AgentInv, ReconciledInv, Recorded, Ended
  <2> QED BY <1>4, <2>3, <2>4, <2>5, <2>6, <2>7 DEF AgentInv, AgentTypes, Places
<1> QED BY <1>5, <1>6

-----
(* The recovery keeps the invariant. *)

LEMMA ResumeKeeps == ASSUME AgentInv, NEW c \in Changes, ResumeRun(c) PROVE AgentInv'
<1>0. AgentTypeOK /\ JournalInv /\ TypeOK /\ EndInv /\ RecoveryInv /\ up = "recovering"
  BY DEF AgentInv, AgentTypes, Places, AgentTypeOK, ResumeRun
<1>1. /\ UNCHANGED <<source, loaded, staged, snapshot, evidence, appLock, sourceLock, actionLock, active,
                     machine, todo, prev, faults, edits, journalFaults>>
      /\ UNCHANGED <<draft, journal, chg, blocked, up, crashes, torn, cleared>>
      /\ rec = NoValue /\ c \in queue /\ rec' = c /\ recPc' = "resume" /\ queue' = queue \ {c}
      /\ pc' = [pc EXCEPT ![c] = "readStaged"] /\ plan' = [plan EXCEPT ![c] = journal[c].digest]
      /\ outcome' = [outcome EXCEPT ![c] = "none"]
  BY DEF ResumeRun, Goto, diskVars, lockVars, envVars, historyVars
<1>2. pc[c] = "over" /\ Recorded(c) /\ ~Ended(c)  BY <1>0, <1>1 DEF RecoveryInv
<1>3. journal[c].digest \in Images  BY <1>0, <1>2 DEF AgentTypeOK, Recorded, JournalRecords
<1>4. TypeOK'  BY <1>0, <1>1, <1>3 DEF TypeOK, Calls, Outcomes
<1>5. AgentTypeOK'  BY <1>0, <1>1, <1>4 DEF AgentTypeOK
<1>6. /\ \A d \in Changes : pc'[d] = IF d = c THEN "readStaged" ELSE pc[d]
      /\ \A d \in Changes : outcome'[d] = IF d = c THEN "none" ELSE outcome[d]
  BY <1>0, <1>1 DEF TypeOK
<1>7. SnapshotStored' /\ TodoInv'  BY <1>1, <1>6, CallSets DEF AgentInv, AgentTypes, SnapshotStored, TodoInv
<1>8. RecoveryInv'  BY <1>0, <1>1, <1>6, ConstantsAssumption DEF RecoveryInv, Running, Recorded, Ended
<1>9. JournalInv'  BY <1>0, <1>1, <1>2, <1>6 DEF JournalInv, Running, Recorded, BeforeWrite, Writing, RollingBack
<1>10. EndInv'  BY <1>0, <1>1, <1>2, <1>6 DEF EndInv, Ended
<1>11. ContentInv'  BY <1>1 DEF AgentInv, ContentInv, Recorded, Ended
<1>12. JournalReadable' = JournalReadable  BY <1>1 DEF JournalReadable
<1>13. EventsFit'
  <2>1. machine[c] \in MachineAt("readStaged")  BY <1>0 DEF TypeOK, MachineAt, BeforeWrite, RollingBack
  <2> QED BY <1>1, <1>6, <1>12, <2>1 DEF AgentInv, EventsFit
<1>14. BlockInv'  BY <1>1, <1>6, <1>12 DEF AgentInv, BlockInv, Recorded
<1>15. ReconciledInv'  BY <1>0, <1>1, <1>2, <1>6, ConstantsAssumption DEF AgentInv, ReconciledInv, Recorded, Ended
<1> QED BY <1>5, <1>7, <1>8, <1>9, <1>10, <1>11, <1>13, <1>14, <1>15 DEF AgentInv, AgentTypes, Places

LEMMA ResumedKeeps == AgentInv /\ RunResumed => AgentInv'
<1> SUFFICES ASSUME AgentInv, RunResumed PROVE AgentInv'  OBVIOUS
<1>1. CASE RecoveryFails  BY <1>1, RecoveryFailsKeeps
<1>2. CASE ~RecoveryFails
  <2>0. AgentTypeOK /\ JournalInv /\ TypeOK /\ EndInv /\ RecoveryInv /\ up = "recovering" /\ recPc = "resume"
        /\ pc[rec] = "over"
    BY DEF AgentInv, AgentTypes, Places, AgentTypeOK, RunResumed
  <2>1. /\ UNCHANGED <<source, loaded, staged, snapshot, evidence, appLock, sourceLock, actionLock, active,
                       pc, machine, plan, todo, prev, outcome, faults, edits, journalFaults>>
        /\ UNCHANGED <<draft, journal, chg, blocked, up, queue, crashes, torn, cleared>>
        /\ rec' = NoValue /\ recPc' = "none" /\ outcome[rec] # "rejected"
    BY <1>2 DEF RunResumed, vars, coordinatorVars, diskVars, lockVars, runVars, envVars, historyVars
  <2>2. AgentTypeOK'  BY <2>0, <2>1 DEF AgentTypeOK, TypeOK
  <2>3. SnapshotStored' /\ TodoInv' /\ ContentInv'
    BY <2>1 DEF AgentInv, AgentTypes, SnapshotStored, TodoInv, ContentInv, Recorded, Ended
  <2>4. RecoveryInv'  BY <2>0, <2>1, ConstantsAssumption DEF RecoveryInv, Running, Recorded, Ended, AgentTypeOK
  <2>5. JournalInv' /\ EndInv'  BY <2>0, <2>1, ConstantsAssumption DEF JournalInv, EndInv, Running, Recorded, Ended
  <2>6. JournalReadable' = JournalReadable  BY <2>1 DEF JournalReadable
  <2>7. EventsFit' /\ BlockInv'  BY <2>1, <2>6 DEF AgentInv, EventsFit, BlockInv, Recorded
  <2>8. ReconciledInv'  BY <2>0, <2>1 DEF AgentInv, ReconciledInv, Recorded, Ended
  <2> QED BY <2>2, <2>3, <2>4, <2>5, <2>7, <2>8 DEF AgentInv, AgentTypes, Places
<1> QED BY <1>1, <1>2

LEMMA StartRollbackKeeps == ASSUME AgentInv, NEW c \in Changes, StartRollback(c) PROVE AgentInv'
<1>1. CASE RecoveryFails  BY <1>1, RecoveryFailsKeeps
<1>2. CASE ~RecoveryFails
  <2>0. AgentTypeOK /\ JournalInv /\ TypeOK /\ EndInv /\ RecoveryInv /\ up = "recovering"
    BY DEF AgentInv, AgentTypes, Places, AgentTypeOK, StartRollback
  <2>1. /\ UNCHANGED <<source, loaded, staged, snapshot, evidence, appLock, sourceLock, actionLock, active,
                       pc, machine, plan, faults, edits, journalFaults>>
        /\ UNCHANGED <<draft, journal, chg, blocked, up, crashes, torn, cleared>>
        /\ rec = NoValue /\ c \in queue /\ snapshot[c] # NoValue
        /\ rec' = c /\ recPc' = "emitRollingBack" /\ queue' = queue \ {c}
        /\ prev' = [prev EXCEPT ![c] = journal[c].prev]
        /\ todo' = [todo EXCEPT ![c] = SourcesOf[c]]
        /\ outcome' = [outcome EXCEPT ![c] = "none"]
    BY <1>2 DEF StartRollback, diskVars, lockVars, envVars, historyVars
  <2>2. pc[c] = "over" /\ Recorded(c) /\ ~Ended(c)  BY <2>0, <2>1 DEF RecoveryInv
  <2>3. journal[c].prev \in Images \cup {NoValue} /\ SourcesOf[c] \subseteq Sources
    BY <2>0, <2>2, ConstantsAssumption DEF AgentTypeOK, Recorded, JournalRecords
  <2>4. TypeOK'  BY <2>0, <2>1, <2>3 DEF TypeOK, Outcomes
  <2>5. AgentTypeOK'  BY <2>0, <2>1, <2>4 DEF AgentTypeOK, RecoverySteps
  <2>6. /\ \A d \in Changes : outcome'[d] = IF d = c THEN "none" ELSE outcome[d]
        /\ \A d \in Changes : todo'[d] = IF d = c THEN SourcesOf[c] ELSE todo[d]
    BY <2>0, <2>1 DEF TypeOK
  <2>7. SnapshotStored' /\ TodoInv'  BY <2>1, <2>6 DEF AgentInv, AgentTypes, SnapshotStored, TodoInv
  <2>8. RecoveryInv'  BY <2>0, <2>1, <2>2, ConstantsAssumption DEF RecoveryInv, Running, Recorded, Ended
  <2>9. JournalInv' /\ EndInv'  BY <2>0, <2>1, <2>2 DEF JournalInv, EndInv, Running, Recorded, Ended
  <2>10. ContentInv'  BY <2>1 DEF AgentInv, ContentInv, Recorded, Ended
  <2>11. JournalReadable' = JournalReadable  BY <2>1 DEF JournalReadable
  <2>12. EventsFit' /\ BlockInv'  BY <2>1, <2>6, <2>11 DEF AgentInv, EventsFit, BlockInv, Recorded
  <2>13. ReconciledInv'  BY <2>0, <2>1, <2>2, <2>6, ConstantsAssumption DEF AgentInv, ReconciledInv, Recorded, Ended
  <2> QED BY <2>5, <2>7, <2>8, <2>9, <2>10, <2>12, <2>13 DEF AgentInv, AgentTypes, Places
<1> QED BY <1>1, <1>2

\* The steps of a recovery rollback that record nothing.
LEMMA RecoveryWorkKeeps == AgentInv /\ (RecoveryRestore \/ RecoveryAction) => AgentInv'
<1> SUFFICES ASSUME AgentInv, RecoveryRestore \/ RecoveryAction PROVE AgentInv'  OBVIOUS
<1>0. AgentTypeOK /\ JournalInv /\ TypeOK /\ EndInv /\ RecoveryInv /\ TodoInv /\ up = "recovering"
      /\ recPc \in {"restore", "rollbackAction"} /\ rec \in Changes
  BY DEF AgentInv, AgentTypes, Places, AgentTypeOK, RecoveryRestore, RecoveryAction, RecoveryInv
<1>1. /\ UNCHANGED <<staged, snapshot, evidence, appLock, sourceLock, actionLock, active,
                     pc, machine, plan, prev, outcome, edits, journalFaults>>
      /\ UNCHANGED <<draft, journal, chg, blocked, up, queue, rec, crashes, torn, cleared>>
  BY DEF RecoveryRestore, RecoveryAction, lockVars, runVars, historyVars
<1>2. snapshot[rec] # NoValue /\ snapshot[rec] \in Images  BY <1>0, ConstantsAssumption DEF RecoveryInv, TypeOK
<1>3. /\ source' \in Images /\ loaded' \in Images /\ faults' \in 0..MaxFaults
      /\ todo' \in [Changes -> SUBSET Sources] /\ recPc' \in RecoverySteps
      /\ \A s \in Sources : source'[s] = source[s] \/ source'[s] = snapshot[rec][s]
      /\ \A d \in Changes : todo'[d] \subseteq todo[d]
  <2>1. CASE RecoveryRestore
    <3>1. faults' \in 0..MaxFaults  BY <1>0, <2>1, ConstantsAssumption DEF RecoveryRestore, Fault, TypeOK
    <3>2. source' \in Images /\ loaded' \in Images  BY <1>0, <1>2, <2>1 DEF RecoveryRestore, TypeOK, Images
    <3>3. \A s \in Sources : source'[s] = source[s] \/ source'[s] = snapshot[rec][s]
      BY <1>0, <2>1 DEF RecoveryRestore, TypeOK, Images
    <3>4. todo' \in [Changes -> SUBSET Sources] /\ \A d \in Changes : todo'[d] \subseteq todo[d]
      BY <1>0, <2>1 DEF RecoveryRestore, TypeOK
    <3>5. recPc' \in RecoverySteps  BY <1>0, <2>1 DEF RecoveryRestore, RecoverySteps
    <3> QED BY <3>1, <3>2, <3>3, <3>4, <3>5
  <2>2. CASE RecoveryAction
    <3>1. faults' \in 0..MaxFaults  BY <1>0, <2>2, ConstantsAssumption DEF RecoveryAction, Fault, TypeOK
    <3>2. prev[rec] # NoValue => Load(rec, prev[rec]) \in Images  BY <1>0 DEF Load, Images, TypeOK
    <3>3. loaded' \in Images  BY <1>0, <2>2, <3>2 DEF RecoveryAction, TypeOK
    <3>4. recPc' \in RecoverySteps /\ todo' = todo /\ source' = source
      BY <2>2 DEF RecoveryAction, RecoverySteps, runVars
    <3> QED BY <1>0, <3>1, <3>3, <3>4 DEF TypeOK
  <2> QED BY <2>1, <2>2
<1>4. AgentTypeOK'  BY <1>0, <1>1, <1>3 DEF AgentTypeOK, TypeOK
<1>5. SnapshotStored' /\ TodoInv'
  <2>1. SnapshotStored'  BY <1>1 DEF AgentInv, AgentTypes, SnapshotStored
  <2>2. TodoInv'  BY <1>0, <1>3 DEF TodoInv
  <2> QED BY <2>1, <2>2
<1>6. RecoveryInv'  BY <1>0, <1>1, <1>3, ConstantsAssumption DEF RecoveryInv, Running, Recorded, Ended, RecoverySteps
<1>7. JournalInv' /\ EndInv'
  <2>1. JournalInv'  BY <1>0, <1>1 DEF JournalInv, Running, Recorded
  <2>2. ~Ended(rec)  BY <1>0 DEF EndInv
  <2>3. EndInv'  BY <1>0, <1>1, <2>2 DEF EndInv, Ended
  <2> QED BY <2>1, <2>3
<1>8. ContentInv'  BY <1>0, <1>1, <1>2, <1>3 DEF AgentInv, ContentInv, Recorded, Ended
<1>9. JournalReadable' = JournalReadable  BY <1>1 DEF JournalReadable
<1>10. EventsFit' /\ BlockInv'  BY <1>1, <1>9 DEF AgentInv, EventsFit, BlockInv, Recorded
<1>11. ReconciledInv'
  <2>1. recPc' # "resume"  BY <1>3 DEF RecoverySteps
  <2> QED BY <1>1, <2>1 DEF AgentInv, ReconciledInv, Recorded, Ended
<1> QED BY <1>4, <1>5, <1>6, <1>7, <1>8, <1>10, <1>11 DEF AgentInv, AgentTypes, Places

LEMMA RecoveryDoneKeeps == AgentInv /\ RecoveryDone => AgentInv'
<1> SUFFICES ASSUME AgentInv, RecoveryDone PROVE AgentInv'  OBVIOUS
<1>0. AgentTypeOK /\ JournalInv /\ TypeOK /\ EndInv /\ RecoveryInv /\ up = "recovering" /\ up' = "ready"
      /\ queue = {} /\ rec = NoValue
  BY DEF AgentInv, AgentTypes, Places, AgentTypeOK, RecoveryDone
<1>1. /\ UNCHANGED <<source, loaded, staged, snapshot, evidence, appLock, sourceLock, actionLock, active,
                     pc, machine, plan, todo, prev, outcome, faults, edits, journalFaults>>
      /\ UNCHANGED <<draft, journal, chg, blocked, queue, rec, recPc, crashes, torn, cleared>>
  BY DEF RecoveryDone, agentMemory, vars, coordinatorVars, diskVars, lockVars, runVars, envVars, historyVars
<1>2. AgentTypeOK'  BY <1>0, <1>1 DEF AgentTypeOK, TypeOK
<1>3. SnapshotStored' /\ TodoInv' /\ ContentInv'
  BY <1>1 DEF AgentInv, AgentTypes, SnapshotStored, TodoInv, ContentInv, Recorded, Ended
<1>4. RecoveryInv' /\ JournalInv' /\ EndInv'
  BY <1>0, <1>1 DEF RecoveryInv, JournalInv, EndInv, Running, Recorded, Ended
<1>5. JournalReadable' = JournalReadable  BY <1>1 DEF JournalReadable
<1>6. EventsFit' /\ BlockInv'  BY <1>0, <1>1, <1>5 DEF AgentInv, EventsFit, BlockInv, Recorded
<1>7. ReconciledInv'  BY <1>0, <1>1, ConstantsAssumption DEF AgentInv, ReconciledInv, Recorded, Ended
<1> QED BY <1>2, <1>3, <1>4, <1>6, <1>7 DEF AgentInv, AgentTypes, Places

\* The three events of a recovery rollback, whether they are recorded or not.
LEMMA RecoveryEventKeeps == ASSUME AgentInv, NEW ok \in BOOLEAN, RecoveryEvent(ok) PROVE AgentInv'
<1>0. AgentTypeOK /\ JournalInv /\ TypeOK /\ EndInv /\ RecoveryInv /\ up = "recovering"
      /\ recPc \in {"emitRollingBack", "emitRolledBack", "emitRollbackFailed"} /\ rec \in Changes
  BY DEF AgentInv, AgentTypes, Places, AgentTypeOK, RecoveryEvent, RecoveryInv
<1>c. PICK c \in Changes : c = rec  BY <1>0
<1>1. UNCHANGED <<source, loaded, staged, snapshot, evidence, appLock, sourceLock, actionLock, active,
                  pc, machine, plan, todo, faults, edits, draft, up, queue, crashes, torn, cleared>>
  BY DEF RecoveryEvent, diskVars, lockVars, envVars, historyVars
<1>s. PICK state \in {"ROLLING_BACK", "ROLLED_BACK", "ROLLBACK_FAILED"} :
              state = IF recPc = "emitRollingBack" THEN "ROLLING_BACK"
                      ELSE IF recPc = "emitRolledBack" THEN "ROLLED_BACK" ELSE "ROLLBACK_FAILED"
  OBVIOUS
<1> DEFINE extra == IF recPc = "emitRollbackFailed" THEN {AppOf[c]} ELSE {}
<1>2. JournalEvent(c, state, ok, extra)  BY <1>0, <1>c, <1>s DEF RecoveryEvent
<1>3. state \in ApplyStates /\ extra \in SUBSET Apps  BY <1>0, <1>s, ConstantsAssumption DEF ApplyStates
<1>4. chg[c] # NoValue /\ chg[c].digest # NoValue /\ Recorded(c) /\ c \notin queue /\ pc[c] = "over"
  BY <1>0, <1>c DEF JournalInv, RecoveryInv
<1> HIDE DEF extra
<1>5. /\ journal' \in [Changes -> JournalRecords \cup {NoValue}]
      /\ chg' \in [Changes -> ChangeRecords \cup {NoValue}]
      /\ blocked' \subseteq Apps /\ blocked \subseteq blocked' /\ extra \subseteq blocked'
      /\ journalFaults' \in 0..MaxJournalFaults /\ journalFaults' >= journalFaults
      /\ \A d \in Changes : d # c => journal'[d] = journal[d] /\ chg'[d] = chg[d]
      /\ chg'[c] # NoValue /\ chg'[c].digest = chg[c].digest
      /\ journal'[c] = journal[c] \/ (JournalReadable /\ Writes(c, state))
      /\ ok => JournalReadable /\ Writes(c, state) /\ journalFaults' = journalFaults
      /\ ~ok => journalFaults' > 0 \/ (~JournalReadable /\ journal' = journal)
      /\ JournalReadable' => JournalReadable
  BY <1>0, <1>2, <1>3, <1>4, JournalEffect
<1>6. \/ /\ recPc = "emitRollingBack" /\ state = "ROLLING_BACK"
         /\ recPc' = IF ok THEN "restore" ELSE "emitRollbackFailed"
         /\ UNCHANGED <<rec, outcome, prev>>
      \/ /\ recPc = "emitRolledBack" /\ state = "ROLLED_BACK"
         /\ recPc' = IF ok THEN "none" ELSE "emitRollbackFailed"
         /\ rec' = IF ok THEN NoValue ELSE c
         /\ outcome' = [outcome EXCEPT ![c] = IF ok THEN "rolled_back" ELSE @]
         /\ prev' = [prev EXCEPT ![c] = IF ok THEN NoValue ELSE @]
      \/ /\ recPc = "emitRollbackFailed" /\ state = "ROLLBACK_FAILED" /\ extra = {AppOf[c]}
         /\ recPc' = "none" /\ rec' = NoValue
         /\ outcome' = [outcome EXCEPT ![c] = "rollback_failed"]
         /\ prev' = [prev EXCEPT ![c] = NoValue]
  BY <1>c, <1>s DEF RecoveryEvent, extra
<1>7. /\ rec' \in {c, NoValue} /\ rec = c /\ (rec' = NoValue <=> recPc' = "none")
      /\ recPc' \in {"none", "restore", "emitRollbackFailed"}
      /\ rec' = NoValue => state \in TerminalApplyStates
      /\ ~ok /\ rec' = c => recPc' = "emitRollbackFailed"
      /\ ok /\ rec' = c => state = "ROLLING_BACK"
      /\ \A d \in Changes : d # c => outcome'[d] = outcome[d]
      /\ outcome'[c] = "rollback_failed" => outcome[c] = "rollback_failed" \/ state = "ROLLBACK_FAILED"
      /\ state = "ROLLBACK_FAILED" => extra = {AppOf[c]}
      /\ state = "ROLLING_BACK" => recPc = "emitRollingBack"
      /\ state = "ROLLED_BACK" => recPc = "emitRolledBack"
  <2>1. c # NoValue /\ outcome \in [Changes -> Outcomes]  BY <1>0, ConstantsAssumption DEF TypeOK
  <2>2. CASE recPc = "emitRollingBack"  BY <1>6, <1>c, <2>1, <2>2
  <2>3. CASE recPc = "emitRolledBack"
    <3>1. outcome' = [outcome EXCEPT ![c] = IF ok THEN "rolled_back" ELSE outcome[c]]  BY <1>6, <2>3
    <3>2. /\ \A d \in Changes : d # c => outcome'[d] = outcome[d]
          /\ outcome'[c] = "rollback_failed" => outcome[c] = "rollback_failed"
      BY <2>1, <3>1
    <3> QED BY <1>6, <1>c, <2>1, <2>3, <3>2 DEF TerminalApplyStates
  <2>4. CASE recPc = "emitRollbackFailed"
    <3>1. \A d \in Changes : d # c => outcome'[d] = outcome[d]  BY <1>6, <2>1, <2>4
    <3> QED BY <1>6, <1>c, <2>1, <2>4, <3>1 DEF TerminalApplyStates
  <2> QED BY <1>0, <2>2, <2>3, <2>4
<1>8. AgentTypeOK'
  <2>1. outcome' \in [Changes -> Outcomes] /\ prev' \in [Changes -> Images \cup {NoValue}]
    BY <1>0, <1>6 DEF TypeOK, Outcomes
  <2>2. rec' \in Changes \cup {NoValue} /\ recPc' \in RecoverySteps \cup {"none", "resume"}
    BY <1>0, <1>7 DEF RecoverySteps
  <2> QED BY <1>0, <1>1, <1>5, <2>1, <2>2 DEF AgentTypeOK, TypeOK
<1>9. SnapshotStored' /\ TodoInv'  BY <1>1 DEF AgentInv, AgentTypes, SnapshotStored, TodoInv
<1>10. RecoveryInv'
  <2>1. \A d \in Changes : ~Running(d)  BY <1>0 DEF RecoveryInv
  <2>2. snapshot[c] # NoValue /\ c # NoValue  BY <1>0, <1>c, ConstantsAssumption DEF RecoveryInv
  <2>3. \A d \in queue : d # c /\ pc[d] = "over" /\ Recorded(d) /\ ~Ended(d)  BY <1>0, <1>4 DEF RecoveryInv
  <2>4. \A d \in queue' : d # rec' /\ pc'[d] = "over" /\ Recorded(d)' /\ ~Ended(d)'
    BY <1>0, <1>1, <1>5, <1>7, <2>3, ConstantsAssumption DEF AgentTypeOK, Recorded, Ended
  <2> QED BY <1>0, <1>1, <1>4, <1>7, <2>1, <2>2, <2>4 DEF RecoveryInv, Running, Recorded, Ended
<1>11. Recorded(c) /\ Recorded(c)'  BY <1>4, <1>5 DEF Writes, Recorded
<1>12. JournalInv'
  <2>1. chg'[c].digest # NoValue  BY <1>4, <1>5
  <2> QED BY <1>0, <1>1, <1>5, <1>7, <1>11, <2>1, ConstantsAssumption DEF JournalInv, Running, Recorded
<1>13. Ended(c) => Ended(c)'
  <2>1. SUFFICES ASSUME Ended(c) PROVE Ended(c)'  OBVIOUS
  <2>2. state = "ROLLBACK_FAILED"  BY <1>0, <1>6, <1>7, <2>1 DEF EndInv
  <2> QED BY <1>5, <2>1, <2>2 DEF Ended, Writes, Recorded, TerminalApplyStates
<1>14. EndInv'
  <2>1. ASSUME NEW d \in Changes, d # c, Ended(d)'
        PROVE  /\ pc'[d] \in {"emitRollingBack", "onRollbackFailed", "onNoWriteFailed", "finally", "over"}
               /\ pc'[d] = "emitRollingBack" => machine'[d] = "COMPLETED"
               /\ rec' = d => recPc' \in {"resume", "emitRollbackFailed"}
               /\ journalFaults' = 0 => pc'[d] \in {"finally", "over"} /\ (rec' = d => recPc' = "resume")
    <3>1. Ended(d)  BY <1>5, <2>1 DEF Ended
    <3>2. rec' # d  BY <1>7, <2>1, ConstantsAssumption
    <3>3. journalFaults' = 0 => journalFaults = 0  BY <1>0, <1>5, ConstantsAssumption DEF TypeOK
    <3> QED BY <1>0, <1>1, <3>1, <3>2, <3>3 DEF EndInv
  <2>2. ASSUME Ended(c)', rec' = c
        PROVE  recPc' = "emitRollbackFailed" /\ journalFaults' # 0
    <3>1. CASE Ended(c)
      <4>1. recPc = "emitRollbackFailed"  BY <1>0, <1>7, <3>1 DEF EndInv
      <4> QED BY <1>0, <1>6, <2>2, <4>1, ConstantsAssumption
    <3>2. CASE ~Ended(c)
      <4>1. Writes(c, state) /\ state \in TerminalApplyStates  BY <1>5, <2>2, <3>2 DEF Ended, Writes, Recorded
      <4>2. ~ok  BY <1>7, <2>2, <4>1 DEF TerminalApplyStates
      <4>3. ~(journal' = journal)  BY <2>2, <3>2 DEF Ended
      <4> QED BY <1>5, <1>7, <2>2, <4>2, <4>3
    <3> QED BY <3>1, <3>2
  <2> QED BY <1>1, <1>4, <2>1, <2>2, <1>0, <1>7, ConstantsAssumption DEF EndInv
<1>15. ContentInv'
  <2>1. \A d \in Changes : Recorded(d) => Recorded(d)'  BY <1>5, <1>11 DEF Recorded
  <2>2. \A d \in Changes : Ended(d) => Ended(d)'  BY <1>5, <1>13 DEF Ended
  <2> QED BY <1>1, <2>1, <2>2 DEF AgentInv, ContentInv, Recorded, Ended
<1>16. journalFaults' = 0 => journalFaults = 0  BY <1>0, <1>5, ConstantsAssumption DEF TypeOK
<1>17. EventsFit'  BY <1>1, <1>5, <1>16 DEF AgentInv, EventsFit
<1>18. journalFaults' = 0 /\ JournalReadable => Writes(c, state)  BY <1>5
<1>19. BlockInv'
  <2>1. SUFFICES ASSUME NEW d \in Changes, journalFaults' = 0, outcome'[d] = "rollback_failed", d \notin cleared'
                 PROVE  /\ ~JournalReadable' \/ (Recorded(d)' /\ journal'[d].state = "ROLLBACK_FAILED")
                        /\ up' \in {"ready", "recovering"} => AppOf[d] \in blocked'
    BY DEF BlockInv, Recorded
  <2>2. CASE d # c
    <3>1. /\ ~JournalReadable \/ (Recorded(d) /\ journal[d].state = "ROLLBACK_FAILED")
          /\ up \in {"ready", "recovering"} => AppOf[d] \in blocked
      BY <1>1, <1>7, <1>16, <2>1, <2>2 DEF AgentInv, BlockInv
    <3> QED BY <1>1, <1>5, <2>2, <3>1 DEF Recorded
  <2>3. CASE d = c /\ state = "ROLLBACK_FAILED" /\ extra = {AppOf[c]}  BY <1>5, <1>18, <2>1, <2>3 DEF Writes
  <2>4. CASE d = c /\ outcome[c] = "rollback_failed" /\ state # "ROLLBACK_FAILED"
    <3>1. /\ ~JournalReadable \/ (Recorded(d) /\ journal[d].state = "ROLLBACK_FAILED")
          /\ up \in {"ready", "recovering"} => AppOf[d] \in blocked
      BY <1>1, <1>16, <2>1, <2>4 DEF AgentInv, BlockInv
    <3>2. ~Ended(c)  BY <1>0, <1>6, <1>7, <2>4 DEF EndInv
    <3>3. ~JournalReadable  BY <2>4, <3>1, <3>2 DEF Ended, Recorded, TerminalApplyStates
    <3> QED BY <1>1, <1>5, <2>4, <3>1, <3>3
  <2> QED BY <1>7, <2>1, <2>2, <2>3, <2>4
<1>20. ReconciledInv'
  <2>1. SUFFICES ASSUME NEW d \in Changes, MinSequence = 0, journalFaults' = 0
                 PROVE  /\ pc'[d] = "finally" => Ended(d)'
                        /\ pc'[d] \in {"readStaged", "acquireApplicationLock"} /\ Recorded(d)' => rec' = d
                        /\ pc'[d] = "over" /\ Recorded(d)' /\ ~Ended(d)' =>
                             \/ d \in queue'
                             \/ rec' = d /\ (recPc' = "resume" => outcome'[d] = "rejected")
                             \/ up' \in {"down", "failed"}
    BY DEF ReconciledInv, Ended, Recorded
  <2>2. ~Running(d)  BY <1>0 DEF RecoveryInv
  <2>3. CASE d # c
    <3>1. pc[d] = "over" /\ Recorded(d) /\ ~Ended(d) => d \in queue
      BY <1>0, <1>7, <1>16, <2>1, <2>3 DEF AgentInv, ReconciledInv
    <3> QED BY <1>1, <1>5, <2>2, <2>3, <3>1 DEF Recorded, Ended, Running
  <2>4. CASE d = c
    <3>1. Writes(c, state)  BY <1>0, <1>18, <2>1, AlwaysReadable
    <3>2. rec' = NoValue => Ended(c)'  BY <1>7, <3>1 DEF Writes, Ended, Recorded
    <3> QED BY <1>1, <1>4, <1>7, <2>4, <3>2
  <2> QED BY <2>3, <2>4
<1> QED BY <1>8, <1>9, <1>10, <1>12, <1>14, <1>15, <1>17, <1>19, <1>20 DEF AgentInv, AgentTypes, Places

LEMMA AgentStarts == AgentInit => AgentInv
<1> SUFFICES ASSUME AgentInit PROVE AgentInv  OBVIOUS
<1> USE DEF AgentInit
<1>1. TypeOK /\ SnapshotStored  BY TypeInit DEF TypeInv
<1>2. AgentTypeOK  BY <1>1, AgentAssumption DEF AgentTypeOK
<1>3. /\ \A c \in Changes : /\ journal[c] = NoValue /\ pc[c] = "idle" /\ todo[c] = {} /\ machine[c] = "APPLYING"
                            /\ outcome[c] = "none" /\ snapshot[c] = NoValue
      /\ \A s \in Sources : source[s] = Orig
  BY DEF Init
<1>4. AgentTypes  BY <1>1, <1>2, <1>3 DEF AgentTypes, TodoInv
<1>5. Places
  BY <1>3, ConstantsAssumption DEF Places, RecoveryInv, JournalInv, EndInv, Running, Recorded, Ended, BeforeWrite, Writing, RollingBack
<1>6. ContentInv  BY <1>3, ConstantsAssumption DEF ContentInv
<1>7. EventsFit /\ BlockInv /\ ReconciledInv
  <2>1. "APPLYING" \in MachineAt("idle")  BY DEF MachineAt, BeforeWrite, RollingBack, ApplyStates
  <2> QED BY <1>3, <2>1 DEF EventsFit, BlockInv, ReconciledInv, Recorded
<1> QED BY <1>4, <1>5, <1>6, <1>7 DEF AgentInv

LEMMA AgentInvNext == AgentInv /\ [AgentNext]_allVars => AgentInv'
<1> SUFFICES ASSUME AgentInv, [AgentNext]_allVars PROVE AgentInv'  OBVIOUS
<1>1. CASE RecoveryStep
  BY <1>1, ResumeKeeps, ResumedKeeps, StartRollbackKeeps, RecoveryEventKeeps, RecoveryWorkKeeps, RecoveryDoneKeeps
    DEF RecoveryStep
<1>2. CASE UNCHANGED allVars
  <2>1. /\ UNCHANGED <<source, loaded, staged, snapshot, evidence, appLock, sourceLock, actionLock, active,
                       pc, machine, plan, todo, prev, outcome, faults, edits, journalFaults>>
        /\ UNCHANGED <<draft, journal, chg, blocked, up, queue, rec, recPc, crashes, torn, cleared>>
    BY <1>2 DEF allVars, vars, coordinatorVars, diskVars, lockVars, runVars, envVars, agentVars, agentMemory,
      historyVars
  <2>2. AgentTypeOK' /\ JournalInv'
    BY <2>1 DEF AgentInv, AgentTypes, Places, AgentTypeOK, TypeOK, JournalInv, Running, Recorded
  <2> QED BY <2>1, <2>2, QuietKeeps DEF AgentInv, AgentTypes, Places
<1> QED BY <1>1, <1>2, HandlerKeeps, AgentEnvironmentKeeps, RunKeeps, CrashKeeps, RestartKeeps DEF AgentNext

\* The invariant holds of every state of the agent.
LEMMA AgentInvariant == AgentSpec => []AgentInv
  BY AgentStarts, AgentInvNext, PTL DEF AgentSpec

-----
(* What the agent promises. *)

\* A run that is killed can be found again: the content a change has left in a
\* file is one the journal has a record of, with a stored snapshot unless the
\* record is final, whatever fails and whenever the process is killed.
THEOREM WritesCanBeFound == AgentSpec => []WritesAreJournalled
<1>1. AgentInv => WritesAreJournalled  BY DEF AgentInv, ContentInv, WritesAreJournalled, Recorded, Ended
<1> QED BY <1>1, AgentInvariant, PTL

\* A step changes no final record while the journal works: the run is at its end
\* and hands no event to persistEvent, and the recovery looks at unfinished
\* records only.
LEMMA EndedStays ==
    ASSUME AgentInv, [AgentNext]_allVars, journalFaults = 0, NEW c \in Changes, Ended(c)
    PROVE  Ended(c)' /\ journal'[c].state = journal[c].state
<1>0. AgentTypes /\ Places /\ JournalInv /\ EndInv /\ RecoveryInv  BY DEF AgentInv, Places
<1>1. SUFFICES SameRecord(c)  BY DEF SameRecord, Ended, Recorded
<1>2. CASE journal' = journal  BY <1>2 DEF SameRecord, Recorded
<1>3. CASE \E d \in Changes : AgentRunStep(d)  BY <1>0, <1>3, RunKeepsEnded
<1>4. CASE \E ok \in BOOLEAN : RecoveryEvent(ok)
  <2>1. PICK d \in Changes : d = rec
    BY <1>0, <1>4, ConstantsAssumption DEF RecoveryInv, RecoveryEvent, AgentTypes, AgentTypeOK
  <2>2. d # c  BY <1>0, <1>4, <2>1 DEF EndInv, RecoveryEvent
  <2>3. PICK state : journal' = journal \/ journal' = [journal EXCEPT ![d] = RecordFor(d, state)]
    BY <1>4, <2>1 DEF RecoveryEvent, JournalEvent
  <2> QED BY <1>0, <2>2, <2>3 DEF SameRecord, Recorded, AgentTypes, AgentTypeOK
<1>5. CASE Handler  BY <1>2, <1>5 DEF Handler, Validate, Save, ApplyRequest, Cancel, ClearApplyBlock
<1>6. CASE AgentEnvironment  BY <1>2, <1>6 DEF AgentEnvironment, ExpireDraft, agentVars
<1>7. CASE Crash \/ Restart \/ RecoveryFails  BY <1>2, <1>7 DEF Crash, Restart, RecoveryFails, ProcessEnds
<1>8. CASE \E d \in Changes : ResumeRun(d) \/ StartRollback(d)  BY <1>2, <1>7, <1>8 DEF ResumeRun, StartRollback
<1>9. CASE RunResumed \/ RecoveryRestore \/ RecoveryAction \/ RecoveryDone
  BY <1>2, <1>7, <1>9 DEF RunResumed, RecoveryRestore, RecoveryAction, RecoveryDone
<1>10. CASE UNCHANGED allVars  BY <1>2, <1>10 DEF allVars, agentVars
<1> QED BY <1>3, <1>4, <1>5, <1>6, <1>7, <1>8, <1>9, <1>10 DEF AgentNext, RecoveryStep

\* The final states of the journal are final as long as its writes succeed.
THEOREM FinalRecordsStay == AgentSpec => TerminalIsFinal
<1>1. AgentInv /\ [AgentNext]_allVars
        => [\A c \in Changes :
              journalFaults = 0 /\ journal[c] # NoValue /\ journal[c].state \in TerminalApplyStates
                 => journal'[c] # NoValue /\ journal'[c].state = journal[c].state]_allVars
  BY EndedStays DEF Ended
<1> QED BY <1>1, AgentInvariant, PTL DEF AgentSpec, TerminalIsFinal

\* A failed rollback blocks its application in every serving agent until an
\* owner clears the block, also across restarts, for every MinSequence: either
\* the journal has the failure, or nothing of it can be read and no agent serves
\* again.
THEOREM FailuresBlock == AgentSpec => []FailureBlocks
<1>1. AgentInv => FailureBlocks  BY DEF AgentInv, BlockInv, FailureBlocks
<1> QED BY <1>1, AgentInvariant, PTL

\* With the sequence numbers the coordinator writes accepted (MinSequence 0), an
\* agent that serves has reconciled every unfinished record: it belongs to a run
\* in progress, as long as the journal's writes succeed.
THEOREM ServesWhatItReconciled ==
    ASSUME MinSequence = 0
    PROVE  AgentSpec => []ReadyIsReconciled
<1>1. AgentInv => ReadyIsReconciled
  <2> SUFFICES ASSUME AgentInv, NEW c \in Changes, up = "ready", journalFaults = 0,
                      Recorded(c), ~Ended(c)
               PROVE  pc[c] \notin {"idle", "over"}
    BY DEF ReadyIsReconciled, Recorded, Ended
  <2>1. rec = NoValue /\ queue = {} /\ pc[c] # "idle"  BY DEF AgentInv, Places, RecoveryInv, JournalInv
  <2>2. pc[c] # "over"  BY <2>1, ConstantsAssumption DEF AgentInv, ReconciledInv
  <2> QED BY <2>1, <2>2
<1> QED BY <1>1, AgentInvariant, PTL

(* A run that is reported ROLLED_BACK has left nothing behind, also when
   the agent was killed and its recovery rolled the run back, for any
   number of crashes. Most of it is about the journal as it is meant to be
   used, with every sequence number accepted (MinSequence = 0). With a
   larger MinSequence, 1 in the code, the first record of a run closes the
   journal, and the last section shows that no run is reported as rolled
   back at all. *)
\* What the journal says of a run.
Unfinished(c) == Recorded(c) /\ ~Ended(c)
HasWrites(c) == journal[c] # NoValue /\ journal[c].hasWrites

\* A run that ended without taking back what it wrote.
Settled(c) == Ended(c) /\ outcome[c] \in {"completed", "rollback_failed"}

\* Where an unfinished run, or the recovery of one, is when files hold its content.
HoldsNow(c, s) ==
    \/ pc[c] \in Writing \cup {"emitRollingBack", "onRollbackFailed"}
    \/ pc[c] = "restoreSnapshot" /\ s \in todo[c]
    \/ /\ pc[c] = "over" /\ HasWrites(c)
       /\ rec = c => \/ recPc \in {"emitRollingBack", "emitRollbackFailed"}
                     \/ recPc = "restore" /\ s \in todo[c]

\* Where it is when the release that runs is its build.
RunsNow(c) ==
    /\ HasWrites(c)
    /\ \/ pc[c] \in {"emitHealthChecking", "runHealth", "emitCompleted", "emitRollingBack",
                     "restoreSnapshot", "rollbackAction", "onRollbackFailed"}
       \/ /\ pc[c] = "over"
          /\ rec = c => recPc \in RecoverySteps \ {"emitRolledBack"}

\* The changes whose content a file, a release, and a snapshot or a remembered
\* release of run c may have.
MayHold(c, s) == c \in torn \/ (s \in SourcesOf[c] /\ (Settled(c) \/ (Unfinished(c) /\ HoldsNow(c, s))))
MayRun(c, s) == c \in torn \/ (s \in SourcesOf[c] /\ (Settled(c) \/ (Unfinished(c) /\ RunsNow(c))))
MayReturn(c, d, s) == d \in torn \/ (d # c /\ s \in SourcesOf[d] /\ Settled(d))

\* The journal follows the runs: a run past its application lock is recorded,
\* one past its writes is recorded with writes, one reported rolled back has a
\* final record, and a recovery that begins has all its files to restore.
RecordInv ==
    \A c \in Changes :
        /\ pc[c] \in Holding => Recorded(c)
        /\ pc[c] \in Writing \ {"writeSource", "emitWritten"} => HasWrites(c)
        /\ outcome[c] = "rolled_back" => Ended(c)
        /\ rec = c /\ recPc = "emitRollingBack" => todo[c] = SourcesOf[c]

\* An application has at most one unfinished record.
UniqueInv ==
    \A c, d \in Changes : Unfinished(c) /\ Unfinished(d) /\ AppOf[c] = AppOf[d] => c = d

\* The contents of the files and of the releases that run.
LeftInv ==
    \A c \in Changes, s \in Sources :
        /\ source[s] = c => MayHold(c, s)
        /\ loaded[s] = c /\ ActionOf[c] = "build" => MayRun(c, s)

\* What a rollback puts back: the snapshot, and the release that ran before.
ReturnInv ==
    \A c, d \in Changes : \A s \in SourcesOf[c] :
        /\ snapshot[c] # NoValue /\ snapshot[c][s] = d => MayReturn(c, d, s)
        /\ ActionOf[d] = "build" =>
             /\ prev[c] # NoValue /\ prev[c][s] = d => MayReturn(c, d, s)
             /\ Recorded(c) /\ journal[c].prev # NoValue /\ journal[c].prev[s] = d => MayReturn(c, d, s)

TraceInv == RecordInv /\ UniqueInv /\ LeftInv /\ ReturnInv
RecoveredInv == AgentInv /\ HoldsLock /\ (journalFaults = 0 => TraceInv)

-----
(* What a step leaves alone. *)

\* A run no step has touched may hold and run what it could before.
SameRun(c) ==
    /\ journal'[c] = journal[c] /\ outcome'[c] = outcome[c]
    /\ pc'[c] = pc[c] /\ todo'[c] = todo[c]
    /\ c \in torn => c \in torn'
    /\ rec' = c => rec = c /\ recPc' = recPc

LEMMA SameRunKeeps ==
    ASSUME NEW c \in Changes, SameRun(c)
    PROVE  /\ Settled(c)' = Settled(c) /\ Unfinished(c)' = Unfinished(c) /\ HasWrites(c)' = HasWrites(c)
           /\ \A s \in Sources : (MayHold(c, s) => MayHold(c, s)') /\ (MayRun(c, s) => MayRun(c, s)')
<1>1. /\ Settled(c)' = Settled(c) /\ Unfinished(c)' = Unfinished(c) /\ HasWrites(c)' = HasWrites(c)
      /\ c \in torn => c \in torn'
  BY DEF SameRun, Settled, Unfinished, HasWrites, Ended, Recorded
<1>2. \A s \in Sources : HoldsNow(c, s) => HoldsNow(c, s)'  BY <1>1 DEF SameRun, HoldsNow
<1>3. RunsNow(c) => RunsNow(c)'  BY <1>1 DEF SameRun, RunsNow
<1> QED BY <1>1, <1>2, <1>3 DEF MayHold, MayRun

\* A step of the environment or of a handler: runs, records and releases are as
\* they were but for a run that is started, files but for edits, and snapshots
\* but for expired ones.
LEMMA QuietTrace ==
    ASSUME AgentInv, RecoveredInv,
           UNCHANGED <<journal, outcome, todo, rec, recPc, torn, appLock, loaded, prev, journalFaults>>,
           \A c \in Changes : pc'[c] = pc[c] \/ (pc[c] = "idle" /\ pc'[c] = "readStaged"),
           \A c \in Changes : snapshot'[c] = snapshot[c] \/ snapshot'[c] = NoValue,
           \A s \in Sources : source'[s] = source[s] \/ source'[s] = Edited
    PROVE  HoldsLock' /\ (journalFaults' = 0 => TraceInv')
<1>1. HoldsLock'  BY DEF RecoveredInv, HoldsLock, Holding, BeforeWrite, Writing, RollingBack, NoWriteRollingBack
<1> SUFFICES ASSUME journalFaults = 0 PROVE TraceInv'  BY <1>1
<1>2. RecordInv /\ UniqueInv /\ LeftInv /\ ReturnInv  BY DEF RecoveredInv, TraceInv
<1>3. \A c \in Changes : Recorded(c)' = Recorded(c) /\ Ended(c)' = Ended(c) /\ Unfinished(c)' = Unfinished(c)
                         /\ HasWrites(c)' = HasWrites(c) /\ Settled(c)' = Settled(c)
  BY DEF Recorded, Ended, Unfinished, HasWrites, Settled
<1>4. \A c \in Changes : SameRun(c) \/ ~Recorded(c)  BY DEF SameRun, AgentInv, Places, JournalInv
<1>5. RecordInv'  BY <1>2, <1>3 DEF RecordInv, Holding, BeforeWrite, Writing, RollingBack, NoWriteRollingBack
<1>6. UniqueInv'  BY <1>2, <1>3 DEF UniqueInv
<1>7. \A c \in Changes, s \in Sources : (MayHold(c, s) => MayHold(c, s)') /\ (MayRun(c, s) => MayRun(c, s)')
  <2> SUFFICES ASSUME NEW c \in Changes, NEW s \in Sources
               PROVE  (MayHold(c, s) => MayHold(c, s)') /\ (MayRun(c, s) => MayRun(c, s)')
    OBVIOUS
  <2>1. CASE SameRun(c)  BY <2>1, SameRunKeeps
  <2>2. CASE ~Recorded(c)  BY <2>2 DEF MayHold, MayRun, Settled, Unfinished, Ended, Recorded
  <2> QED BY <1>4, <2>1, <2>2
<1>8. LeftInv'  BY <1>2, <1>7, ConstantsAssumption DEF LeftInv
<1>9. \A c, d \in Changes, s \in Sources : MayReturn(c, d, s) => MayReturn(c, d, s)'  BY <1>3 DEF MayReturn
<1>10. ReturnInv'
  <2>1. \A c \in Changes : SourcesOf[c] \subseteq Sources  BY ConstantsAssumption
  <2> QED BY <1>2, <1>3, <1>9, <2>1 DEF ReturnInv
<1> QED BY <1>5, <1>6, <1>8, <1>10 DEF TraceInv

LEMMA HandlerTrace == RecoveredInv /\ Handler => HoldsLock' /\ (journalFaults' = 0 => TraceInv')
<1> SUFFICES ASSUME RecoveredInv, Handler PROVE HoldsLock' /\ (journalFaults' = 0 => TraceInv')  OBVIOUS
<1>0. AgentInv /\ TypeOK  BY DEF RecoveredInv, AgentInv, AgentTypes, AgentTypeOK
<1>1. /\ UNCHANGED <<journal, outcome, todo, rec, recPc, torn, appLock, loaded, prev, journalFaults, snapshot, source>>
      /\ pc' = pc \/ \E c \in Changes : pc[c] = "idle" /\ pc' = [pc EXCEPT ![c] = "readStaged"]
  BY DEF Handler, Validate, Save, ApplyRequest, Cancel, ClearApplyBlock, Apply, Goto, vars, coordinatorVars, diskVars,
    lockVars, runVars, envVars, historyVars
<1>2. \A c \in Changes : pc'[c] = pc[c] \/ (pc[c] = "idle" /\ pc'[c] = "readStaged")  BY <1>0, <1>1 DEF TypeOK
<1> QED BY <1>0, <1>1, <1>2, QuietTrace

LEMMA EnvironmentTrace == RecoveredInv /\ AgentEnvironment => HoldsLock' /\ (journalFaults' = 0 => TraceInv')
<1> SUFFICES ASSUME RecoveredInv, AgentEnvironment PROVE HoldsLock' /\ (journalFaults' = 0 => TraceInv')  OBVIOUS
<1>0. AgentInv /\ TypeOK  BY DEF RecoveredInv, AgentInv, AgentTypes, AgentTypeOK
<1>1. /\ UNCHANGED <<journal, outcome, todo, rec, recPc, torn, appLock, loaded, prev, journalFaults, pc>>
      /\ snapshot' = snapshot \/ \E c \in Changes : snapshot' = [snapshot EXCEPT ![c] = NoValue]
      /\ source' = source \/ \E s \in Sources : source' = [source EXCEPT ![s] = Edited]
  BY DEF AgentEnvironment, ExpireDraft, Unstage, ExpireSnapshot, Edit, agentVars, agentMemory, coordinatorVars,
    diskVars, lockVars, runVars, envVars, historyVars
<1>2. /\ \A c \in Changes : snapshot'[c] = snapshot[c] \/ snapshot'[c] = NoValue
      /\ \A s \in Sources : source'[s] = source[s] \/ source'[s] = Edited
  BY <1>0, <1>1 DEF TypeOK, Images
<1> QED BY <1>0, <1>1, <1>2, QuietTrace

\* The restart, the end of the recovery, and the resumption of nothing.
LEMMA RestartTrace ==
    RecoveredInv /\ (Restart \/ RecoveryDone \/ UNCHANGED allVars) => HoldsLock' /\ (journalFaults' = 0 => TraceInv')
<1> SUFFICES ASSUME RecoveredInv, Restart \/ RecoveryDone \/ UNCHANGED allVars
             PROVE  HoldsLock' /\ (journalFaults' = 0 => TraceInv')
  OBVIOUS
<1>1. AgentInv  BY DEF RecoveredInv
<1>2. UNCHANGED <<journal, outcome, todo, rec, recPc, torn, appLock, loaded, prev, journalFaults, pc, snapshot, source>>
  BY DEF Restart, RecoveryDone, allVars, agentVars, agentMemory, vars, coordinatorVars, diskVars, lockVars, runVars,
    envVars, historyVars
<1> QED BY <1>1, <1>2, QuietTrace

-----
(* The end of the process. *)

\* Whatever an unfinished run had written is written down: in its record, or
\* among the torn runs.
LEMMA EndTrace ==
    ASSUME RecoveredInv, ProcessEnds, torn \subseteq torn',
           UnrecordedWrites \subseteq torn' \/ (\A c \in Changes : ~Running(c))
    PROVE  HoldsLock' /\ (journalFaults' = 0 => TraceInv')
<1>0. AgentInv /\ TypeOK /\ JournalInv  BY DEF RecoveredInv, AgentInv, AgentTypes, AgentTypeOK, Places
<1>1. /\ UNCHANGED <<source, loaded, snapshot, outcome, journal, journalFaults>>
      /\ rec' = NoValue
      /\ \A c \in Changes : pc'[c] = IF pc[c] = "idle" THEN "idle" ELSE "over"
      /\ \A c \in Changes : prev'[c] = NoValue
  BY DEF ProcessEnds, diskVars, envVars
<1>2. HoldsLock'  BY <1>1 DEF HoldsLock, Holding, BeforeWrite, Writing, RollingBack, NoWriteRollingBack
<1> SUFFICES ASSUME journalFaults = 0 PROVE TraceInv'  BY <1>1, <1>2
<1>3. RecordInv /\ UniqueInv /\ LeftInv /\ ReturnInv  BY DEF RecoveredInv, TraceInv
<1>4. \A c \in Changes : Recorded(c)' = Recorded(c) /\ Ended(c)' = Ended(c) /\ Unfinished(c)' = Unfinished(c)
                         /\ HasWrites(c)' = HasWrites(c) /\ Settled(c)' = Settled(c)
  BY <1>1 DEF Recorded, Ended, Unfinished, HasWrites, Settled
<1>5. RecordInv'
  BY <1>1, <1>3, <1>4, ConstantsAssumption DEF RecordInv, Holding, BeforeWrite, Writing, RollingBack,
    NoWriteRollingBack
<1>6. UniqueInv'  BY <1>3, <1>4 DEF UniqueInv
<1>7. \A c \in Changes : Unfinished(c) /\ HasWrites(c) =>
          \A s \in Sources : HoldsNow(c, s)' /\ RunsNow(c)'
  BY <1>0, <1>1, <1>4, ConstantsAssumption DEF JournalInv, Unfinished, HoldsNow, RunsNow
<1>8. ASSUME NEW c \in Changes, NEW s \in Sources, source[s] = c PROVE MayHold(c, s)'
  <2>1. MayHold(c, s)  BY <1>3, <1>8 DEF LeftInv
  <2>2. CASE c \in torn \/ (s \in SourcesOf[c] /\ Settled(c))  BY <1>4, <2>2 DEF MayHold
  <2>3. CASE s \in SourcesOf[c] /\ Unfinished(c) /\ HasWrites(c)  BY <1>4, <1>7, <2>3 DEF MayHold
  <2>4. CASE Unfinished(c) /\ HoldsNow(c, s) /\ ~HasWrites(c) /\ c \notin torn'
    <3>1. c \in UnrecordedWrites  BY <1>8, <2>4 DEF UnrecordedWrites, Unfinished, Recorded, HasWrites
    <3>2. pc[c] \notin {"idle", "over"}  BY <2>4 DEF HoldsNow, Writing
    <3> QED BY <2>4, <3>1, <3>2 DEF Running
  <2> QED BY <2>1, <2>2, <2>3, <2>4 DEF MayHold
<1>9. ASSUME NEW c \in Changes, NEW s \in Sources, MayRun(c, s) PROVE MayRun(c, s)'
  BY <1>4, <1>7, <1>9 DEF MayRun, RunsNow
<1>10. LeftInv'  BY <1>1, <1>3, <1>8, <1>9 DEF LeftInv
<1>11. \A c, d \in Changes, s \in Sources : MayReturn(c, d, s) => MayReturn(c, d, s)'  BY <1>4 DEF MayReturn
<1>12. ReturnInv'
  <2>1. \A c \in Changes : SourcesOf[c] \subseteq Sources  BY ConstantsAssumption
  <2> QED BY <1>1, <1>3, <1>4, <1>11, <2>1 DEF ReturnInv
<1> QED BY <1>5, <1>6, <1>10, <1>12 DEF TraceInv

LEMMA CrashTrace == RecoveredInv /\ Crash => HoldsLock' /\ (journalFaults' = 0 => TraceInv')
  BY EndTrace DEF Crash

\* The recovery gives up only between two runs.
LEMMA GiveUpTrace ==
    ASSUME RecoveredInv, RecoveryFails, up = "recovering",
           rec = NoValue \/ (recPc = "resume" /\ pc[rec] = "over")
    PROVE  HoldsLock' /\ (journalFaults' = 0 => TraceInv')
<1>1. \A c \in Changes : ~Running(c)  BY ConstantsAssumption DEF RecoveredInv, AgentInv, Places, RecoveryInv, Running
<1> QED BY <1>1, EndTrace DEF RecoveryFails

-----
(* The recovery. *)

\* A record without writes is resumed: if the run is not torn, no file and no
\* release has its content.
LEMMA ResumeTrace ==
    ASSUME RecoveredInv, NEW c \in Changes, ResumeRun(c)
    PROVE  HoldsLock' /\ (journalFaults' = 0 => TraceInv')
<1>0. AgentInv /\ TypeOK /\ RecoveryInv  BY DEF RecoveredInv, AgentInv, AgentTypes, AgentTypeOK, Places
<1>1. /\ UNCHANGED <<source, loaded, snapshot, prev, todo, appLock, journal, journalFaults, torn>>
      /\ rec = NoValue /\ rec' = c /\ recPc' = "resume" /\ ~HasWrites(c)
      /\ \A d \in Changes : pc'[d] = IF d = c THEN "readStaged" ELSE pc[d]
      /\ \A d \in Changes : outcome'[d] = IF d = c THEN "none" ELSE outcome[d]
      /\ pc[c] = "over" /\ Unfinished(c)
  BY <1>0 DEF ResumeRun, Goto, diskVars, lockVars, envVars, historyVars, HasWrites, Unfinished, RecoveryInv, TypeOK
<1>2. HoldsLock'  BY <1>1 DEF RecoveredInv, HoldsLock, Holding, BeforeWrite, Writing, RollingBack, NoWriteRollingBack
<1> SUFFICES ASSUME journalFaults = 0 PROVE TraceInv'  BY <1>1, <1>2
<1>3. RecordInv /\ UniqueInv /\ LeftInv /\ ReturnInv  BY DEF RecoveredInv, TraceInv
<1>4. /\ \A d \in Changes : Recorded(d)' = Recorded(d) /\ Ended(d)' = Ended(d) /\ Unfinished(d)' = Unfinished(d)
                            /\ HasWrites(d)' = HasWrites(d) /\ Settled(d)' = Settled(d)
      /\ ~Settled(c)
  BY <1>1 DEF Recorded, Ended, Unfinished, HasWrites, Settled
<1>5. \A d \in Changes : d # c => SameRun(d)  BY <1>1 DEF SameRun
<1>6. RecordInv'  BY <1>1, <1>3, <1>4 DEF RecordInv, Holding, BeforeWrite, Writing, RollingBack, NoWriteRollingBack
<1>7. UniqueInv'  BY <1>3, <1>4 DEF UniqueInv
<1>8. ASSUME NEW d \in Changes, NEW s \in Sources
      PROVE  (MayHold(d, s) => MayHold(d, s)') /\ (MayRun(d, s) => MayRun(d, s)')
  <2>1. CASE d # c  BY <1>5, <2>1, SameRunKeeps
  <2>2. CASE d = c
    <3>1. ~HoldsNow(c, s) /\ ~RunsNow(c)  BY <1>1 DEF HoldsNow, RunsNow, Writing
    <3> QED BY <1>1, <1>4, <2>2, <3>1 DEF MayHold, MayRun
  <2> QED BY <2>1, <2>2
<1>9. LeftInv'  BY <1>1, <1>3, <1>8 DEF LeftInv
<1>10. \A d, e \in Changes, s \in Sources : MayReturn(d, e, s) => MayReturn(d, e, s)'  BY <1>1, <1>4 DEF MayReturn
<1>11. ReturnInv'
  <2>1. \A d \in Changes : SourcesOf[d] \subseteq Sources  BY ConstantsAssumption
  <2> QED BY <1>1, <1>3, <1>4, <1>10, <2>1 DEF ReturnInv
<1> QED BY <1>6, <1>7, <1>9, <1>11 DEF TraceInv

\* A resumed run is over: what it may hold it may hold as a run that is over.
LEMMA ResumedTrace == RecoveredInv /\ RunResumed => HoldsLock' /\ (journalFaults' = 0 => TraceInv')
<1> SUFFICES ASSUME RecoveredInv, RunResumed PROVE HoldsLock' /\ (journalFaults' = 0 => TraceInv')  OBVIOUS
<1>1. CASE RecoveryFails  BY <1>1, GiveUpTrace DEF RunResumed
<1>2. CASE ~RecoveryFails
  <2>1. UNCHANGED <<source, loaded, snapshot, prev, pc, outcome, todo, appLock, journal, journalFaults, torn>>
        /\ rec' = NoValue /\ recPc' = "none"
    BY <1>2 DEF RunResumed, vars, coordinatorVars, diskVars, lockVars, runVars, envVars, historyVars
  <2>2. \A c \in Changes : SameRun(c)  BY <2>1, ConstantsAssumption DEF SameRun
  <2>3. HoldsLock'  BY <2>1 DEF RecoveredInv, HoldsLock
  <2> SUFFICES ASSUME journalFaults = 0 PROVE TraceInv'  BY <2>1, <2>3
  <2>4. RecordInv /\ UniqueInv /\ LeftInv /\ ReturnInv  BY DEF RecoveredInv, TraceInv
  <2>5. \A c \in Changes : Recorded(c)' = Recorded(c) /\ Ended(c)' = Ended(c) /\ Unfinished(c)' = Unfinished(c)
                           /\ HasWrites(c)' = HasWrites(c) /\ Settled(c)' = Settled(c)
    BY <2>1 DEF Recorded, Ended, Unfinished, HasWrites, Settled
  <2>6. RecordInv' /\ UniqueInv'  BY <2>1, <2>4, <2>5, ConstantsAssumption DEF RecordInv, UniqueInv
  <2>7. LeftInv'  BY <2>1, <2>2, <2>4, SameRunKeeps DEF LeftInv
  <2>8. ReturnInv'  BY <2>1, <2>4, <2>5 DEF ReturnInv, MayReturn
  <2> QED BY <2>6, <2>7, <2>8 DEF TraceInv
<1> QED BY <1>1, <1>2

\* A record with writes is rolled back: all its files are to be restored, and
\* the release it replaced is the one the journal remembers.
LEMMA StartRollbackTrace ==
    ASSUME RecoveredInv, NEW c \in Changes, StartRollback(c)
    PROVE  HoldsLock' /\ (journalFaults' = 0 => TraceInv')
<1>1. CASE RecoveryFails  BY <1>1, GiveUpTrace DEF StartRollback
<1>2. CASE ~RecoveryFails
  <2>0. AgentInv /\ TypeOK /\ RecoveryInv  BY DEF RecoveredInv, AgentInv, AgentTypes, AgentTypeOK, Places
  <2>1. /\ UNCHANGED <<source, loaded, snapshot, appLock, journal, journalFaults, torn, pc>>
        /\ rec = NoValue /\ rec' = c /\ recPc' = "emitRollingBack" /\ HasWrites(c)
        /\ \A d \in Changes : todo'[d] = IF d = c THEN SourcesOf[c] ELSE todo[d]
        /\ \A d \in Changes : prev'[d] = IF d = c THEN journal[c].prev ELSE prev[d]
        /\ \A d \in Changes : outcome'[d] = IF d = c THEN "none" ELSE outcome[d]
        /\ pc[c] = "over" /\ Unfinished(c)
    BY <1>2, <2>0 DEF StartRollback, diskVars, lockVars, envVars, historyVars, HasWrites, Unfinished, Recorded,
      RecoveryInv, TypeOK
  <2>2. HoldsLock'  BY <2>1 DEF RecoveredInv, HoldsLock
  <2> SUFFICES ASSUME journalFaults = 0 PROVE TraceInv'  BY <2>1, <2>2
  <2>3. RecordInv /\ UniqueInv /\ LeftInv /\ ReturnInv  BY DEF RecoveredInv, TraceInv
  <2>4. /\ \A d \in Changes : Recorded(d)' = Recorded(d) /\ Ended(d)' = Ended(d) /\ Unfinished(d)' = Unfinished(d)
                              /\ HasWrites(d)' = HasWrites(d) /\ Settled(d)' = Settled(d)
        /\ ~Settled(c)
    BY <2>1 DEF Recorded, Ended, Unfinished, HasWrites, Settled
  <2>5. \A d \in Changes : d # c => SameRun(d)  BY <2>1 DEF SameRun
  <2>6. RecordInv' /\ UniqueInv'
    BY <2>1, <2>3, <2>4 DEF RecordInv, UniqueInv, Holding, BeforeWrite, Writing, RollingBack, NoWriteRollingBack
  <2>7. ASSUME NEW d \in Changes, NEW s \in Sources
        PROVE  (MayHold(d, s) => MayHold(d, s)') /\ (MayRun(d, s) => MayRun(d, s)')
    <3>1. CASE d # c  BY <2>5, <3>1, SameRunKeeps
    <3>2. CASE d = c
      <4>1. HoldsNow(c, s)' /\ RunsNow(c)'  BY <2>1, <2>4 DEF HoldsNow, RunsNow, RecoverySteps
      <4> QED BY <2>1, <2>4, <3>2, <4>1 DEF MayHold, MayRun
    <3> QED BY <3>1, <3>2
  <2>8. LeftInv'  BY <2>1, <2>3, <2>7 DEF LeftInv
  <2>9. \A d, e \in Changes, s \in Sources : MayReturn(d, e, s) => MayReturn(d, e, s)'  BY <2>1, <2>4 DEF MayReturn
  <2>10. ReturnInv'
    <3>1. \A d \in Changes : SourcesOf[d] \subseteq Sources  BY ConstantsAssumption
    <3>2. Recorded(c)  BY <2>1 DEF Unfinished
    <3> QED BY <2>1, <2>3, <2>4, <2>9, <3>1, <3>2 DEF ReturnInv
  <2> QED BY <2>6, <2>8, <2>10 DEF TraceInv
<1> QED BY <1>1, <1>2

\* What an event that is recorded changes of the journal.
LEMMA RecordedEvent ==
    ASSUME AgentTypeOK, NEW c \in Changes, NEW state \in ApplyStates, chg[c] # NoValue, chg[c].digest # NoValue,
           journal' = [journal EXCEPT ![c] = RecordFor(c, state)]
    PROVE  /\ \A d \in Changes : d # c => journal'[d] = journal[d]
           /\ Recorded(c)' /\ journal'[c].state = state
           /\ Ended(c)' <=> state \in TerminalApplyStates
           /\ HasWrites(c)' <=> HasWrites(c) \/ state \in WroteStates
           /\ journal'[c].prev # NoValue =>
                 \/ prev[c] # NoValue /\ journal'[c].prev = prev[c]
                 \/ Recorded(c) /\ journal[c].prev # NoValue /\ journal'[c].prev = journal[c].prev
<1>1. journal'[c] = RecordFor(c, state) /\ \A d \in Changes : d # c => journal'[d] = journal[d]  BY DEF AgentTypeOK
<1>2. RecordFor(c, state) # NoValue /\ RecordFor(c, state).state = state  BY RecordForType, AgentAssumption
<1>3. RecordFor(c, state).hasWrites <=> HasWrites(c) \/ state \in WroteStates  BY DEF RecordFor, HasWrites
<1>4. RecordFor(c, state).prev # NoValue =>
         \/ prev[c] # NoValue /\ RecordFor(c, state).prev = prev[c]
         \/ Recorded(c) /\ journal[c].prev # NoValue /\ RecordFor(c, state).prev = journal[c].prev
  BY DEF RecordFor, Recorded
<1> QED BY <1>1, <1>2, <1>3, <1>4 DEF Recorded, Ended, HasWrites

\* The records of the releases that ran before, after an event of run c.
LEMMA RecordedReturn ==
    ASSUME AgentTypeOK, ReturnInv, NEW c \in Changes,
           \A d \in Changes : d # c => journal'[d] = journal[d],
           Recorded(c)' /\ journal'[c].prev # NoValue =>
                 \/ prev[c] # NoValue /\ journal'[c].prev = prev[c]
                 \/ prev'[c] # NoValue /\ journal'[c].prev = prev'[c]
                 \/ Recorded(c) /\ journal[c].prev # NoValue /\ journal'[c].prev = journal[c].prev,
           \A d, e \in Changes, s \in Sources : MayReturn(d, e, s) => MayReturn(d, e, s)',
           \A d, e \in Changes : \A s \in SourcesOf[d] :
              /\ snapshot'[d] # NoValue /\ snapshot'[d][s] = e => MayReturn(d, e, s)'
              /\ ActionOf[e] = "build" /\ prev'[d] # NoValue /\ prev'[d][s] = e => MayReturn(d, e, s)'
    PROVE  ReturnInv'
<1>1. ASSUME NEW d \in Changes, NEW e \in Changes, NEW s \in SourcesOf[d], ActionOf[e] = "build",
             Recorded(d)', journal'[d].prev # NoValue, journal'[d].prev[s] = e
      PROVE  MayReturn(d, e, s)'
  <2>1. s \in Sources  BY ConstantsAssumption
  <2>2. CASE Recorded(d) /\ journal[d].prev # NoValue /\ journal'[d].prev = journal[d].prev
    <3>1. MayReturn(d, e, s)  BY <1>1, <2>2 DEF ReturnInv
    <3> QED BY <2>1, <3>1
  <2>3. CASE prev[d] # NoValue /\ journal'[d].prev = prev[d]
    <3>1. MayReturn(d, e, s)  BY <1>1, <2>3 DEF ReturnInv
    <3> QED BY <2>1, <3>1
  <2>4. CASE prev'[d] # NoValue /\ journal'[d].prev = prev'[d]  BY <1>1, <2>4
  <2>5. CASE d # c  BY <1>1, <2>2, <2>5 DEF Recorded
  <2> QED BY <1>1, <2>2, <2>3, <2>4, <2>5
<1>2. ASSUME NEW d \in Changes, NEW e \in Changes, NEW s \in SourcesOf[d]
      PROVE  /\ snapshot'[d] # NoValue /\ snapshot'[d][s] = e => MayReturn(d, e, s)'
             /\ ActionOf[e] = "build" =>
                  /\ prev'[d] # NoValue /\ prev'[d][s] = e => MayReturn(d, e, s)'
                  /\ Recorded(d)' /\ journal'[d].prev # NoValue /\ journal'[d].prev[s] = e => MayReturn(d, e, s)'
  BY <1>1
<1> QED BY <1>2 DEF ReturnInv, Recorded

\* An event of the recovery is recorded, and the run is over when it is the last.
LEMMA RecoveryEventTrace ==
    ASSUME MinSequence = 0, RecoveredInv, NEW ok \in BOOLEAN, RecoveryEvent(ok)
    PROVE  HoldsLock' /\ (journalFaults' = 0 => TraceInv')
<1>0. AgentInv /\ AgentTypeOK /\ TypeOK /\ RecoveryInv /\ JournalInv /\ EndInv
  BY DEF RecoveredInv, AgentInv, AgentTypes, AgentTypeOK, Places
<1>1. UNCHANGED <<source, loaded, snapshot, appLock, pc, todo, torn>>
  BY DEF RecoveryEvent, diskVars, lockVars, historyVars
<1>2. HoldsLock'  BY <1>1 DEF RecoveredInv, HoldsLock
<1> SUFFICES ASSUME journalFaults' = 0 PROVE TraceInv'  BY <1>2
<1>c. PICK c \in Changes : c = rec  BY <1>0, ConstantsAssumption DEF RecoveryInv, RecoveryEvent, AgentTypeOK
<1>s. PICK state \in {"ROLLING_BACK", "ROLLED_BACK", "ROLLBACK_FAILED"} :
              state = IF recPc = "emitRollingBack" THEN "ROLLING_BACK"
                      ELSE IF recPc = "emitRolledBack" THEN "ROLLED_BACK" ELSE "ROLLBACK_FAILED"
  OBVIOUS
<1>3. recPc \in {"emitRollingBack", "emitRolledBack", "emitRollbackFailed"}
      /\ \E extra : JournalEvent(c, state, ok, extra)
  BY <1>c, <1>s DEF RecoveryEvent
<1>4. JournalReadable /\ ok /\ journalFaults = 0 /\ journal' = [journal EXCEPT ![c] = RecordFor(c, state)]
  <2>1. JournalReadable  BY <1>0, AlwaysReadable
  <2>2. journalFaults \in Nat  BY <1>0, ConstantsAssumption DEF TypeOK
  <2> QED BY <1>3, <2>1, <2>2 DEF JournalEvent
<1>5. RecordInv /\ UniqueInv /\ LeftInv /\ ReturnInv  BY <1>4 DEF RecoveredInv, TraceInv
<1>6. pc[c] = "over" /\ Unfinished(c) /\ chg[c] # NoValue /\ chg[c].digest # NoValue /\ state \in ApplyStates
      /\ state \in WroteStates
  <2>1. recPc # "resume" /\ rec # NoValue  BY <1>3, <1>c, ConstantsAssumption
  <2> QED BY <1>0, <1>c, <1>3, <1>4, <2>1 DEF RecoveryInv, JournalInv, EndInv, Unfinished, ApplyStates, WroteStates
<1>7. /\ \A d \in Changes : d # c => journal'[d] = journal[d]
      /\ Recorded(c)' /\ HasWrites(c)'
      /\ Ended(c)' <=> state # "ROLLING_BACK"
      /\ journal'[c].prev # NoValue =>
                 \/ prev[c] # NoValue /\ journal'[c].prev = prev[c]
                 \/ Recorded(c) /\ journal[c].prev # NoValue /\ journal'[c].prev = journal[c].prev
  <2>1. state \in TerminalApplyStates <=> state # "ROLLING_BACK"  BY DEF TerminalApplyStates
  <2> QED BY <1>0, <1>4, <1>6, <2>1, RecordedEvent
<1>8. \/ /\ state = "ROLLING_BACK" /\ recPc = "emitRollingBack" /\ recPc' = "restore"
         /\ UNCHANGED <<rec, outcome, prev>>
      \/ /\ state = "ROLLED_BACK" /\ recPc = "emitRolledBack" /\ recPc' = "none" /\ rec' = NoValue
         /\ \A d \in Changes : outcome'[d] = IF d = c THEN "rolled_back" ELSE outcome[d]
         /\ \A d \in Changes : prev'[d] = IF d = c THEN NoValue ELSE prev[d]
      \/ /\ state = "ROLLBACK_FAILED" /\ recPc = "emitRollbackFailed" /\ recPc' = "none" /\ rec' = NoValue
         /\ \A d \in Changes : outcome'[d] = IF d = c THEN "rollback_failed" ELSE outcome[d]
         /\ \A d \in Changes : prev'[d] = IF d = c THEN NoValue ELSE prev[d]
  BY <1>0, <1>4, <1>c, <1>s DEF RecoveryEvent, TypeOK
<1>9. /\ rec' \in {c, NoValue} /\ (recPc' # "none" => recPc' = "restore")
      /\ \A d \in Changes : d # c => outcome'[d] = outcome[d]
      /\ \A d \in Changes : prev'[d] = prev[d] \/ prev'[d] = NoValue
      /\ ~Settled(c)
  BY <1>6, <1>8, <1>c DEF Settled, Unfinished
<1>10. \A d \in Changes : d # c => SameRun(d)  BY <1>1, <1>7, <1>9, ConstantsAssumption DEF SameRun
<1>11. \A d \in Changes : d # c =>
           Settled(d)' = Settled(d) /\ Unfinished(d)' = Unfinished(d) /\ HasWrites(d)' = HasWrites(d)
  BY <1>10, SameRunKeeps
<1>12. RecordInv'
  <2>1. \A d \in Changes : d # c => Recorded(d)' = Recorded(d) /\ Ended(d)' = Ended(d)  BY <1>7 DEF Recorded, Ended
  <2>2. outcome'[c] = "rolled_back" => Ended(c)'  BY <1>5, <1>6, <1>7, <1>8 DEF RecordInv, Unfinished
  <2>3. recPc' # "emitRollingBack"  BY <1>8
  <2> QED BY <1>1, <1>5, <1>7, <1>9, <1>11, <2>1, <2>2, <2>3 DEF RecordInv
<1>13. UniqueInv'  BY <1>5, <1>6, <1>11 DEF UniqueInv
<1>14. ASSUME NEW d \in Changes, NEW s \in Sources
       PROVE  (MayHold(d, s) => MayHold(d, s)') /\ (MayRun(d, s) => MayRun(d, s)')
  <2>1. CASE d # c  BY <1>10, <2>1, SameRunKeeps
  <2>2. CASE d = c /\ c \in torn  BY <1>1, <2>2 DEF MayHold, MayRun
  <2>3. CASE d = c /\ c \notin torn
    <3>1. CASE state = "ROLLING_BACK"
      <4>1. Unfinished(c)'  BY <1>7, <3>1 DEF Unfinished
      <4>2. s \in SourcesOf[c] => s \in todo[c]  BY <1>5, <1>8, <1>c, <3>1 DEF RecordInv
      <4>3. s \in SourcesOf[c] => HoldsNow(c, s)'  BY <1>1, <1>6, <1>7, <1>8, <3>1, <4>2 DEF HoldsNow
      <4>4. RunsNow(c)'  BY <1>1, <1>6, <1>7, <1>8, <3>1 DEF RunsNow, RecoverySteps
      <4> QED BY <1>1, <1>9, <2>3, <4>1, <4>3, <4>4 DEF MayHold, MayRun
    <3>2. CASE state = "ROLLED_BACK"
      <4>1. ~HoldsNow(c, s) /\ ~RunsNow(c)  BY <1>6, <1>8, <1>c, <3>2 DEF HoldsNow, RunsNow, Writing
      <4> QED BY <1>9, <2>3, <4>1 DEF MayHold, MayRun
    <3>3. CASE state = "ROLLBACK_FAILED"
      <4>1. Settled(c)'  BY <1>7, <1>8, <3>3 DEF Settled
      <4> QED BY <2>3, <4>1 DEF MayHold, MayRun
    <3> QED BY <3>1, <3>2, <3>3
  <2> QED BY <2>1, <2>2, <2>3
<1>15. LeftInv'  BY <1>1, <1>5, <1>14 DEF LeftInv
<1>16. \A d, e \in Changes, s \in Sources : MayReturn(d, e, s) => MayReturn(d, e, s)'
  BY <1>1, <1>9, <1>11 DEF MayReturn
<1>17. ReturnInv'
  <2>1. \A d \in Changes : SourcesOf[d] \subseteq Sources  BY ConstantsAssumption
  <2>2. \A d, e \in Changes : \A s \in SourcesOf[d] :
              /\ snapshot'[d] # NoValue /\ snapshot'[d][s] = e => MayReturn(d, e, s)'
              /\ ActionOf[e] = "build" /\ prev'[d] # NoValue /\ prev'[d][s] = e => MayReturn(d, e, s)'
    BY <1>1, <1>5, <1>9, <1>16, <2>1 DEF ReturnInv
  <2> QED BY <1>0, <1>5, <1>7, <1>16, <2>2, RecordedReturn
<1> QED BY <1>12, <1>13, <1>15, <1>17 DEF TraceInv

\* The recovery puts back a snapshot, which has no content but of settled runs.
LEMMA RestoreTrace ==
    RecoveredInv /\ RecoveryRestore => HoldsLock' /\ (journalFaults' = 0 => TraceInv')
<1> SUFFICES ASSUME RecoveredInv, RecoveryRestore PROVE HoldsLock' /\ (journalFaults' = 0 => TraceInv')  OBVIOUS
<1>0. AgentInv /\ TypeOK /\ RecoveryInv /\ EndInv /\ TodoInv
  BY DEF RecoveredInv, AgentInv, AgentTypes, AgentTypeOK, Places
<1>c. PICK c \in Changes : c = rec
  BY <1>0, ConstantsAssumption DEF RecoveryInv, RecoveryRestore, AgentInv, AgentTypes, AgentTypeOK
<1>1. /\ UNCHANGED <<loaded, snapshot, appLock, pc, torn, journal, journalFaults, prev, outcome, rec>>
      /\ recPc = "restore" /\ recPc' \in {"restore", "rollbackAction", "emitRollbackFailed"}
  BY DEF RecoveryRestore, lockVars, historyVars
<1>2. HoldsLock'  BY <1>1 DEF RecoveredInv, HoldsLock
<1> SUFFICES ASSUME journalFaults = 0 PROVE TraceInv'  BY <1>1, <1>2
<1>3. RecordInv /\ UniqueInv /\ LeftInv /\ ReturnInv  BY DEF RecoveredInv, TraceInv
<1>4. pc[c] = "over" /\ snapshot[c] # NoValue  BY <1>0, <1>1, <1>c, ConstantsAssumption DEF RecoveryInv
<1>5. PICK s \in todo[c] :
        /\ \/ source' = [source EXCEPT ![s] = snapshot[c][s]]
           \/ source' = source /\ recPc' = "emitRollbackFailed"
        /\ \/ /\ todo' = [todo EXCEPT ![c] = todo[c] \ {s}]
              /\ recPc' = IF todo[c] = {s} THEN "rollbackAction" ELSE recPc
           \/ recPc' = "emitRollbackFailed" /\ todo' = [todo EXCEPT ![c] = {}]
  BY <1>c DEF RecoveryRestore
<1>6. s \in SourcesOf[c] /\ s \in Sources /\ \A d \in Changes : SourcesOf[d] \subseteq Sources
  BY <1>0, ConstantsAssumption DEF TodoInv
<1>7. /\ \A d \in Changes : d # c => todo'[d] = todo[d]
      /\ \A t \in Sources : t # s => source'[t] = source[t]
      /\ source'[s] = snapshot[c][s] \/ (source'[s] = source[s] /\ recPc' = "emitRollbackFailed")
      /\ recPc' = "restore" => todo'[c] = todo[c] \ {s}
      /\ recPc' = "rollbackAction" => todo[c] = {s}
  BY <1>0, <1>1, <1>5, <1>6 DEF TypeOK, Images
<1>8. \A d \in Changes : Recorded(d)' = Recorded(d) /\ Ended(d)' = Ended(d) /\ Unfinished(d)' = Unfinished(d)
                         /\ HasWrites(d)' = HasWrites(d) /\ Settled(d)' = Settled(d)
  BY <1>1 DEF Recorded, Ended, Unfinished, HasWrites, Settled
<1>9. \A d \in Changes : d # c => SameRun(d)  BY <1>1, <1>7, <1>c DEF SameRun
<1>10. RecordInv' /\ UniqueInv'
  <2>1. recPc' # "emitRollingBack"  BY <1>1
  <2> QED BY <1>1, <1>3, <1>8, <2>1 DEF RecordInv, UniqueInv
<1>11. ASSUME NEW d \in Changes, NEW t \in Sources, MayRun(d, t) PROVE MayRun(d, t)'
  <2>1. CASE d # c  BY <1>9, <1>11, <2>1, SameRunKeeps
  <2>2. CASE d = c
    <3>1. RunsNow(c) => RunsNow(c)'  BY <1>1, <1>4, <1>8 DEF RunsNow, RecoverySteps
    <3> QED BY <1>1, <1>8, <1>11, <2>2, <3>1 DEF MayRun
  <2> QED BY <2>1, <2>2
<1>12. ASSUME NEW d \in Changes, NEW t \in Sources, MayHold(d, t), d = c => t # s \/ recPc' = "emitRollbackFailed"
       PROVE  MayHold(d, t)'
  <2>1. CASE d # c  BY <1>9, <1>12, <2>1, SameRunKeeps
  <2>2. CASE d = c
    <3>1. HoldsNow(c, t) => HoldsNow(c, t)'  BY <1>1, <1>4, <1>7, <1>8, <1>12, <1>c, <2>2 DEF HoldsNow, Writing
    <3> QED BY <1>1, <1>8, <1>12, <2>2, <3>1 DEF MayHold
  <2> QED BY <2>1, <2>2
<1>13. ASSUME NEW d \in Changes, NEW t \in Sources, MayReturn(c, d, t) PROVE MayHold(d, t)'
  BY <1>1, <1>8, <1>13 DEF MayReturn, MayHold
<1>14. ASSUME NEW d \in Changes, NEW t \in Sources, source'[t] = d PROVE MayHold(d, t)'
  <2>1. CASE t = s /\ source'[s] = snapshot[c][s]
    <3>1. MayReturn(c, d, s)  BY <1>3, <1>4, <1>6, <1>14, <2>1 DEF ReturnInv
    <3> QED BY <1>13, <2>1, <3>1
  <2>2. CASE source'[t] = source[t] /\ (t # s \/ recPc' = "emitRollbackFailed")
    BY <1>3, <1>12, <1>14, <2>2 DEF LeftInv
  <2> QED BY <1>7, <2>1, <2>2
<1>15. LeftInv'  BY <1>1, <1>3, <1>11, <1>14 DEF LeftInv
<1>16. ReturnInv'  BY <1>1, <1>3, <1>8 DEF ReturnInv, MayReturn
<1> QED BY <1>10, <1>15, <1>16 DEF TraceInv

\* The recovery runs the release again that ran before the build.
LEMMA ActionTrace ==
    RecoveredInv /\ RecoveryAction => HoldsLock' /\ (journalFaults' = 0 => TraceInv')
<1> SUFFICES ASSUME RecoveredInv, RecoveryAction PROVE HoldsLock' /\ (journalFaults' = 0 => TraceInv')  OBVIOUS
<1>0. AgentInv /\ TypeOK /\ RecoveryInv /\ EndInv  BY DEF RecoveredInv, AgentInv, AgentTypes, AgentTypeOK, Places
<1>c. PICK c \in Changes : c = rec
  BY <1>0, ConstantsAssumption DEF RecoveryInv, RecoveryAction, AgentInv, AgentTypes, AgentTypeOK
<1>1. /\ UNCHANGED <<source, snapshot, appLock, pc, torn, journal, journalFaults, prev, outcome, rec, todo>>
      /\ recPc = "rollbackAction" /\ recPc' \in {"emitRolledBack", "emitRollbackFailed"}
  BY DEF RecoveryAction, lockVars, runVars, historyVars
<1>2. HoldsLock'  BY <1>1 DEF RecoveredInv, HoldsLock
<1> SUFFICES ASSUME journalFaults = 0 PROVE TraceInv'  BY <1>1, <1>2
<1>3. RecordInv /\ UniqueInv /\ LeftInv /\ ReturnInv  BY DEF RecoveredInv, TraceInv
<1>4. pc[c] = "over" /\ \A d \in Changes : SourcesOf[d] \subseteq Sources
  BY <1>0, <1>1, <1>c, ConstantsAssumption DEF RecoveryInv
<1>5. \/ loaded' = loaded /\ (ActionOf[c] # "build" \/ recPc' = "emitRollbackFailed")
      \/ prev[c] # NoValue /\ loaded' = Load(c, prev[c])
  BY <1>c DEF RecoveryAction
<1>6. \A d \in Changes : Recorded(d)' = Recorded(d) /\ Ended(d)' = Ended(d) /\ Unfinished(d)' = Unfinished(d)
                         /\ HasWrites(d)' = HasWrites(d) /\ Settled(d)' = Settled(d)
  BY <1>1 DEF Recorded, Ended, Unfinished, HasWrites, Settled
<1>7. \A d \in Changes : d # c => SameRun(d)  BY <1>1, <1>c DEF SameRun
<1>8. RecordInv' /\ UniqueInv'
  <2>1. recPc' # "emitRollingBack"  BY <1>1
  <2> QED BY <1>1, <1>3, <1>6, <2>1 DEF RecordInv, UniqueInv
<1>9. ASSUME NEW d \in Changes, NEW s \in Sources, MayHold(d, s) PROVE MayHold(d, s)'
  <2>1. CASE d # c  BY <1>7, <1>9, <2>1, SameRunKeeps
  <2>2. CASE d = c
    <3>1. ~HoldsNow(c, s)  BY <1>1, <1>4, <1>c DEF HoldsNow, Writing
    <3> QED BY <1>1, <1>6, <1>9, <2>2, <3>1 DEF MayHold
  <2> QED BY <2>1, <2>2
<1>10. ASSUME NEW d \in Changes, NEW s \in Sources, MayRun(d, s), d = c => recPc' = "emitRollbackFailed"
       PROVE  MayRun(d, s)'
  <2>1. CASE d # c  BY <1>7, <1>10, <2>1, SameRunKeeps
  <2>2. CASE d = c
    <3>1. RunsNow(c) => RunsNow(c)'  BY <1>1, <1>4, <1>6, <1>10, <2>2 DEF RunsNow, RecoverySteps
    <3> QED BY <1>1, <1>6, <1>10, <2>2, <3>1 DEF MayRun
  <2> QED BY <2>1, <2>2
<1>11. ASSUME NEW d \in Changes, NEW s \in Sources, MayReturn(c, d, s) PROVE MayRun(d, s)'
  BY <1>1, <1>6, <1>11 DEF MayReturn, MayRun
<1>12. ASSUME NEW d \in Changes, NEW s \in Sources, loaded'[s] = d, ActionOf[d] = "build" PROVE MayRun(d, s)'
  <2>1. CASE loaded' = loaded /\ (ActionOf[c] # "build" \/ recPc' = "emitRollbackFailed")
    BY <1>3, <1>10, <1>12, <2>1 DEF LeftInv
  <2>2. CASE prev[c] # NoValue /\ loaded' = Load(c, prev[c])
    <3>1. CASE s \in SourcesOf[c]
      <4>1. prev[c][s] = d  BY <1>12, <2>2, <3>1 DEF Load
      <4>2. MayReturn(c, d, s)  BY <1>3, <1>12, <2>2, <3>1, <4>1 DEF ReturnInv
      <4> QED BY <1>11, <4>2
    <3>2. CASE s \notin SourcesOf[c]
      <4>1. loaded[s] = d  BY <1>12, <2>2, <3>2 DEF Load
      <4>2. MayRun(d, s)  BY <1>3, <1>12, <4>1 DEF LeftInv
      <4>3. d = c => c \in torn'  BY <1>1, <3>2, <4>2 DEF MayRun
      <4> QED BY <1>10, <4>2, <4>3 DEF MayRun
    <3> QED BY <3>1, <3>2
  <2> QED BY <1>5, <2>1, <2>2
<1>13. LeftInv'  BY <1>1, <1>3, <1>9, <1>12 DEF LeftInv
<1>14. ReturnInv'  BY <1>1, <1>3, <1>6 DEF ReturnInv, MayReturn
<1> QED BY <1>8, <1>13, <1>14 DEF TraceInv

-----
(* A run. *)

\* A step of a run concerns the run alone.
LEMMA RunAlone ==
    ASSUME RecoveredInv, NEW c \in Changes, AgentRunStep(c)
    PROVE  /\ HoldsLock' /\ Running(c) /\ (rec = c => recPc = "resume")
           /\ UNCHANGED <<rec, recPc, torn, up, queue>>
           /\ \A d \in Changes : d # c => SameRun(d) /\ prev'[d] = prev[d] /\ snapshot'[d] = snapshot[d]
<1>0. AgentInv /\ AgentTypes /\ TypeInv /\ TypeOK /\ TodoInv /\ JournalInv /\ RecoveryInv /\ HoldsLock
  BY DEF RecoveredInv, AgentInv, AgentTypes, AgentTypeOK, Places, TypeInv
<1>1. /\ RunMove(c) /\ Running(c) /\ UNCHANGED <<rec, recPc, torn, up, queue>>
      /\ \A d \in Changes : d # c => journal'[d] = journal[d]
  BY <1>0, RunEffect
<1>2. HoldsLock'  BY <1>0, <1>1, LockRunMove DEF LockInv
<1>3. \A d \in Changes : d # c =>
          pc'[d] = pc[d] /\ todo'[d] = todo[d] /\ outcome'[d] = outcome[d] /\ snapshot'[d] = snapshot[d]
  BY <1>0, <1>1, RunMoveFrame
<1>4. prev' = prev \/ (\E image \in Images \cup {NoValue} : prev' = [prev EXCEPT ![c] = image])
  <2>1. loaded \in Images /\ prev[c] \in Images \cup {NoValue}  BY <1>0 DEF TypeOK
  <2>2. CASE \E ok \in BOOLEAN : EmittingStep(c, ok)
    BY <2>2 DEF EmittingStep, AcquireApplicationLock, Emit, RollbackFailed
  <2>3. CASE RunAction(c)  BY <2>1, <2>3 DEF RunAction
  <2>4. CASE Finally(c)  BY <2>4 DEF Finally
  <2>5. CASE SilentStep(c) /\ ~RunAction(c) /\ ~Finally(c)
    BY <2>5 DEF SilentStep, ReadStaged, Reject, ApplicationLockFails, AcquireSourceLock, AcquireActionLock, CallFails,
      CaptureSnapshot, WriteSource, RunHealth, RestoreSource, RollbackAction
  <2> QED BY <1>1, <2>2, <2>3, <2>4, <2>5 DEF RunMove
<1>5. \A d \in Changes : d # c => prev'[d] = prev[d]  BY <1>0, <1>4 DEF TypeOK
<1>6. \A d \in Changes : d # c => SameRun(d)  BY <1>1, <1>3 DEF SameRun
<1>7. rec = c => recPc = "resume"  BY <1>0, <1>1, ConstantsAssumption DEF RecoveryInv, Running
<1> QED BY <1>1, <1>2, <1>3, <1>5, <1>6, <1>7

\* With a journal that works, an event a run emits is recorded as it is, and
\* any other call leaves the record of the run as it is, but for the release a
\* build replaces.
LEMMA RunRecord ==
    ASSUME MinSequence = 0, AgentInv, NEW c \in Changes, AgentRunStep(c), journalFaults' = 0
    PROVE  /\ journalFaults = 0
           /\ \/ /\ SilentStep(c)
                 /\ Recorded(c)' = Recorded(c) /\ Ended(c)' = Ended(c) /\ HasWrites(c)' = HasWrites(c)
                 /\ Recorded(c)' /\ journal'[c].prev # NoValue =>
                      \/ prev'[c] # NoValue /\ journal'[c].prev = prev'[c]
                      \/ Recorded(c) /\ journal[c].prev # NoValue /\ journal'[c].prev = journal[c].prev
              \/ /\ EmittingStep(c, TRUE) /\ EventOf(c) \in ApplyStates
                 /\ journal' = [journal EXCEPT ![c] = RecordFor(c, EventOf(c))]
                 /\ chg[c] # NoValue /\ chg[c].digest # NoValue
                 /\ pc[c] # "onNoWriteFailed" /\ (pc[c] = "onRollbackFailed" => EventOf(c) = "ROLLBACK_FAILED")
                 /\ pc[c] \in EmitCalls => CanTransition(machine[c], Emits[pc[c]].to)
<1>0. AgentTypes /\ AgentTypeOK /\ TypeOK /\ EventsFit /\ JournalInv  BY DEF AgentInv, AgentTypes, AgentTypeOK, Places
<1>1. Running(c) /\ journalFaults = 0 /\ JournalReadable
  <2>1. journalFaults' >= journalFaults /\ Running(c)  BY <1>0, RunEffect
  <2> QED BY <1>0, <2>1, AlwaysReadable, ConstantsAssumption DEF TypeOK
<1>2. chg[c] # NoValue /\ chg[c].digest # NoValue  BY <1>0, <1>1 DEF JournalInv
<1>3. CASE JournalledStep(c)
  <2>1. ~Refused(c)  BY <1>0, <1>1, EventsAccepted DEF Refused
  <2>2. EmittingStep(c, TRUE) /\ EventOf(c) # "none" /\ JournalEvent(c, EventOf(c), TRUE, BlockedBy(c))
    <3>1. PICK ok \in BOOLEAN :
             /\ EmittingStep(c, ok)
             /\ \/ EventOf(c) # "none" /\ JournalEvent(c, EventOf(c), ok, BlockedBy(c))
                \/ Refused(c)
      BY <1>3 DEF JournalledStep, Refused
    <3>2. EventOf(c) # "none" /\ JournalEvent(c, EventOf(c), ok, BlockedBy(c))  BY <2>1, <3>1
    <3>3. ok  BY <1>1, <3>2 DEF JournalEvent
    <3> QED BY <3>1, <3>2, <3>3
  <2>3. EventOf(c) \in ApplyStates  BY <2>2, EmitsType DEF EventOf, ApplyStates
  <2>4. journal' = [journal EXCEPT ![c] = RecordFor(c, EventOf(c))] /\ BlockedBy(c) \subseteq blocked'
    BY <2>2 DEF JournalEvent
  <2>5. Writes(c, EventOf(c))  BY <1>0, <1>2, <2>3, <2>4, RecordedEvent DEF Writes
  <2>6. Recording(c, TRUE)  BY <1>1, <2>2, <2>4, <2>5 DEF Recording
  <2>7. pc[c] # "onNoWriteFailed" /\ (pc[c] = "onRollbackFailed" => EventOf(c) = "ROLLBACK_FAILED")
        /\ machine[c] \in MachineAt(pc[c])
    BY <1>0, <1>1, <2>6, EventsAccepted
  <2>8. pc[c] \in EmitCalls => CanTransition(machine[c], Emits[pc[c]].to)  BY <2>7, EmissionsFit
  <2> QED BY <1>1, <1>2, <2>2, <2>3, <2>4, <2>7, <2>8
<1>4. CASE BuildStep(c)
  <2>1. SilentStep(c) /\ Recorded(c)  BY <1>0, <1>4 DEF BuildStep, SilentStep, JournalInv, Writing
  <2>2. CASE UNCHANGED journal  BY <1>1, <2>1, <2>2 DEF Recorded, Ended, HasWrites
  <2>3. CASE prev'[c] # NoValue /\ journal' = [journal EXCEPT ![c].prev = prev'[c]]
    <3>1. PICK r : r = [journal[c] EXCEPT !.prev = prev'[c]]  OBVIOUS
    <3>2. journal' = [journal EXCEPT ![c] = r]  BY <2>3, <3>1
    <3>3. journal'[c] = r  BY <1>0, <3>2 DEF AgentTypeOK
    <3>4. PICK p \in Images : p = prev'[c]
      <4>1. prev' \in [Changes -> Images \cup {NoValue}]
        <5>1. TypeOK'   BY <1>0, RunTypes DEF AgentTypes, AgentTypeOK
        <5> QED BY <5>1 DEF TypeOK
      <4> QED BY <2>3, <4>1
    <3>5. journal[c] \in JournalRecords  BY <1>0, <2>1 DEF Recorded, AgentTypeOK
    <3>6. r \in JournalRecords /\ r.state = journal[c].state /\ r.hasWrites = journal[c].hasWrites /\ r.prev = p
      BY <3>1, <3>4, <3>5 DEF JournalRecords
    <3>7. r # NoValue  BY <3>6, AgentAssumption
    <3> QED BY <1>1, <2>1, <2>3, <3>3, <3>4, <3>6, <3>7 DEF Recorded, Ended, HasWrites
  <2> QED BY <1>4, <2>2, <2>3 DEF BuildStep
<1>5. CASE QuietStep(c)
  <2>1. SilentStep(c) /\ UNCHANGED journal  BY <1>5 DEF QuietStep, agentVars
  <2> QED BY <1>1, <2>1 DEF Recorded, Ended, HasWrites
<1> QED BY <1>3, <1>4, <1>5 DEF AgentRunStep

\* After a step of run c a file, and a release, has the content of c if c may
\* hold, or run, it then, or what it had before, or what a rollback of c puts
\* back; and what c keeps to put it back is of runs that ended.
FilesExplained(c) ==
    \A d \in Changes, s \in Sources : source'[s] = d =>
        \/ d = c /\ MayHold(c, s)'
        \/ d # c /\ source[s] = d
        \/ MayReturn(c, d, s)

ReleasesExplained(c) ==
    \A d \in Changes, s \in Sources : loaded'[s] = d /\ ActionOf[d] = "build" =>
        \/ d = c /\ MayRun(c, s)'
        \/ d # c /\ loaded[s] = d
        \/ MayReturn(c, d, s)

ReturnsExplained(c) ==
    \A d \in Changes : \A s \in SourcesOf[c] :
        /\ snapshot'[c] # NoValue /\ snapshot'[c][s] = d => MayReturn(c, d, s)
        /\ ActionOf[d] = "build" /\ prev'[c] # NoValue /\ prev'[c][s] = d => MayReturn(c, d, s)

\* Such a step keeps the invariant if it keeps the record in step with the run.
LEMMA TraceOfRun ==
    ASSUME MinSequence = 0, RecoveredInv, TraceInv, NEW c \in Changes, AgentRunStep(c),
           journalFaults = 0, journalFaults' = 0,
           /\ pc'[c] \in Holding => Recorded(c)'
           /\ pc'[c] \in Writing \ {"writeSource", "emitWritten"} => HasWrites(c)'
           /\ outcome'[c] = "rolled_back" => Ended(c)',
           Unfinished(c)' => Unfinished(c) \/ \A d \in Changes : Unfinished(d) /\ AppOf[d] = AppOf[c] => d = c,
           Settled(c) => Settled(c)',
           FilesExplained(c), ReleasesExplained(c), ReturnsExplained(c)
    PROVE  TraceInv'
<1>0. AgentInv /\ AgentTypes /\ AgentTypeOK /\ JournalInv /\ RecordInv /\ UniqueInv /\ LeftInv /\ ReturnInv
  BY DEF RecoveredInv, AgentInv, AgentTypes, Places, TraceInv
<1>1. /\ rec = c => recPc = "resume"
      /\ UNCHANGED <<rec, recPc, torn, up, queue>>
      /\ \A d \in Changes : d # c => SameRun(d) /\ prev'[d] = prev[d] /\ snapshot'[d] = snapshot[d]
  BY RunAlone
<1>2. \A d \in Changes : d # c =>
          /\ Settled(d)' = Settled(d) /\ Unfinished(d)' = Unfinished(d) /\ HasWrites(d)' = HasWrites(d)
          /\ \A s \in Sources : (MayHold(d, s) => MayHold(d, s)') /\ (MayRun(d, s) => MayRun(d, s)')
  BY <1>1, SameRunKeeps
<1>3. RecordInv'
  <2>1. \A d \in Changes : d # c => Recorded(d)' = Recorded(d) /\ Ended(d)' = Ended(d) /\ pc'[d] = pc[d]
                                    /\ outcome'[d] = outcome[d] /\ todo'[d] = todo[d]
    BY <1>1 DEF SameRun, Recorded, Ended
  <2> QED BY <1>0, <1>1, <1>2, <2>1 DEF RecordInv
<1>4. UniqueInv'  BY <1>0, <1>2 DEF UniqueInv
<1>5. \A d, e \in Changes, s \in Sources : MayReturn(d, e, s) => MayReturn(d, e, s)'  BY <1>1, <1>2 DEF MayReturn
<1>6. \A d \in Changes, s \in Sources : MayReturn(c, d, s) => MayHold(d, s)' /\ MayRun(d, s)'
  BY <1>1, <1>2 DEF MayReturn, MayHold, MayRun
<1>7. LeftInv'  BY <1>0, <1>2, <1>6 DEF LeftInv, FilesExplained, ReleasesExplained
<1>8. ReturnInv'
  <2>1. \A d \in Changes : SourcesOf[d] \subseteq Sources  BY ConstantsAssumption
  <2>2. \A d, e \in Changes : \A s \in SourcesOf[d] :
              /\ snapshot'[d] # NoValue /\ snapshot'[d][s] = e => MayReturn(d, e, s)'
              /\ ActionOf[e] = "build" /\ prev'[d] # NoValue /\ prev'[d][s] = e => MayReturn(d, e, s)'
    BY <1>0, <1>1, <1>5, <2>1 DEF ReturnInv, ReturnsExplained
  <2>3. \A d \in Changes : d # c => journal'[d] = journal[d]  BY <1>1 DEF SameRun
  <2>4. Recorded(c)' /\ journal'[c].prev # NoValue =>
                 \/ prev[c] # NoValue /\ journal'[c].prev = prev[c]
                 \/ prev'[c] # NoValue /\ journal'[c].prev = prev'[c]
                 \/ Recorded(c) /\ journal[c].prev # NoValue /\ journal'[c].prev = journal[c].prev
    <3>1. CASE /\ EventOf(c) \in ApplyStates /\ chg[c] # NoValue /\ chg[c].digest # NoValue
               /\ journal' = [journal EXCEPT ![c] = RecordFor(c, EventOf(c))]
      BY <1>0, <3>1, RecordedEvent
    <3> QED BY <1>0, <3>1, RunRecord
  <2> QED BY <1>0, <1>5, <2>2, <2>3, <2>4, RecordedReturn
<1> QED BY <1>3, <1>4, <1>7, <1>8 DEF TraceInv

\* The emissions of a run, when the journal records them.
LEMMA EmitSteps ==
    ASSUME TypeOK, NEW c \in Changes, EmittingStep(c, TRUE), pc[c] # "onNoWriteFailed",
           pc[c] \in EmitCalls => CanTransition(machine[c], Emits[pc[c]].to),
           pc[c] = "onRollbackFailed" => EventOf(c) = "ROLLBACK_FAILED"
    PROVE  /\ UNCHANGED <<source, loaded, snapshot, prev>>
           /\ \/ /\ pc[c] = "acquireApplicationLock" /\ EventOf(c) = "APPLYING"
                 /\ pc'[c] = "acquireSourceLock" /\ outcome'[c] = outcome[c]
                 /\ appLock[AppOf[c]] = NoValue
              \/ /\ pc[c] \in EmitCalls /\ EventOf(c) = Emits[pc[c]].to /\ pc'[c] = Emits[pc[c]].next
                 /\ outcome'[c] = IF Emits[pc[c]].to = "COMPLETED" THEN "completed"
                                  ELSE IF Emits[pc[c]].to = "ROLLED_BACK" THEN "rolled_back" ELSE outcome[c]
                 /\ todo'[c] = IF Emits[pc[c]].next = "restoreSnapshot" THEN SourcesOf[c] ELSE todo[c]
              \/ /\ pc[c] = "onRollbackFailed" /\ EventOf(c) = "ROLLBACK_FAILED"
                 /\ pc'[c] = "finally" /\ outcome'[c] = "rollback_failed"
<1> USE DEF TypeOK, Goto, diskVars
<1>1. CASE AcquireApplicationLock(c, TRUE)  BY <1>1 DEF AcquireApplicationLock, EventOf
<1>2. CASE Emit(c, TRUE)
  <2>1. pc[c] \in EmitCalls /\ EventOf(c) = Emits[pc[c]].to  BY <1>2 DEF Emit, EventOf, EmitCalls
  <2>2. PICK e : e = Emits[pc[c]]  OBVIOUS
  <2>3. /\ pc' = [pc EXCEPT ![c] = e.next]
        /\ outcome' = [outcome EXCEPT ![c] = IF e.to = "COMPLETED" THEN "completed"
                                             ELSE IF e.to = "ROLLED_BACK" THEN "rolled_back" ELSE outcome[c]]
        /\ todo' = [todo EXCEPT ![c] = IF e.next = "restoreSnapshot" THEN SourcesOf[c] ELSE todo[c]]
        /\ UNCHANGED <<source, loaded, snapshot, prev>>
    BY <1>2, <2>2 DEF Emit
  <2> QED BY <2>1, <2>2, <2>3
<1>3. CASE RollbackFailed(c, TRUE)  BY <1>3 DEF RollbackFailed
<1> QED BY <1>1, <1>2, <1>3 DEF EmittingStep

\* A run that acquires the lock of its application finds no unfinished record
\* of another run there.
LEMMA FirstRecord ==
    ASSUME MinSequence = 0, RecoveredInv, TraceInv, journalFaults = 0, NEW c \in Changes,
           pc[c] = "acquireApplicationLock", appLock[AppOf[c]] = NoValue, up \in {"ready", "recovering"},
           ~Recorded(c)
    PROVE  \A d \in Changes : Unfinished(d) => AppOf[d] # AppOf[c]
<1>0. AgentInv /\ TypeOK /\ JournalInv /\ RecoveryInv /\ ReconciledInv /\ HoldsLock
  BY DEF RecoveredInv, AgentInv, AgentTypes, AgentTypeOK, Places
<1> SUFFICES ASSUME NEW d \in Changes, Unfinished(d), AppOf[d] = AppOf[c] PROVE FALSE  OBVIOUS
<1>1. up = "ready" /\ rec = NoValue /\ queue = {}  BY <1>0 DEF RecoveryInv, JournalInv, Running
<1>2. pc[d] \notin {"idle", "readStaged", "acquireApplicationLock", "over"}
  BY <1>0, <1>1, ConstantsAssumption DEF JournalInv, ReconciledInv, Unfinished
<1>3. pc[d] \in Holding  BY <1>0, <1>2 DEF TypeOK, Calls
<1> QED BY <1>0, <1>3, ConstantsAssumption DEF HoldsLock

\* An event of a run: a run that may hold or run something after it could do so
\* before, and one that could before goes on or ends without a rollback.
LEMMA EmitTrace ==
    ASSUME MinSequence = 0, RecoveredInv, TraceInv, journalFaults = 0, journalFaults' = 0,
           NEW c \in Changes, AgentRunStep(c), EmittingStep(c, TRUE), EventOf(c) \in ApplyStates,
           journal' = [journal EXCEPT ![c] = RecordFor(c, EventOf(c))],
           chg[c] # NoValue, chg[c].digest # NoValue, pc[c] # "onNoWriteFailed",
           pc[c] = "onRollbackFailed" => EventOf(c) = "ROLLBACK_FAILED",
           pc[c] \in EmitCalls => CanTransition(machine[c], Emits[pc[c]].to)
    PROVE  TraceInv'
<1>0. /\ AgentInv /\ AgentTypes /\ AgentTypeOK /\ TypeOK /\ JournalInv /\ EndInv
      /\ RecordInv /\ UniqueInv /\ LeftInv /\ ReturnInv
  BY DEF RecoveredInv, AgentInv, AgentTypes, AgentTypeOK, Places, TraceInv
<1>1. up \in {"ready", "recovering"} /\ UNCHANGED torn  BY <1>0, RunEffect
<1>s. PICK state \in ApplyStates : state = EventOf(c)  OBVIOUS
<1>2. /\ Recorded(c)'
      /\ Ended(c)' <=> state \in TerminalApplyStates
      /\ HasWrites(c)' <=> HasWrites(c) \/ state \in WroteStates
  BY <1>0, <1>s, RecordedEvent
<1>3. /\ UNCHANGED <<source, loaded, snapshot, prev>>
      /\ \/ /\ pc[c] = "acquireApplicationLock" /\ state = "APPLYING"
            /\ pc'[c] = "acquireSourceLock" /\ outcome'[c] = outcome[c]
            /\ appLock[AppOf[c]] = NoValue
         \/ /\ pc[c] \in EmitCalls /\ state = Emits[pc[c]].to /\ pc'[c] = Emits[pc[c]].next
            /\ outcome'[c] = IF Emits[pc[c]].to = "COMPLETED" THEN "completed"
                             ELSE IF Emits[pc[c]].to = "ROLLED_BACK" THEN "rolled_back" ELSE outcome[c]
            /\ todo'[c] = IF Emits[pc[c]].next = "restoreSnapshot" THEN SourcesOf[c] ELSE todo[c]
         \/ /\ pc[c] = "onRollbackFailed" /\ state = "ROLLBACK_FAILED"
            /\ pc'[c] = "finally" /\ outcome'[c] = "rollback_failed"
  BY <1>0, <1>s, EmitSteps
<1>4. ~Ended(c) /\ ~Settled(c)  BY <1>0, <1>3 DEF EndInv, EmitCalls, Settled
<1>5. Unfinished(c)' => Unfinished(c) \/ \A d \in Changes : Unfinished(d) /\ AppOf[d] = AppOf[c] => d = c
  <2>1. CASE pc[c] = "acquireApplicationLock"  BY <1>1, <1>3, <1>4, <2>1, FirstRecord DEF Unfinished, EmitCalls
  <2>2. CASE pc[c] # "acquireApplicationLock"
    <3>1. pc[c] \in Holding  BY <1>3, <2>2, CallSets
    <3> QED BY <1>0, <1>4, <3>1 DEF RecordInv, Unfinished
  <2> QED BY <2>1, <2>2
<1>6. /\ \A s \in Sources : (MayHold(c, s) => MayHold(c, s)') /\ (MayRun(c, s) => MayRun(c, s)')
      /\ pc'[c] \in Writing \ {"writeSource", "emitWritten"} => HasWrites(c)'
      /\ outcome'[c] = "rolled_back" => Ended(c)'
  <2>1. CASE pc[c] = "acquireApplicationLock"
    <3>1. \A s \in Sources : ~HoldsNow(c, s) /\ ~RunsNow(c)  BY <2>1 DEF HoldsNow, RunsNow, Writing
    <3>2. outcome[c] # "rolled_back"  BY <1>0, <1>4 DEF RecordInv
    <3> QED BY <1>1, <1>3, <1>4, <2>1, <3>1, <3>2 DEF MayHold, MayRun, Writing, EmitCalls
  <2>2. CASE pc[c] \in {"emitSnapshotted", "emitWritten", "emitActionRunning", "emitHealthChecking"}
    <3>1. /\ state \in ApplyStates \ TerminalApplyStates /\ pc'[c] \in Writing /\ outcome'[c] = outcome[c]
          /\ pc'[c] # "writeSource" => state \in WroteStates
          /\ pc[c] = "emitHealthChecking" => pc'[c] = "runHealth"
      BY <1>3, <2>2 DEF Emits, TerminalApplyStates, ApplyStates, WroteStates, Writing
    <3>2. Unfinished(c)' /\ outcome[c] # "rolled_back"  BY <1>0, <1>2, <1>4, <3>1 DEF Unfinished, RecordInv
    <3>3. \A s \in Sources : HoldsNow(c, s)'  BY <3>1 DEF HoldsNow
    <3>4. RunsNow(c) => RunsNow(c)'  BY <1>2, <2>2, <3>1 DEF RunsNow
    <3> QED BY <1>1, <1>2, <1>4, <3>1, <3>2, <3>3, <3>4 DEF MayHold, MayRun
  <2>3. CASE pc[c] = "emitCompleted"
    <3>1. state = "COMPLETED" /\ pc'[c] = "finally" /\ outcome'[c] = "completed"  BY <1>3, <2>3 DEF Emits
    <3>2. Settled(c)'  BY <1>2, <3>1 DEF Settled, TerminalApplyStates
    <3> QED BY <1>1, <1>4, <3>1, <3>2 DEF MayHold, MayRun, Writing
  <2>4. CASE pc[c] \in {"emitNoWriteRollingBack", "emitNoWriteRolledBack", "emitRolledBack"}
    <3>1. /\ pc'[c] \in {"emitNoWriteRolledBack", "finally"}
          /\ outcome'[c] = "rolled_back" => state = "ROLLED_BACK" \/ outcome[c] = "rolled_back"
      BY <1>3, <2>4 DEF Emits
    <3>2. \A s \in Sources : ~HoldsNow(c, s) /\ ~RunsNow(c)  BY <2>4 DEF HoldsNow, RunsNow, Writing
    <3>3. outcome'[c] = "rolled_back" => Ended(c)'  BY <1>0, <1>2, <1>4, <3>1 DEF RecordInv, TerminalApplyStates
    <3> QED BY <1>1, <1>4, <3>1, <3>2, <3>3 DEF MayHold, MayRun, Writing
  <2>5. CASE pc[c] = "emitRollingBack"
    <3>1. /\ state = "ROLLING_BACK" /\ pc'[c] = "restoreSnapshot" /\ outcome'[c] = outcome[c]
          /\ todo'[c] = SourcesOf[c]
      BY <1>3, <2>5 DEF Emits
    <3>2. Unfinished(c)' /\ outcome[c] # "rolled_back"
      BY <1>0, <1>2, <1>4, <3>1 DEF Unfinished, RecordInv, TerminalApplyStates
    <3>3. \A s \in SourcesOf[c] : HoldsNow(c, s)'  BY <3>1 DEF HoldsNow
    <3>4. RunsNow(c) => RunsNow(c)'  BY <1>2, <2>5, <3>1 DEF RunsNow
    <3> QED BY <1>1, <1>4, <3>1, <3>2, <3>3, <3>4 DEF MayHold, MayRun, Writing
  <2>6. CASE pc[c] = "onRollbackFailed"
    <3>1. state = "ROLLBACK_FAILED" /\ pc'[c] = "finally" /\ outcome'[c] = "rollback_failed"
      BY <1>3, <2>6 DEF EmitCalls
    <3>2. Settled(c)'  BY <1>2, <3>1 DEF Settled, TerminalApplyStates
    <3> QED BY <1>1, <1>4, <3>1, <3>2 DEF MayHold, MayRun, Writing
  <2> QED BY <1>3, <2>1, <2>2, <2>3, <2>4, <2>5, <2>6 DEF EmitCalls
<1>7. FilesExplained(c) /\ ReleasesExplained(c)  BY <1>0, <1>3, <1>6 DEF LeftInv, FilesExplained, ReleasesExplained
<1>8. ReturnsExplained(c)  BY <1>0, <1>3 DEF ReturnInv, ReturnsExplained
<1> QED BY <1>2, <1>4, <1>5, <1>6, <1>7, <1>8, TraceOfRun

\* What an unfinished run finds in its files, and running, is its own or of runs
\* that ended.
LEMMA OthersEnded ==
    ASSUME UniqueInv, NEW c \in Changes, Unfinished(c), NEW d \in Changes, d # c, NEW s \in SourcesOf[c],
           MayHold(d, s) \/ MayRun(d, s)
    PROVE  MayReturn(c, d, s)
<1>1. s \in SourcesOf[d] => AppOf[c] = AppOf[d]  BY SourceOwnership
<1> QED BY <1>1 DEF UniqueInv, MayHold, MayRun, MayReturn

\* What a call without an event may be: it concerns nothing but the run, or it
\* captures the snapshot, writes, runs or takes back.
Passing(c) ==
    /\ UNCHANGED <<source, loaded, snapshot>>
    /\ \/ pc[c] \in {"readStaged", "acquireApplicationLock"} /\ pc'[c] \in {"acquireApplicationLock", "over"}
       \/ pc[c] \in BeforeWrite /\ pc'[c] \in BeforeWrite \cup {"emitNoWriteRollingBack"}
       \/ pc[c] = "runHealth" /\ pc'[c] \in {"emitCompleted", "emitRollingBack"}
       \/ pc[c] = "rollbackHealth" /\ pc'[c] \in {"emitRolledBack", "onRollbackFailed"}
       \/ pc[c] = "finally" /\ pc'[c] = "over"
    /\ prev'[c] = prev[c] \/ prev'[c] = NoValue
    /\ outcome'[c] = outcome[c] \/ (outcome'[c] = "rejected" /\ pc[c] # "finally")

LEMMA SilentCalls ==
    ASSUME TypeOK, NEW c \in Changes, SilentStep(c)
    PROVE  Passing(c) \/ CaptureSnapshot(c) \/ WriteSource(c) \/ RunAction(c) \/ RestoreSource(c) \/ RollbackAction(c)
<1> USE DEF TypeOK, Goto, diskVars, lockVars
<1>1. CASE ReadStaged(c) \/ ApplicationLockFails(c)  BY <1>1 DEF ReadStaged, ApplicationLockFails, Reject, Passing
<1>2. CASE AcquireSourceLock(c) \/ AcquireActionLock(c)
  BY <1>2 DEF AcquireSourceLock, AcquireActionLock, Passing, BeforeWrite
<1>3. CASE CallFails(c)
  <2>1. /\ pc[c] \in {"acquireSourceLock", "acquireActionLock", "captureSnapshot", "runHealth", "rollbackHealth"}
        /\ pc'[c] = OnError(pc[c]) /\ UNCHANGED <<source, loaded, snapshot, prev, outcome>>
    BY <1>3 DEF CallFails
  <2> QED BY <2>1 DEF OnError, Passing, BeforeWrite, Writing, RollingBack, NoWriteRollingBack
<1>4. CASE RunHealth(c)  BY <1>4 DEF RunHealth, Passing
<1>5. CASE Finally(c)  BY <1>5 DEF Finally, Passing
<1> QED BY <1>1, <1>2, <1>3, <1>4, <1>5 DEF SilentStep

\* A call of a run whose record stays as it is.
SilentCall(c) ==
    /\ MinSequence = 0 /\ RecoveredInv /\ TraceInv /\ journalFaults = 0 /\ journalFaults' = 0
    /\ c \in Changes /\ AgentRunStep(c) /\ SilentStep(c)
    /\ Recorded(c)' = Recorded(c) /\ Ended(c)' = Ended(c) /\ HasWrites(c)' = HasWrites(c)

\* The facts the lemmas below begin with.
LEMMA SilentFacts ==
    ASSUME NEW c \in Changes, SilentCall(c)
    PROVE  /\ TypeOK /\ SnapshotStored /\ TodoInv /\ RecordInv /\ UniqueInv /\ LeftInv /\ ReturnInv
           /\ torn' = torn
           /\ SourcesOf[c] \subseteq Sources
           /\ Ended(c) => pc[c] \in {"finally", "over"}
           /\ pc[c] = "finally" => Ended(c)
           /\ Unfinished(c)' = Unfinished(c)
           /\ pc[c] \in Holding \ {"finally"} => Unfinished(c)
<1> USE DEF SilentCall
<1>1. /\ TypeOK /\ SnapshotStored /\ TodoInv /\ RecordInv /\ UniqueInv /\ LeftInv /\ ReturnInv
      /\ EndInv /\ ReconciledInv
  BY DEF RecoveredInv, AgentInv, AgentTypes, AgentTypeOK, Places, TraceInv
<1>2. torn' = torn  BY RunAlone
<1>3. SourcesOf[c] \subseteq Sources  BY ConstantsAssumption
<1>4. (Ended(c) => pc[c] \in {"finally", "over"}) /\ (pc[c] = "finally" => Ended(c))
  BY <1>1 DEF EndInv, ReconciledInv
<1>5. Unfinished(c)' = Unfinished(c)  BY DEF Unfinished
<1>6. pc[c] \in Holding \ {"finally"} => Unfinished(c)
  <2>1. "over" \notin Holding  BY DEF Holding, BeforeWrite, Writing, RollingBack, NoWriteRollingBack
  <2> QED BY <1>1, <1>4, <2>1 DEF RecordInv, Unfinished
<1> QED BY <1>1, <1>2, <1>3, <1>4, <1>5, <1>6

\* If the call leaves the files, the releases and the memory explained, and a
\* run in progress stays the kind of run it was, the invariant holds after it.
LEMMA TraceOfSilent ==
    ASSUME NEW c \in Changes, SilentCall(c),
           pc'[c] \in Holding => pc[c] \in Holding,
           pc'[c] \in Writing \ {"writeSource", "emitWritten"} => pc[c] \in Writing \ {"writeSource", "emitWritten"},
           outcome'[c] = outcome[c] \/ (outcome'[c] = "rejected" /\ pc[c] # "finally"),
           FilesExplained(c), ReleasesExplained(c), ReturnsExplained(c)
    PROVE  TraceInv'
<1>1. RecordInv /\ Unfinished(c)' = Unfinished(c)  BY SilentFacts
<1>2. Settled(c) => Settled(c)'
  <2>1. Running(c)  BY RunAlone DEF SilentCall
  <2>2. Ended(c) => pc[c] = "finally"  BY <2>1, SilentFacts DEF Running
  <2> QED BY <2>2 DEF SilentCall, Settled
<1>3. /\ pc'[c] \in Holding => Recorded(c)'
      /\ pc'[c] \in Writing \ {"writeSource", "emitWritten"} => HasWrites(c)'
      /\ outcome'[c] = "rolled_back" => Ended(c)'
  BY <1>1 DEF RecordInv, SilentCall
<1> QED BY <1>1, <1>2, <1>3, TraceOfRun DEF SilentCall

LEMMA PassingTrace == ASSUME NEW c \in Changes, SilentCall(c), Passing(c) PROVE TraceInv'
<1>0. /\ RecordInv /\ UniqueInv /\ LeftInv /\ ReturnInv
      /\ torn' = torn
      /\ SourcesOf[c] \subseteq Sources
      /\ Ended(c) => pc[c] \in {"finally", "over"}
      /\ pc[c] = "finally" => Ended(c)
      /\ Unfinished(c)' = Unfinished(c)
      /\ pc[c] \in Holding \ {"finally"} => Unfinished(c)
  BY SilentFacts
<1>1. Recorded(c)' = Recorded(c) /\ Ended(c)' = Ended(c) /\ HasWrites(c)' = HasWrites(c)  BY DEF SilentCall
<1>2. \A s \in Sources : (MayHold(c, s) => MayHold(c, s)') /\ (MayRun(c, s) => MayRun(c, s)')
  <2>1. CASE pc[c] \in {"readStaged", "acquireApplicationLock", "rollbackHealth"} \cup BeforeWrite
    <3>1. \A s \in Sources : ~HoldsNow(c, s) /\ ~RunsNow(c)  BY <2>1 DEF HoldsNow, RunsNow, Writing, BeforeWrite
    <3>2. ~Settled(c)  BY <1>0, <2>1 DEF Settled, BeforeWrite
    <3> QED BY <1>0, <3>1, <3>2 DEF MayHold, MayRun
  <2>2. CASE pc[c] = "runHealth"
    <3>1. pc'[c] \in {"emitCompleted", "emitRollingBack"}  BY <2>2 DEF Passing, BeforeWrite
    <3>2. \A s \in Sources : HoldsNow(c, s)'  BY <3>1 DEF HoldsNow, Writing
    <3>3. RunsNow(c) => RunsNow(c)'  BY <1>1, <3>1 DEF RunsNow
    <3>4. ~Settled(c)  BY <1>0, <2>2 DEF Settled
    <3> QED BY <1>0, <3>2, <3>3, <3>4 DEF MayHold, MayRun
  <2>3. CASE pc[c] = "finally"
    <3>1. ~Unfinished(c) /\ outcome'[c] = outcome[c]  BY <1>0, <2>3 DEF Unfinished, Passing, BeforeWrite
    <3>2. Settled(c)' = Settled(c)  BY <1>1, <3>1 DEF Settled
    <3> QED BY <1>0, <3>1, <3>2 DEF MayHold, MayRun
  <2> QED BY <2>1, <2>2, <2>3 DEF Passing
<1>3. FilesExplained(c) /\ ReleasesExplained(c)  BY <1>0, <1>2 DEF LeftInv, FilesExplained, ReleasesExplained, Passing
<1>4. ReturnsExplained(c)  BY <1>0 DEF ReturnInv, ReturnsExplained, Passing
<1>5. /\ pc'[c] \in Holding => pc[c] \in Holding
      /\ pc'[c] \in Writing \ {"writeSource", "emitWritten"} => pc[c] \in Writing \ {"writeSource", "emitWritten"}
      /\ outcome'[c] = outcome[c] \/ (outcome'[c] = "rejected" /\ pc[c] # "finally")
  BY DEF Passing, Holding, BeforeWrite, Writing, RollingBack, NoWriteRollingBack
<1> QED BY <1>3, <1>4, <1>5, TraceOfSilent

\* The snapshot: what the files hold is of runs that ended.
LEMMA CaptureTrace == ASSUME NEW c \in Changes, SilentCall(c), CaptureSnapshot(c) PROVE TraceInv'
<1>0. /\ TypeOK /\ UniqueInv /\ LeftInv /\ ReturnInv
      /\ torn' = torn
      /\ SourcesOf[c] \subseteq Sources
      /\ Ended(c) => pc[c] \in {"finally", "over"}
      /\ Unfinished(c)' = Unfinished(c)
      /\ pc[c] \in Holding \ {"finally"} => Unfinished(c)
  BY SilentFacts
<1>1. /\ UNCHANGED <<source, loaded, prev, outcome>> /\ pc[c] = "captureSnapshot"
      /\ snapshot' = snapshot \/ snapshot' = [snapshot EXCEPT ![c] = source]
      /\ pc'[c] \in {"emitSnapshotted", "emitNoWriteRollingBack"}
  BY <1>0 DEF CaptureSnapshot, Goto, TypeOK, OnError, BeforeWrite
<1>2. Unfinished(c) /\ ~Settled(c)  BY <1>0, <1>1 DEF Holding, BeforeWrite, Settled
<1>3. \A s \in Sources : ~HoldsNow(c, s) /\ ~RunsNow(c)  BY <1>1 DEF HoldsNow, RunsNow, Writing
<1>4. FilesExplained(c) /\ ReleasesExplained(c)
  BY <1>0, <1>1, <1>2, <1>3 DEF LeftInv, FilesExplained, ReleasesExplained, MayHold, MayRun
<1>5. ReturnsExplained(c)
  <2>1. ASSUME NEW d \in Changes, NEW s \in SourcesOf[c], source[s] = d PROVE MayReturn(c, d, s)
    <3>1. MayHold(d, s)  BY <1>0, <2>1 DEF LeftInv
    <3>2. CASE d = c  BY <1>0, <1>2, <1>3, <3>1, <3>2 DEF MayHold, MayReturn
    <3>3. CASE d # c  BY <1>0, <1>2, <3>1, <3>3, OthersEnded
    <3> QED BY <3>2, <3>3
  <2>2. snapshot'[c] = snapshot[c] \/ snapshot'[c] = source  BY <1>0, <1>1 DEF TypeOK
  <2> QED BY <1>0, <1>1, <2>1, <2>2 DEF ReturnInv, ReturnsExplained
<1>6. /\ pc'[c] \in Holding => pc[c] \in Holding
      /\ pc'[c] \in Writing \ {"writeSource", "emitWritten"} => pc[c] \in Writing \ {"writeSource", "emitWritten"}
  BY <1>1 DEF Holding, BeforeWrite, Writing
<1> QED BY <1>1, <1>4, <1>5, <1>6, TraceOfSilent

\* A write: the file belongs to the run, and the run is before its rollback.
LEMMA WriteTrace == ASSUME NEW c \in Changes, SilentCall(c), WriteSource(c) PROVE TraceInv'
<1>0. /\ TypeOK /\ TodoInv /\ UniqueInv /\ LeftInv /\ ReturnInv
      /\ torn' = torn
      /\ SourcesOf[c] \subseteq Sources
      /\ Ended(c) => pc[c] \in {"finally", "over"}
      /\ Unfinished(c)' = Unfinished(c)
      /\ pc[c] \in Holding \ {"finally"} => Unfinished(c)
  BY SilentFacts
<1>1. /\ UNCHANGED <<loaded, prev, outcome, snapshot>> /\ pc[c] = "writeSource"
      /\ pc'[c] \in {"writeSource", "emitWritten", "emitRollingBack"}
      /\ \E s \in todo[c] : source' \in {source, [source EXCEPT ![s] = c]}
  BY <1>0 DEF WriteSource, Goto, TypeOK, OnError, BeforeWrite, Writing
<1>2. Unfinished(c)' /\ ~Settled(c)  BY <1>0, <1>1 DEF Holding, Writing, Settled
<1>3. \A s \in Sources : HoldsNow(c, s)' /\ ~RunsNow(c)  BY <1>1 DEF HoldsNow, RunsNow, Writing
<1>4. \A s \in Sources : source'[s] = source[s] \/ (s \in SourcesOf[c] /\ source'[s] = c)
  BY <1>0, <1>1 DEF TypeOK, Images, TodoInv
<1>5. FilesExplained(c) /\ ReleasesExplained(c)
  BY <1>0, <1>1, <1>2, <1>3, <1>4 DEF LeftInv, FilesExplained, ReleasesExplained, MayHold, MayRun
<1>6. ReturnsExplained(c)  BY <1>0, <1>1 DEF ReturnInv, ReturnsExplained
<1>7. /\ pc'[c] \in Holding => pc[c] \in Holding
      /\ pc'[c] \in Writing \ {"writeSource", "emitWritten"} => pc[c] \in Writing \ {"writeSource", "emitWritten"}
  BY <1>1 DEF Holding, Writing
<1> QED BY <1>1, <1>5, <1>6, <1>7, TraceOfSilent

\* The action: its consumers run what the files hold, and a build remembers what
\* they ran before.
LEMMA RunActionTrace == ASSUME NEW c \in Changes, SilentCall(c), RunAction(c) PROVE TraceInv'
<1>0. /\ TypeOK /\ RecordInv /\ UniqueInv /\ LeftInv /\ ReturnInv
      /\ torn' = torn
      /\ SourcesOf[c] \subseteq Sources
      /\ Ended(c) => pc[c] \in {"finally", "over"}
      /\ Unfinished(c)' = Unfinished(c)
      /\ pc[c] \in Holding \ {"finally"} => Unfinished(c)
  BY SilentFacts
<1>1. /\ UNCHANGED <<source, outcome, snapshot>> /\ pc[c] = "runAction"
      /\ pc'[c] \in {"emitHealthChecking", "emitRollingBack"}
      /\ loaded' = loaded \/ loaded' = Load(c, source)
      /\ prev'[c] = prev[c] \/ prev'[c] = loaded
  BY <1>0 DEF RunAction, Goto, TypeOK, OnError, BeforeWrite, Writing
<1>2. Unfinished(c) /\ Unfinished(c)' /\ ~Settled(c)  BY <1>0, <1>1 DEF Holding, Writing, Settled
<1>3. /\ \A s \in Sources : HoldsNow(c, s)'
      /\ RunsNow(c)' /\ ~RunsNow(c)
  <2>1. HasWrites(c)'  BY <1>0, <1>1 DEF RecordInv, SilentCall, Writing
  <2> QED BY <1>1, <2>1 DEF HoldsNow, RunsNow, Writing
<1>4. \A s \in Sources : (MayHold(c, s) => MayHold(c, s)') /\ (MayRun(c, s) => MayRun(c, s)')
                         /\ (s \in SourcesOf[c] => MayRun(c, s)')
  BY <1>0, <1>2, <1>3 DEF MayHold, MayRun
<1>5. FilesExplained(c)  BY <1>0, <1>1, <1>4 DEF LeftInv, FilesExplained
<1>6. ASSUME NEW d \in Changes, NEW s \in SourcesOf[c], d # c, MayHold(d, s) \/ MayRun(d, s) PROVE MayReturn(c, d, s)
  BY <1>0, <1>2, <1>6, OthersEnded
<1>7. ReleasesExplained(c)
  <2>1. ASSUME NEW d \in Changes, NEW s \in Sources, loaded'[s] = d, ActionOf[d] = "build"
        PROVE  \/ d = c /\ MayRun(c, s)'
               \/ d # c /\ loaded[s] = d
               \/ MayReturn(c, d, s)
    <3>1. CASE loaded[s] = d  BY <1>0, <1>4, <2>1, <3>1 DEF LeftInv
    <3>2. CASE s \in SourcesOf[c] /\ source[s] = d
      <4>1. MayHold(d, s)  BY <1>0, <3>2 DEF LeftInv
      <4> QED BY <1>4, <1>6, <3>2, <4>1
    <3> QED BY <1>1, <2>1, <3>1, <3>2 DEF Load
  <2> QED BY <2>1 DEF ReleasesExplained
<1>8. ReturnsExplained(c)
  <2>1. ASSUME NEW d \in Changes, NEW s \in SourcesOf[c], loaded[s] = d, ActionOf[d] = "build" PROVE MayReturn(c, d, s)
    <3>1. MayRun(d, s)  BY <1>0, <2>1 DEF LeftInv
    <3>2. CASE d = c  BY <1>0, <1>2, <1>3, <3>1, <3>2 DEF MayRun, MayReturn
    <3> QED BY <1>6, <3>1, <3>2
  <2> QED BY <1>0, <1>1, <2>1 DEF ReturnInv, ReturnsExplained
<1>9. /\ pc'[c] \in Holding => pc[c] \in Holding
      /\ pc'[c] \in Writing \ {"writeSource", "emitWritten"} => pc[c] \in Writing \ {"writeSource", "emitWritten"}
  BY <1>1 DEF Holding, Writing
<1> QED BY <1>1, <1>5, <1>7, <1>8, <1>9, TraceOfSilent

\* A restored file.
LEMMA RestoredTrace == ASSUME NEW c \in Changes, SilentCall(c), RestoreSource(c) PROVE TraceInv'
<1>0. /\ TypeOK /\ SnapshotStored /\ TodoInv /\ UniqueInv /\ LeftInv /\ ReturnInv
      /\ torn' = torn
      /\ SourcesOf[c] \subseteq Sources
      /\ Ended(c) => pc[c] \in {"finally", "over"}
      /\ Unfinished(c)' = Unfinished(c)
      /\ pc[c] \in Holding \ {"finally"} => Unfinished(c)
  BY SilentFacts
<1>1. /\ UNCHANGED <<loaded, prev, outcome, snapshot>> /\ pc[c] = "restoreSnapshot"
      /\ pc'[c] \in {"restoreSnapshot", "rollbackAction", "onRollbackFailed"}
  BY <1>0 DEF RestoreSource, Goto, TypeOK, OnError, BeforeWrite, Writing, RollingBack, NoWriteRollingBack
<1>2. Unfinished(c)' /\ ~Settled(c)  BY <1>0, <1>1 DEF Holding, RollingBack, Settled
<1>3. PICK s \in todo[c] :
        /\ \/ source' = [source EXCEPT ![s] = snapshot[c][s]]
           \/ source' = source /\ pc'[c] = "onRollbackFailed"
        /\ \/ todo'[c] = todo[c] \ {s} /\ (pc'[c] = "restoreSnapshot" \/ (pc'[c] = "rollbackAction" /\ todo[c] = {s}))
           \/ pc'[c] = "onRollbackFailed"
  BY <1>0, <1>1 DEF RestoreSource, Goto, TypeOK, OnError, BeforeWrite, Writing, RollingBack, NoWriteRollingBack
<1>4. s \in SourcesOf[c] /\ s \in Sources /\ snapshot[c] # NoValue
  <2>1. s \in SourcesOf[c]  BY <1>0 DEF TodoInv
  <2>2. snapshot[c] # NoValue  BY <1>0, <1>1 DEF SnapshotStored, AfterSnapshot, Writing, RollingBack
  <2> QED BY <1>0, <2>1, <2>2
<1>5. \A t \in Sources : source'[t] = source[t] \/ (t = s /\ source'[s] = snapshot[c][s])
  BY <1>0, <1>3, <1>4 DEF TypeOK, Images
<1>6. ASSUME NEW t \in Sources, t # s \/ pc'[c] = "onRollbackFailed", MayHold(c, t) PROVE MayHold(c, t)'
  <2>1. HoldsNow(c, t) => HoldsNow(c, t)'  BY <1>1, <1>3, <1>6 DEF HoldsNow, Writing
  <2> QED BY <1>0, <1>2, <1>6, <2>1 DEF MayHold
<1>7. \A t \in Sources : MayRun(c, t) => MayRun(c, t)'
  <2>1. RunsNow(c) => RunsNow(c)'  BY <1>1 DEF RunsNow, SilentCall
  <2> QED BY <1>0, <1>2, <2>1 DEF MayRun
<1>8. FilesExplained(c)
  <2>1. ASSUME NEW d \in Changes, NEW t \in Sources, source'[t] = d
        PROVE  \/ d = c /\ MayHold(c, t)'
               \/ d # c /\ source[t] = d
               \/ MayReturn(c, d, t)
    <3>1. CASE t = s /\ source'[s] = snapshot[c][s]  BY <1>0, <1>4, <2>1, <3>1 DEF ReturnInv
    <3>2. CASE source'[t] = source[t] /\ ~(t = s /\ source'[s] = snapshot[c][s])
      <4>1. t # s \/ pc'[c] = "onRollbackFailed"  BY <1>0, <1>3, <3>2 DEF TypeOK, Images
      <4> QED BY <1>0, <1>6, <2>1, <3>2, <4>1 DEF LeftInv
    <3> QED BY <1>5, <3>1, <3>2
  <2> QED BY <2>1 DEF FilesExplained
<1>9. ReleasesExplained(c)  BY <1>0, <1>1, <1>7 DEF LeftInv, ReleasesExplained
<1>10. ReturnsExplained(c)  BY <1>0, <1>1 DEF ReturnInv, ReturnsExplained
<1>11. /\ pc'[c] \in Holding => pc[c] \in Holding
       /\ pc'[c] \in Writing \ {"writeSource", "emitWritten"} => pc[c] \in Writing \ {"writeSource", "emitWritten"}
  BY <1>1 DEF Holding, RollingBack, Writing
<1> QED BY <1>1, <1>8, <1>9, <1>10, <1>11, TraceOfSilent

\* The release that ran before.
LEMMA RollbackActionTrace == ASSUME NEW c \in Changes, SilentCall(c), RollbackAction(c) PROVE TraceInv'
<1>0. /\ TypeOK /\ UniqueInv /\ LeftInv /\ ReturnInv
      /\ torn' = torn
      /\ SourcesOf[c] \subseteq Sources
      /\ Ended(c) => pc[c] \in {"finally", "over"}
      /\ Unfinished(c)' = Unfinished(c)
      /\ pc[c] \in Holding \ {"finally"} => Unfinished(c)
  BY SilentFacts
<1>1. /\ UNCHANGED <<source, prev, outcome, snapshot>> /\ pc[c] = "rollbackAction"
      /\ pc'[c] \in {"rollbackHealth", "onRollbackFailed"}
      /\ \/ loaded' = loaded /\ (ActionOf[c] # "build" \/ pc'[c] = "onRollbackFailed")
         \/ prev[c] # NoValue /\ loaded' = Load(c, prev[c])
  BY <1>0 DEF RollbackAction, Goto, TypeOK, OnError, BeforeWrite, Writing, RollingBack, NoWriteRollingBack
<1>2. Unfinished(c)' /\ ~Settled(c)  BY <1>0, <1>1 DEF Holding, RollingBack, Settled
<1>3. \A s \in Sources : ~HoldsNow(c, s)  BY <1>1 DEF HoldsNow, Writing
<1>4. ASSUME NEW s \in Sources, MayRun(c, s), s \notin SourcesOf[c] \/ pc'[c] = "onRollbackFailed" PROVE MayRun(c, s)'
  <2>1. pc'[c] = "onRollbackFailed" /\ RunsNow(c) => RunsNow(c)'  BY DEF RunsNow, SilentCall
  <2> QED BY <1>0, <1>2, <1>4, <2>1 DEF MayRun
<1>5. FilesExplained(c)  BY <1>0, <1>1, <1>2, <1>3 DEF LeftInv, FilesExplained, MayHold
<1>6. ReleasesExplained(c)
  <2>1. ASSUME NEW d \in Changes, NEW s \in Sources, loaded'[s] = d, ActionOf[d] = "build"
        PROVE  \/ d = c /\ MayRun(c, s)'
               \/ d # c /\ loaded[s] = d
               \/ MayReturn(c, d, s)
    <3>1. CASE s \in SourcesOf[c] /\ prev[c] # NoValue /\ prev[c][s] = d  BY <1>0, <2>1, <3>1 DEF ReturnInv
    <3>2. CASE loaded[s] = d /\ (s \notin SourcesOf[c] \/ ActionOf[c] # "build" \/ pc'[c] = "onRollbackFailed")
      BY <1>0, <1>4, <2>1, <3>2 DEF LeftInv
    <3> QED BY <1>1, <2>1, <3>1, <3>2 DEF Load
  <2> QED BY <2>1 DEF ReleasesExplained
<1>7. ReturnsExplained(c)  BY <1>0, <1>1 DEF ReturnInv, ReturnsExplained
<1>8. /\ pc'[c] \in Holding => pc[c] \in Holding
      /\ pc'[c] \in Writing \ {"writeSource", "emitWritten"} => pc[c] \in Writing \ {"writeSource", "emitWritten"}
  BY <1>1 DEF Holding, RollingBack, Writing
<1> QED BY <1>1, <1>5, <1>6, <1>7, <1>8, TraceOfSilent

LEMMA RunTrace ==
    ASSUME MinSequence = 0, RecoveredInv, NEW c \in Changes, AgentRunStep(c)
    PROVE  HoldsLock' /\ (journalFaults' = 0 => TraceInv')
<1>1. HoldsLock'  BY RunAlone
<1> SUFFICES ASSUME journalFaults' = 0 PROVE TraceInv'  BY <1>1
<1>2. AgentInv /\ TypeOK  BY DEF RecoveredInv, AgentInv, AgentTypes, AgentTypeOK
<1>3. journalFaults = 0  BY <1>2, RunRecord
<1>4. TraceInv  BY <1>3 DEF RecoveredInv
<1>5. CASE SilentStep(c) /\ Recorded(c)' = Recorded(c) /\ Ended(c)' = Ended(c) /\ HasWrites(c)' = HasWrites(c)
  <2>1. SilentCall(c)  BY <1>3, <1>4, <1>5 DEF SilentCall
  <2>2. Passing(c) \/ CaptureSnapshot(c) \/ WriteSource(c) \/ RunAction(c) \/ RestoreSource(c) \/ RollbackAction(c)
    BY <1>2, <1>5, SilentCalls
  <2> QED BY <2>1, <2>2, PassingTrace, CaptureTrace, WriteTrace, RunActionTrace, RestoredTrace, RollbackActionTrace
<1>6. CASE /\ EmittingStep(c, TRUE) /\ EventOf(c) \in ApplyStates
           /\ journal' = [journal EXCEPT ![c] = RecordFor(c, EventOf(c))]
           /\ chg[c] # NoValue /\ chg[c].digest # NoValue
           /\ pc[c] # "onNoWriteFailed" /\ (pc[c] = "onRollbackFailed" => EventOf(c) = "ROLLBACK_FAILED")
           /\ pc[c] \in EmitCalls => CanTransition(machine[c], Emits[pc[c]].to)
  BY <1>3, <1>4, <1>6, EmitTrace
<1> QED BY <1>2, <1>5, <1>6, RunRecord

-----
(* A journal that accepts every sequence number. *)

LEMMA RecoveredStarts == AgentInit => RecoveredInv
<1> SUFFICES ASSUME AgentInit PROVE RecoveredInv  OBVIOUS
<1>1. AgentInv  BY AgentStarts
<1>2. /\ \A c \in Changes : /\ journal[c] = NoValue /\ pc[c] = "idle" /\ outcome[c] = "none"
                            /\ snapshot[c] = NoValue /\ prev[c] = NoValue
      /\ \A s \in Sources : source[s] = Orig /\ loaded[s] = Orig
      /\ rec = NoValue
  BY DEF AgentInit, Init
<1>3. HoldsLock  BY <1>2 DEF HoldsLock, Holding, BeforeWrite, Writing, RollingBack, NoWriteRollingBack
<1>4. RecordInv /\ UniqueInv
  BY <1>2, ConstantsAssumption DEF RecordInv, UniqueInv, Unfinished, Recorded, Holding, BeforeWrite, Writing,
    RollingBack, NoWriteRollingBack
<1>5. LeftInv /\ ReturnInv  BY <1>2, ConstantsAssumption DEF LeftInv, ReturnInv, Recorded
<1> QED BY <1>1, <1>3, <1>4, <1>5 DEF RecoveredInv, TraceInv

LEMMA RecoveredNext ==
    ASSUME MinSequence = 0
    PROVE  RecoveredInv /\ [AgentNext]_allVars => RecoveredInv'
<1> SUFFICES ASSUME RecoveredInv, [AgentNext]_allVars PROVE RecoveredInv'  OBVIOUS
<1>1. AgentInv'  BY AgentInvNext DEF RecoveredInv
<1>2. CASE RecoveryStep
  <2>1. CASE \E c \in Changes : ResumeRun(c) \/ StartRollback(c)
    BY <1>1, <2>1, ResumeTrace, StartRollbackTrace DEF RecoveredInv
  <2>2. CASE RunResumed \/ RecoveryRestore \/ RecoveryAction \/ RecoveryDone
    BY <1>1, <2>2, ResumedTrace, RestoreTrace, ActionTrace, RestartTrace DEF RecoveredInv
  <2>3. CASE \E ok \in BOOLEAN : RecoveryEvent(ok)  BY <1>1, <2>3, RecoveryEventTrace DEF RecoveredInv
  <2> QED BY <1>2, <2>1, <2>2, <2>3 DEF RecoveryStep
<1>3. CASE Restart \/ UNCHANGED allVars  BY <1>1, <1>3, RestartTrace DEF RecoveredInv
<1>4. CASE Handler \/ AgentEnvironment \/ Crash
  BY <1>1, <1>4, HandlerTrace, EnvironmentTrace, CrashTrace DEF RecoveredInv
<1>5. CASE \E c \in Changes : AgentRunStep(c)  BY <1>1, <1>5, RunTrace DEF RecoveredInv
<1> QED BY <1>2, <1>3, <1>4, <1>5 DEF AgentNext

\* The content of a run that is reported as rolled back has no excuse left but
\* the crash before its journal record.
LEMMA GoneWhenAccepted ==
    ASSUME MinSequence = 0
    PROVE  AgentSpec => [](journalFaults = 0 => RolledBackLeavesNothing)
<1>1. RecoveredInv => (journalFaults = 0 => RolledBackLeavesNothing)
  <2> SUFFICES ASSUME TraceInv, NEW c \in Changes, NEW s \in Sources, outcome[c] = "rolled_back", c \notin torn
               PROVE  source[s] # c /\ (ActionOf[c] = "build" => loaded[s] # c)
    BY DEF RecoveredInv, RolledBackLeavesNothing
  <2>1. ~Settled(c) /\ ~Unfinished(c)  BY DEF TraceInv, RecordInv, Settled, Unfinished
  <2>2. ~MayHold(c, s) /\ ~MayRun(c, s)  BY <2>1 DEF MayHold, MayRun
  <2> QED BY <2>2 DEF TraceInv, LeftInv
<1>2. RecoveredInv /\ [AgentNext]_allVars => RecoveredInv'  BY RecoveredNext
<1> QED BY <1>1, <1>2, RecoveredStarts, PTL DEF AgentSpec

-----
(* A journal that refuses the first record of a run. *)

\* The first record of a run closes the journal, so no run ever reports that it
\* was rolled back.
ClosedInv ==
    journalFaults = 0 => \A c \in Changes :
        /\ outcome[c] # "rolled_back"
        /\ Recorded(c) \/ pc[c] \in Holding \ {"finally"} => ~JournalReadable

\* A step that leaves the journal alone and moves a run nowhere but to its
\* begin or its end.
LEMMA ClosedQuiet ==
    ASSUME ClosedInv, UNCHANGED <<journal, journalFaults>>,
           \A c \in Changes : outcome'[c] \in {outcome[c], "none"},
           \A c \in Changes : pc'[c] \in {pc[c], "idle", "readStaged", "over"}
    PROVE  ClosedInv'
<1>1. {"idle", "readStaged", "over"} \cap Holding = {}
  BY DEF Holding, BeforeWrite, Writing, RollingBack, NoWriteRollingBack
<1>2. JournalReadable' = JournalReadable /\ \A c \in Changes : Recorded(c)' = Recorded(c)
  BY DEF JournalReadable, Recorded
<1> QED BY <1>1, <1>2 DEF ClosedInv

LEMMA ClosedRun ==
    ASSUME MinSequence # 0, AgentInv, ClosedInv, NEW c \in Changes, AgentRunStep(c)
    PROVE  ClosedInv'
<1>0. AgentTypes /\ AgentTypeOK /\ TypeOK /\ TypeInv /\ SnapshotStored /\ TodoInv /\ JournalInv
  BY DEF AgentInv, AgentTypes, AgentTypeOK, Places, TypeInv
<1> SUFFICES ASSUME journalFaults' = 0
             PROVE  \A d \in Changes : /\ outcome'[d] # "rolled_back"
                                       /\ Recorded(d)' \/ pc'[d] \in Holding \ {"finally"} => ~JournalReadable'
  BY DEF ClosedInv
<1>1. /\ RunMove(c) /\ Running(c) /\ journalFaults = 0
      /\ \A d \in Changes : d # c => journal'[d] = journal[d]
      /\ JournalReadable' => JournalReadable
      /\ (\E ok \in BOOLEAN : Recording(c, ok)) \/ Refused(c) \/ Silent(c)
  BY <1>0, RunEffect, ConstantsAssumption DEF TypeOK
<1>2. \A d \in Changes : d # c => pc'[d] = pc[d] /\ outcome'[d] = outcome[d]  BY <1>0, <1>1, RunMoveFrame
<1>3. \A d \in Changes : /\ outcome[d] # "rolled_back"
                         /\ Recorded(d) \/ pc[d] \in Holding \ {"finally"} => ~JournalReadable
  BY <1>1 DEF ClosedInv
<1>4. CASE ~JournalReadable
  <2>1. ASSUME EmittingStep(c, FALSE) PROVE outcome'[c] # "rolled_back"
    <3>1. outcome'[c] \in {outcome[c], "rollback_failed"}
      <4>1. CASE AcquireApplicationLock(c, FALSE) \/ RollbackFailed(c, FALSE)
        BY <1>0, <4>1 DEF AcquireApplicationLock, RollbackFailed, TypeOK
      <4>2. CASE Emit(c, FALSE)
        <5>1. outcome' = outcome \/ outcome' = [outcome EXCEPT ![c] = outcome[c]]  BY <4>2 DEF Emit
        <5> QED BY <1>0, <5>1 DEF TypeOK
      <4> QED BY <2>1, <4>1, <4>2 DEF EmittingStep
    <3> QED BY <1>3, <3>1
  <2>2. CASE Silent(c)
    <3>1. outcome'[c] \in {outcome[c], "rejected"}  BY <1>0, <2>2, SilentMoves DEF Silent
    <3> QED BY <1>1, <1>2, <1>3, <1>4, <3>1
  <2>3. CASE ~Silent(c)
    <3>1. EmittingStep(c, FALSE)  BY <1>1, <1>4, <2>3 DEF Recording, Refused
    <3> QED BY <1>1, <1>2, <1>3, <1>4, <2>1, <3>1
  <2> QED BY <2>2, <2>3
<1>5. CASE JournalReadable
  <2>1. pc[c] \in {"readStaged", "acquireApplicationLock", "finally"}
    BY <1>0, <1>1, <1>3, <1>5 DEF TypeOK, Calls, Running
  <2>2. \A d \in Changes : ~Recorded(d) /\ pc[d] \notin Holding \ {"finally"}  BY <1>3, <1>5
  <2>3. CASE Silent(c)
    <3>1. Passing(c)
      <4>1. ~(CaptureSnapshot(c) \/ WriteSource(c) \/ RunAction(c) \/ RestoreSource(c) \/ RollbackAction(c))
        BY <2>1 DEF CaptureSnapshot, WriteSource, RunAction, RestoreSource, RollbackAction
      <4> QED BY <1>0, <2>3, <4>1, SilentCalls DEF Silent
    <3>2. pc'[c] \notin Holding /\ outcome'[c] \in {outcome[c], "rejected"}
      BY <2>1, <3>1 DEF Passing, Holding, BeforeWrite, Writing, RollingBack, NoWriteRollingBack
    <3>3. \A d \in Changes : ~Recorded(d)'  BY <1>1, <2>2, <2>3 DEF Silent, SameRecord, Recorded
    <3> QED BY <1>2, <1>3, <2>2, <3>2, <3>3
  <2>4. CASE ~Silent(c)
    <3>1. pc[c] \notin EmitCalls \cup {"onRollbackFailed", "onNoWriteFailed"}  BY <2>1 DEF EmitCalls
    <3>2. ~Refused(c)  BY <1>0, <3>1, EmitMoves DEF Refused
    <3>3. PICK ok \in BOOLEAN : Recording(c, ok)  BY <1>1, <2>4, <3>2
    <3>4. EventOf(c) = "APPLYING" /\ outcome'[c] = outcome[c]  BY <1>0, <3>1, <3>3, EmitMoves DEF Recording
    <3>5. Writes(c, "APPLYING")  BY <1>5, <3>3, <3>4 DEF Recording
    <3>6. ~JournalReadable'  BY <3>5, AgentAssumption DEF Writes, Recorded, JournalReadable, Sequence
    <3> QED BY <1>2, <1>3, <3>4, <3>6
  <2> QED BY <2>3, <2>4
<1> QED BY <1>4, <1>5

\* With an unreadable journal no event of the recovery succeeds.
LEMMA ClosedRecovery ==
    ASSUME AgentInv, ClosedInv, NEW ok \in BOOLEAN, RecoveryEvent(ok)
    PROVE  ClosedInv'
<1>0. AgentTypeOK /\ TypeOK /\ RecoveryInv /\ JournalInv  BY DEF AgentInv, AgentTypes, AgentTypeOK, Places
<1> SUFFICES ASSUME journalFaults' = 0 PROVE ClosedInv'  BY DEF ClosedInv
<1>c. PICK c \in Changes : c = rec  BY <1>0, ConstantsAssumption DEF RecoveryInv, RecoveryEvent, AgentTypeOK
<1>1. /\ pc' = pc /\ \E state, extra : JournalEvent(c, state, ok, extra)
      /\ \/ ok
         \/ outcome' = outcome
         \/ outcome' = [outcome EXCEPT ![c] = outcome[c]]
         \/ outcome' = [outcome EXCEPT ![c] = "rollback_failed"]
  BY <1>c DEF RecoveryEvent
<1>2. /\ ~JournalReadable => ~ok /\ UNCHANGED <<journal, journalFaults>>
      /\ journalFaults = 0
  BY <1>0, <1>1, ConstantsAssumption DEF JournalEvent, TypeOK
<1>3. ~JournalReadable  BY <1>0, <1>2, <1>c DEF JournalInv, ClosedInv
<1>4. \A d \in Changes : outcome'[d] \in {outcome[d], "rollback_failed"}  BY <1>0, <1>1, <1>2, <1>3 DEF TypeOK
<1>5. ~JournalReadable'  BY <1>2, <1>3 DEF JournalReadable
<1> QED BY <1>2, <1>4, <1>5 DEF ClosedInv

LEMMA ClosedEnd == ASSUME AgentInv, ClosedInv, ProcessEnds PROVE ClosedInv'
<1>1. /\ UNCHANGED <<journal, journalFaults, outcome>>
      /\ \A c \in Changes : pc'[c] \in {"idle", "over"}
  BY DEF ProcessEnds, envVars
<1> QED BY <1>1, ClosedQuiet

LEMMA ClosedNext ==
    ASSUME MinSequence # 0
    PROVE  AgentInv /\ ClosedInv /\ [AgentNext]_allVars => ClosedInv'
<1> SUFFICES ASSUME AgentInv, ClosedInv, [AgentNext]_allVars PROVE ClosedInv'  OBVIOUS
<1>0. TypeOK  BY DEF AgentInv, AgentTypes, AgentTypeOK
<1>1. CASE \E c \in Changes : AgentRunStep(c)  BY <1>1, ClosedRun
<1>2. CASE \E ok \in BOOLEAN : RecoveryEvent(ok)  BY <1>2, ClosedRecovery
<1>3. CASE Crash \/ RecoveryFails  BY <1>3, ClosedEnd DEF Crash, RecoveryFails
<1>4. CASE UNCHANGED <<journal, journalFaults, outcome, pc>>  BY <1>4, ClosedQuiet
<1>5. CASE Handler
  <2>1. /\ UNCHANGED <<journal, outcome, journalFaults>>
        /\ pc' = pc \/ \E c \in Changes : pc' = [pc EXCEPT ![c] = "readStaged"]
    BY <1>5 DEF Handler, Validate, Save, ApplyRequest, Cancel, ClearApplyBlock, Apply, Goto, vars, coordinatorVars,
      diskVars, lockVars, runVars, envVars, historyVars
  <2> QED BY <1>0, <2>1, ClosedQuiet DEF TypeOK
<1>6. CASE AgentEnvironment
  <2>1. UNCHANGED <<journal, outcome, journalFaults, pc>>
    BY <1>6 DEF AgentEnvironment, ExpireDraft, Unstage, ExpireSnapshot, Edit, agentVars, agentMemory, coordinatorVars,
      diskVars, lockVars, runVars, envVars, historyVars
  <2> QED BY <1>4, <2>1
<1>7. CASE Restart \/ RecoveryDone \/ UNCHANGED allVars
  <2>1. UNCHANGED <<journal, outcome, journalFaults, pc>>
    BY <1>7 DEF Restart, RecoveryDone, allVars, agentVars, vars, coordinatorVars, runVars
  <2> QED BY <1>4, <2>1
<1>8. CASE RunResumed  BY <1>3, <1>4, <1>8 DEF RunResumed, vars, coordinatorVars, runVars
<1>9. CASE \E c \in Changes : ResumeRun(c) \/ StartRollback(c)
  <2>1. PICK c \in Changes : ResumeRun(c) \/ StartRollback(c)  BY <1>9
  <2>2. RecoveryFails \/
        /\ UNCHANGED <<journal, journalFaults>>
        /\ outcome' = [outcome EXCEPT ![c] = "none"]
        /\ pc' = pc \/ pc' = [pc EXCEPT ![c] = "readStaged"]
    BY <2>1 DEF ResumeRun, StartRollback, Goto
  <2>3. ASSUME /\ UNCHANGED <<journal, journalFaults>>
               /\ outcome' = [outcome EXCEPT ![c] = "none"]
               /\ pc' = pc \/ pc' = [pc EXCEPT ![c] = "readStaged"]
        PROVE  ClosedInv'
    <3>1. /\ \A d \in Changes : outcome'[d] \in {outcome[d], "none"}
          /\ \A d \in Changes : pc'[d] \in {pc[d], "readStaged"}
      BY <1>0, <2>3 DEF TypeOK
    <3> QED BY <2>3, <3>1, ClosedQuiet
  <2> QED BY <1>3, <2>2, <2>3
<1>10. CASE RecoveryRestore \/ RecoveryAction  BY <1>4, <1>10 DEF RecoveryRestore, RecoveryAction, runVars
<1> QED BY <1>1, <1>2, <1>3, <1>5, <1>6, <1>7, <1>8, <1>9, <1>10 DEF AgentNext, RecoveryStep

LEMMA GoneWhenClosed ==
    ASSUME MinSequence # 0
    PROVE  AgentSpec => [](journalFaults = 0 => RolledBackLeavesNothing)
<1>1. AgentInit => ClosedInv
  BY DEF AgentInit, Init, ClosedInv, Recorded, Holding, BeforeWrite, Writing, RollingBack, NoWriteRollingBack
<1>2. ClosedInv => (journalFaults = 0 => RolledBackLeavesNothing)  BY DEF ClosedInv, RolledBackLeavesNothing
<1>3. AgentInv /\ ClosedInv /\ [AgentNext]_allVars => ClosedInv'  BY ClosedNext
<1> QED BY <1>1, <1>2, <1>3, AgentInvariant, PTL DEF AgentSpec

\* After any number of crashes and recoveries, a run that is reported as rolled
\* back has left its content in no file and in no release that runs, unless the
\* process was killed between the run's first write and the journal record that
\* tells of it, as long as the journal's writes succeed.
THEOREM RolledBackMeansGone == AgentSpec => [](journalFaults = 0 => RolledBackLeavesNothing)
<1>1. CASE MinSequence = 0  BY <1>1, GoneWhenAccepted
<1>2. CASE MinSequence # 0  BY <1>2, GoneWhenClosed
<1> QED BY <1>1, <1>2
======
