------ MODULE ArtifactStore ------
(* The encrypted artifacts of the configuration agent:
   apps/config-agent/src/changes artifactStorage.ts, draftStore.ts,
   snapshotStore.ts and cleanup/retentionService.ts.  A directory holds
   one file per artifact and an index of them.  A call writes or removes
   the file and then reads, changes and writes the whole index; nothing
   locks it against the other calls of the agent or against the cleanup,
   which is a process of its own. *)
EXTENDS Integers, Sequences

CONSTANTS
    ArtifactIds,      \* ids of changes and of snapshots
    StoreTasks,       \* concurrent calls of the agent
    Stored,           \* artifacts stored before: <<directory, id>>
    StagedTtl,        \* days a draft or a staged change lives
    SnapshotTtl,      \* days a snapshot lives
    MaxStoreDay, MaxStoreCalls, MaxInterruptions   \* bounds

ASSUME ArtifactStoreAssumption ==
    /\ {StagedTtl, SnapshotTtl} \subseteq Nat \ {0}
    /\ {MaxStoreDay, MaxStoreCalls, MaxInterruptions} \subseteq Nat
    /\ Stored \subseteq {"drafts", "staged", "snapshots"} \X ArtifactIds
    /\ "cleanup" \notin StoreTasks

VARIABLES
    files,         \* directory -> id -> the expiry in the envelope, 0: no file
    index,         \* directory -> id -> its entry, expires 0: no entry
    task,          \* the calls in progress, each at one of its steps
    storeDay,
    contested,     \* history: artifacts whose index entry a race or a crash left wrong
    evidence,      \* history: snapshots marked before they expired and not released
    accepted,      \* history: changes whose draft is stored and neither deleted nor expired
    storeCalls, interruptions

artifactHistory == <<contested, evidence, accepted>>
artifactVars == <<files, index, task, storeDay, artifactHistory, storeCalls, interruptions>>

Directories == {"drafts", "staged", "snapshots"}
AllTasks == StoreTasks \cup {"cleanup"}
NoEntry == [expires |-> 0, kept |-> FALSE]
NoCall == [call |-> <<>>, at |-> 0, ids |-> {}, now |-> 0, entries |-> [id \in ArtifactIds |-> NoEntry]]

\* ARTIFACT_DIRECTORIES, each with the time to live of its store.
TtlOf(directory) == IF directory = "snapshots" THEN SnapshotTtl ELSE StagedTtl

\* Every step of a call touches the file system once, with other calls in between.
WriteValue(d) == <<<<"put", d>>, <<"load", d>>, <<"add", d>>>>
DeleteValue(d) == <<<<"unlink", d>>, <<"load", d>>, <<"remove", d>>>>
MarkValue(mark) == <<<<"lookup", "snapshots">>, <<"load", "snapshots">>, <<mark, "snapshots">>>>

\* A seal reads the draft, stages its value and deletes the draft.
SealDraft ==
    <<<<"lookup", "drafts">>, <<"open", "drafts">>,
      <<"put", "staged">>, <<"load", "staged">>, <<"add", "staged">>,
      <<"unlink", "drafts">>, <<"load", "drafts">>, <<"remove", "drafts">>>>

\* The calls that change something.
Calls ==
    {WriteValue(d) : d \in {"drafts", "snapshots"}} \cup {DeleteValue(d) : d \in {"drafts", "staged"}}
    \cup {SealDraft} \cup {MarkValue(mark) : mark \in {"mark", "release"}}

ArtifactInit ==
    /\ files = [d \in Directories |-> [id \in ArtifactIds |->
                   IF <<d, id>> \in Stored THEN 1 + TtlOf(d) ELSE 0]]
    /\ index = [d \in Directories |-> [id \in ArtifactIds |->
                   [expires |-> files[d][id], kept |-> FALSE]]]
    /\ task = [t \in AllTasks |-> NoCall]
    /\ storeDay = 1 /\ contested = {} /\ evidence = {}
    /\ accepted = {id \in ArtifactIds : <<"drafts", id>> \in Stored}
    /\ storeCalls = 0 /\ interruptions = 0

-----
Busy(t) == task[t].call # <<>>
Step(t) == task[t].call[task[t].at]
At(t, do) == Busy(t) /\ Step(t)[1] = do
Begun(call, ids) == [call |-> call, at |-> 1, ids |-> ids, now |-> storeDay, entries |-> NoCall.entries]
Finish(t) == task' = [task EXCEPT ![t] = NoCall]
Advance(t, entries) ==
    task' = [task EXCEPT ![t] = [call |-> task[t].call, at |-> task[t].at + 1, ids |-> task[t].ids,
                                 now |-> task[t].now, entries |-> entries]]
Continue(t) == IF task[t].at = Len(task[t].call) THEN Finish(t) ELSE Advance(t, task[t].entries)

\* Between the change of a file and the change of its entry.
Open(t) == Busy(t) /\ Step(t)[1] \in {"load", "add", "remove"}
Touches(t, d, id) == Open(t) /\ Step(t)[2] = d /\ id \in task[t].ids
Contend(d, ids, t) ==
    {<<d, id>> : id \in {i \in ids : \E other \in AllTasks \ {t} : Touches(other, d, i)}}

\* Between the staging of a draft and its removal.
Sealing(t, id) == task[t].call = SealDraft /\ task[t].at \in 4..6 /\ id \in task[t].ids

\* A snapshot's id is that of its run and is written once.
StartCall(t) ==
    \E call \in Calls, id \in ArtifactIds :
        /\ task[t] = NoCall /\ storeCalls < MaxStoreCalls
        /\ call = WriteValue("snapshots") =>
              /\ files["snapshots"][id] = 0 /\ index["snapshots"][id] = NoEntry
              /\ \A other \in StoreTasks : id \in task[other].ids => Step(other)[2] # "snapshots"
        /\ task' = [task EXCEPT ![t] = Begun(call, {id})]
        /\ storeCalls' = storeCalls + 1
        /\ UNCHANGED <<files, index, storeDay, artifactHistory, interruptions>>

Eligible(directory, entry, now) ==
    entry # NoEntry /\ entry.expires <= now /\ ~(directory = "snapshots" /\ entry.kept)

\* The timer starts the cleanup: it reads the index of a directory and picks
\* what is expired.  The three directories are cleaned at the same time and
\* share nothing.
RemoveExpiredDirectory ==
    \E d \in Directories :
        LET expired == {id \in ArtifactIds : Eligible(d, index[d][id], storeDay)}
        IN  /\ task["cleanup"] = NoCall /\ expired # {}
            /\ task' = [task EXCEPT !["cleanup"] = Begun(DeleteValue(d), expired)]
            /\ UNCHANGED <<files, index, storeDay, artifactHistory, storeCalls, interruptions>>

\* A file is replaced by a rename, so it is there as a whole or not at all.  A
\* draft that is stored while its seal is about to remove it goes with it.
WriteAtomicSecureArtifact(t) ==
    LET d == Step(t)[2]
    IN  /\ At(t, "put")
        /\ files' = [files EXCEPT ![d] = [id \in ArtifactIds |->
                        IF id \in task[t].ids THEN task[t].now + TtlOf(d) ELSE files[d][id]]]
        /\ contested' = contested \cup Contend(d, task[t].ids, t)
        /\ accepted' = accepted \cup {id \in task[t].ids : d = "drafts" /\ \A other \in AllTasks : ~Sealing(other, id)}
        /\ Continue(t)
        /\ UNCHANGED <<index, storeDay, evidence, storeCalls, interruptions>>

\* The call of one artifact ends when there was no file; the cleanup goes on.
\* What a seal removes is staged by then.
DeleteSecureArtifact(t) ==
    LET d == Step(t)[2]
        present == {id \in task[t].ids : files[d][id] # 0}
    IN  /\ At(t, "unlink")
        /\ files' = [files EXCEPT ![d] = [id \in ArtifactIds |->
                        IF id \in present THEN 0 ELSE files[d][id]]]
        /\ contested' = contested \cup Contend(d, present, t)
        /\ accepted' = IF task[t].call = SealDraft THEN accepted ELSE accepted \ task[t].ids
        /\ IF present = {} /\ t # "cleanup" THEN Finish(t) ELSE Continue(t)
        /\ UNCHANGED <<index, storeDay, evidence, storeCalls, interruptions>>

\* The entry decides: without one there is nothing to seal or to mark, and an
\* expired draft is not sealed.
LookUp(t) ==
    LET entry == index[Step(t)[2]][CHOOSE i \in task[t].ids : TRUE]
        found == entry # NoEntry /\ (task[t].call = SealDraft => entry.expires > task[t].now)
    IN  /\ At(t, "lookup")
        /\ IF found THEN Continue(t) ELSE Finish(t)
        /\ UNCHANGED <<files, index, storeDay, artifactHistory, storeCalls, interruptions>>

\* The file the entry promised: it may be gone, and the envelope has an expiry
\* of its own.
ReadSecureArtifact(t) ==
    /\ At(t, "open")
    /\ IF files[Step(t)[2]][CHOOSE i \in task[t].ids : TRUE] > task[t].now THEN Continue(t) ELSE Finish(t)
    /\ UNCHANGED <<files, index, storeDay, artifactHistory, storeCalls, interruptions>>

ReadArtifactIndex(t) ==
    /\ At(t, "load")
    /\ Advance(t, index[Step(t)[2]])
    /\ UNCHANGED <<files, index, storeDay, artifactHistory, storeCalls, interruptions>>

\* The entry a call leaves for an artifact it is about.
Updated(do, d, entry, now) ==
    CASE do = "add" -> [expires |-> now + TtlOf(d), kept |-> FALSE]
      [] do = "remove" -> NoEntry
      [] do = "mark" /\ entry # NoEntry -> [entry EXCEPT !.kept = TRUE]
      [] do = "release" /\ entry # NoEntry ->
            [expires |-> IF entry.expires <= now THEN now ELSE entry.expires, kept |-> FALSE]
      [] OTHER -> entry

\* updateArtifactIndex writes what it read with its own change in it: what
\* another call wrote since is gone.
WriteArtifactIndex(t) ==
    LET do == Step(t)[1]
        d == Step(t)[2]
        this == task[t]
    IN  /\ \E update \in {"add", "remove", "mark", "release"} : At(t, update)
        /\ index' = [index EXCEPT ![d] = [id \in ArtifactIds |->
                        IF id \in this.ids THEN Updated(do, d, this.entries[id], this.now) ELSE this.entries[id]]]
        /\ contested' = contested \cup {<<d, id>> : id \in {i \in ArtifactIds : index[d][i] # this.entries[i]}}
        /\ evidence' = CASE do = "mark" -> evidence \cup {id \in this.ids : index'[d][id].expires > storeDay}
                         [] do = "release" -> evidence \ this.ids
                         [] OTHER -> evidence
        /\ Continue(t)
        /\ UNCHANGED <<files, storeDay, accepted, storeCalls, interruptions>>

\* A write fails or the process dies: the call ends where it is.
Interrupt(t) ==
    /\ Busy(t) /\ interruptions < MaxInterruptions
    /\ interruptions' = interruptions + 1
    /\ contested' = contested \cup (IF Open(t) THEN {<<Step(t)[2], id>> : id \in task[t].ids} ELSE {})
    /\ Finish(t)
    /\ UNCHANGED <<files, index, storeDay, evidence, accepted, storeCalls>>

StoreDayPasses ==
    /\ storeDay < MaxStoreDay /\ storeDay' = storeDay + 1
    /\ UNCHANGED <<files, index, task, artifactHistory, storeCalls, interruptions>>

TaskStep(t) ==
    \/ WriteAtomicSecureArtifact(t) \/ DeleteSecureArtifact(t) \/ LookUp(t) \/ ReadSecureArtifact(t)
    \/ ReadArtifactIndex(t) \/ WriteArtifactIndex(t)

ArtifactNext ==
    \/ \E t \in StoreTasks : StartCall(t)
    \/ \E t \in AllTasks : TaskStep(t) \/ Interrupt(t)
    \/ RemoveExpiredDirectory \/ StoreDayPasses

ArtifactSpec == ArtifactInit /\ [][ArtifactNext]_artifactVars

-----
\* The snapshot of a failed rollback stays, with its mark, however the cleanup
\* and other calls interleave, unless a race or a crash hit its entry.
EvidenceIsKept ==
    \A id \in evidence : <<"snapshots", id>> \notin contested =>
        files["snapshots"][id] # 0 /\ index["snapshots"][id].kept

\* Between calls the index lists exactly the files: an entry without a file
\* would make a read fail, a file without an entry would never be removed.
IndexFollowsFiles ==
    \A d \in Directories, id \in ArtifactIds :
        (<<d, id>> \notin contested /\ \A t \in AllTasks : ~Touches(t, d, id)) =>
            ((files[d][id] # 0) = (index[d][id] # NoEntry))

\* A draft that was stored is not lost by a seal that fails half way, however
\* deletions, the cleanup and other seals come between its steps.
SealKeepsTheChange ==
    \A id \in accepted : files["drafts"][id] # 0 \/ files["staged"][id] # 0

ArtifactsAreSafe == EvidenceIsKept /\ IndexFollowsFiles /\ SealKeepsTheChange
======
