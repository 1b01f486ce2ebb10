------ MODULE ConfigChange_proofs ------
(* Theorems about the API side of configuration changes, for any set of
   changes, requests and idempotency keys and any number of lost calls and
   restarts. *)
EXTENDS ConfigChange, SequenceTheorems, TLAPS

Rows == [state : ChangeStates, version : Nat, digest : Digests \cup {NoValue}]

RecordKeys ==
    ({"apply"} \X (Keys \cup {NoValue})) \cup ({"event"} \X Nat)
    \cup ({"dispatch"} \X {"rollback", "failed", "retry"})

Records == [key : RecordKeys, from : ChangeStates, to : ChangeStates, version : Nat]

AgentEvents == [id : Nat, state : ChangeStates]

Places ==
    {"idle", "agentValidate", "readValidation", "replaceItems", "updateValidation",
     "agentSave", "markSaved", "applyTransition", "agentApply", "agentStatus",
     "readForReconcile", "reconcile", "refresh", "readAfterPolls", "dispatchRollingBack",
     "dispatchFailed", "dispatchRefresh", "dispatchReread", "dispatchRetry", "block",
     "createIncident", "agentClear", "agentCancel", "readCancel", "updateCancel"}

TaskStates ==
    [pc : Places, c : Changes \cup {NoValue}, key : Keys \cup {NoValue},
     digest : Digests \cup {NoValue}, rec : Rows, todo : Seq(AgentEvents),
     result : ChangeStates \cup {"none"}, polls : Nat, monitor : BOOLEAN]

DbType ==
    /\ row \in [Changes -> Rows \cup {NoValue}]
    /\ items \in [Changes -> Digests \cup {NoValue}]
    /\ runs \in [Changes -> SUBSET Records]
    /\ blocks \in [Apps -> Changes \cup {NoValue}]
    /\ incident \in [Changes -> {"none", "open", "resolved"}]

AgentType ==
    /\ draft \in [Changes -> Digests \cup {NoValue}]
    /\ staged \in [Changes -> Digests \cup {NoValue}]
    /\ run \in [Changes -> ApplyStates \cup {"none", "starting", "rejected"}]
    /\ journal \in [Changes -> ApplyStates \cup {"none"}]
    /\ applied \in [Changes -> Digests \cup {NoValue}]
    /\ started \subseteq Changes /\ recovering \subseteq Changes
    /\ events \in [Changes -> Seq(ChangeStates)]
    /\ dropped \in [Changes -> Nat]
    /\ agentBlocks \subseteq Apps

CountType ==
    /\ requests \in 0..MaxRequests /\ lost \in 0..MaxLost
    /\ agentRestarts \in 0..MaxAgentRestarts /\ apiRestarts \in 0..MaxApiRestarts
    /\ blockedFor \subseteq Changes
    /\ starts \in [Changes -> Nat]

TaskType == task \in [Tasks -> TaskStates]

ChangeType == DbType /\ AgentType /\ CountType /\ TaskType

-----
(* The inductive invariant.                                                *)

\* The states in which a change keeps its digest.
Settled == ApplyStates \cup {"SAVED", "CANCELLED", "EXPIRED"}

\* The states that tell an operator that nothing is left to be done.
Clean == {"COMPLETED", "ROLLED_BACK"}

\* The one run of the change did end so.
Justified(c, state) == starts[c] <= 1 => run[c] = state

Exists(c) == c \in Changes /\ row[c] # NoValue

\* What a task relies on at its next step.
TaskOK(k) ==
    /\ k.pc # "idle" => k.c \in Changes
    /\ k.pc \notin {"idle", "agentClear"} => Exists(k.c)
    /\ k.pc \in {"applyTransition", "agentApply"} =>
         row[k.c].state \in Settled /\ row[k.c].digest = k.digest
    /\ k.pc = "agentApply" => row[k.c].state \in ApplyStates
    /\ k.pc = "updateCancel" => k.rec.state \in {"DRAFT", "READY", "SAVED"}
    /\ k.pc = "refresh" => k.todo # <<>>
    /\ k.pc # "idle" =>
         \A i \in 1..Len(k.todo) : k.todo[i].state \in Clean => Justified(k.c, k.todo[i].state)

TaskInv == \A t \in Tasks : TaskOK(task[t])

\* A change the agent works on is one the database applies, with its digest.
AgentOK(c) ==
    /\ run[c] # "none" => Exists(c) /\ row[c].state \in ApplyStates
    /\ applied[c] # NoValue =>
         Exists(c) /\ row[c].state \in ApplyStates /\ row[c].digest = applied[c]
    /\ run[c] \in ApplyStates \cup {"none"} => journal[c] = run[c]
    /\ starts[c] = 0 => run[c] = "none"
    /\ \A i \in 1..Len(events[c]) : events[c][i] \in Clean => Justified(c, events[c][i])

AgentInv == \A c \in Changes : AgentOK(c)

\* The records of a change end at its row.
TrailOK(c) ==
    /\ row[c] = NoValue => runs[c] = {}
    /\ \A r \in runs[c] :
         /\ r.version <= row[c].version
         /\ r.version = row[c].version => r.to = row[c].state
         /\ r.to \in ApplyStates => row[c].state \in ApplyStates
    /\ Exists(c) /\ row[c].state \in ApplyStates =>
         \E r \in runs[c] : r.to = row[c].state /\ r.version = row[c].version
    /\ \A r, q \in runs[c] :
         /\ r.version = q.version => r = q
         /\ q.version = r.version + 1 => q.from = r.to
    /\ Exists(c) /\ row[c].state \in Clean => Justified(c, row[c].state)

TrailInv == \A c \in Changes : TrailOK(c)

ChangeInv == ChangeType /\ TaskInv /\ AgentInv /\ TrailInv

-----
(* Facts about the tables, records and sequences of the module.            *)

\* A change that is applied stays applied, one that is settled stays settled.
LEMMA LegalMoves ==
    \A from, to : IsLegal(from, to) =>
        /\ from \in ChangeStates /\ to \in ChangeStates
        /\ from \in ApplyStates => to \in ApplyStates
        /\ from \in Settled => to \in Settled
        /\ from \notin Clean \cup {"CANCELLED", "EXPIRED", "INVALID"}
  BY DEF IsLegal, LegalTransitions, ApplyTransitions, ChangeStates, ApplyStates, Settled, Clean, TerminalChangeStates,
    TerminalApplyStates

\* Where some states belong.
LEMMA SomeStates ==
    /\ ApplyStates \subseteq ChangeStates /\ Clean \subseteq ApplyStates
    /\ {"DRAFT", "READY", "SAVED", "CANCELLED", "APPLYING", "ROLLING_BACK"} \subseteq ChangeStates
  BY DEF ChangeStates, ApplyStates, Clean

\* The first row and an idle task have their types, and no row is NoValue.
LEMMA SomeRecords ==
    /\ NoRow \in Rows /\ NoValue \notin Rows
    /\ IdleTask \in TaskStates
    /\ TaskOK(IdleTask)
    /\ IdleTask.pc = "idle"
<1>1. NoRow \in Rows  BY SomeStates DEF NoRow, Rows
<1>2. IdleTask \in TaskStates  BY <1>1, EmptySeq DEF IdleTask, TaskStates, Places
<1> QED BY <1>1, <1>2, ChangeAssumption DEF IdleTask, TaskOK, Rows

-----
(* What a step may do to the row and the records of a change.              *)

Moves(c, state) ==
    /\ Exists(c)
    /\ row'[c] \in Rows /\ row'[c].state = state /\ row'[c].version = row[c].version + 1

RowMove(c) ==
    \/ row'[c] = row[c] /\ runs'[c] = runs[c]
    \/ row[c] = NoValue /\ row'[c] = NoRow /\ runs'[c] = runs[c]
    \/ /\ Moves(c, "READY") /\ row[c].state \in {"DRAFT", "INVALID"}
       /\ runs'[c] = runs[c]
    \/ \E to \in {"SAVED", "CANCELLED"} :
         /\ Moves(c, to) /\ IsLegal(row[c].state, to) /\ row'[c].digest = row[c].digest
         /\ runs'[c] = runs[c]
    \/ \E to \in ChangeStates, key \in RecordKeys :
         /\ Moves(c, to) /\ IsLegal(row[c].state, to) /\ row'[c].digest = row[c].digest
         /\ to \in Clean => Justified(c, to)
         /\ runs'[c] = runs[c] \cup
              {[key |-> key, from |-> row[c].state, to |-> to, version |-> row[c].version + 1]}

\* A transition of the repository is such a move.
LEMMA TransitionMoves ==
    ASSUME ChangeType, NEW d, Exists(d), NEW key \in RecordKeys, NEW to, NEW expected,
           Transition(d, key, to, expected), to \in Clean => Justified(d, to), NEW c \in Changes
    PROVE  RowMove(c)
<1> USE DEF ChangeType, DbType
<1>1. CASE UNCHANGED <<row, runs>>  BY <1>1 DEF RowMove
<1>2. CASE /\ Accepted(d, key, to, expected)
           /\ row' = [row EXCEPT ![d].state = to, ![d].version = @ + 1]
           /\ runs' = [runs EXCEPT ![d] = @ \cup
                        {[key |-> key, from |-> row[d].state, to |-> to, version |-> row[d].version + 1]}]
  <2>1. IsLegal(row[d].state, to) /\ to \in ChangeStates /\ d \in Changes /\ row[d] \in Rows
    BY <1>2, LegalMoves DEF Accepted, Exists
  <2>2. CASE c # d  BY <1>2, <2>1, <2>2 DEF RowMove
  <2>3. CASE c = d
    <3>1. /\ Moves(d, to) /\ row'[d].digest = row[d].digest
          /\ runs'[d] = runs[d] \cup
              {[key |-> key, from |-> row[d].state, to |-> to, version |-> row[d].version + 1]}
      BY <1>2, <2>1 DEF Moves, Rows
    <3> QED BY <2>1, <2>3, <3>1 DEF RowMove
  <2> QED BY <2>2, <2>3
<1> QED BY <1>1, <1>2 DEF Transition

\* Every step of the system moves the rows like that.
LEMMA RowMoves == ASSUME ChangeInv, Next, NEW c \in Changes PROVE RowMove(c)
<1> USE DEF ChangeInv
<1>1. CASE UNCHANGED <<row, runs>>  BY <1>1 DEF RowMove
<1>2. ASSUME NEW d \in Changes, CreateDraft(d) PROVE RowMove(c)  BY <1>2 DEF CreateDraft, RowMove, ChangeType, DbType
<1>3. ASSUME NEW t \in Tasks, TaskStep(t) PROVE RowMove(c)
  <2> DEFINE d == task[t].c
  <2>1. TaskOK(task[t]) /\ task[t] \in TaskStates  BY DEF TaskInv, ChangeType, TaskType
  <2>2. ASSUME NEW key \in RecordKeys, NEW to, NEW done, NEW refused, TransitionStep(t, key, to, done, refused),
               task[t].pc \notin {"idle", "agentClear"}, to \notin Clean
        PROVE  RowMove(c)
    <3>1. Exists(d)  BY <2>1, <2>2 DEF TaskOK
    <3>2. UNCHANGED <<row, runs>> \/ Transition(d, key, to, task[t].rec.version)  BY <2>2 DEF TransitionStep
    <3> QED BY <1>1, <2>2, <3>1, <3>2, TransitionMoves
  <2>3. CASE ApplyTransition(t)
    <3>1. <<"apply", task[t].key>> \in RecordKeys  BY <2>1 DEF RecordKeys, TaskStates
    <3> QED BY <2>2, <2>3, <3>1 DEF ApplyTransition, Clean
  <2>4. CASE DispatchRollingBack(t) \/ DispatchFailed(t) \/ DispatchRetry(t)
    <3>1. \A x \in {"rollback", "failed", "retry"} : <<"dispatch", x>> \in RecordKeys  BY DEF RecordKeys
    <3> QED BY <2>2, <2>4, <3>1 DEF DispatchRollingBack, DispatchFailed, DispatchRetry, Clean
  <2>5. CASE Reconcile(t)
    <3>1. CASE UNCHANGED <<row, runs>>  BY <1>1, <3>1
    <3>2. CASE ~UNCHANGED <<row, runs>>
      <4>1. /\ task[t].pc = "reconcile" /\ task[t].todo # <<>>
            /\ Transition(d, <<"event", Head(task[t].todo).id>>, Head(task[t].todo).state, task[t].rec.version)
        BY <2>5, <3>2 DEF Reconcile
      <4>2. /\ task[t].todo \in Seq(AgentEvents) /\ Head(task[t].todo) \in AgentEvents
            /\ Head(task[t].todo) = task[t].todo[1] /\ 1 \in 1..Len(task[t].todo)
        BY <2>1, <4>1, HeadTailProperties, EmptySeq, LenProperties DEF TaskStates
      <4>3. <<"event", Head(task[t].todo).id>> \in RecordKeys  BY <4>2 DEF RecordKeys, AgentEvents
      <4>4. Exists(d) /\ (Head(task[t].todo).state \in Clean => Justified(d, Head(task[t].todo).state))
        BY <2>1, <4>1, <4>2 DEF TaskOK
      <4> QED BY <4>1, <4>3, <4>4, TransitionMoves
    <3> QED BY <3>1, <3>2
  <2>6. CASE UpdateValidation(t)
    <3>1. task[t].pc = "updateValidation" /\ Exists(d) /\ row[d] \in Rows /\ runs' = runs
      BY <2>1, <2>6 DEF UpdateValidation, TaskOK, Exists, ChangeType, DbType
    <3>2. CASE row' = row  BY <1>1, <3>1, <3>2
    <3>3. CASE /\ row[d].state \in {"DRAFT", "INVALID"}
               /\ row' = [row EXCEPT ![d] = [state |-> "READY", version |-> row[d].version + 1, digest |-> task[t].digest]]
      <4>1. Moves(d, "READY")  BY <2>1, <3>1, <3>3, SomeStates DEF Moves, Rows, TaskStates, Exists, ChangeType, DbType
      <4>2. c # d => row'[c] = row[c]  BY <3>3 DEF ChangeType, DbType
      <4> QED BY <3>1, <3>3, <4>1, <4>2 DEF RowMove
    <3> QED BY <2>6, <3>2, <3>3 DEF UpdateValidation
  <2>7. ASSUME NEW to \in {"SAVED", "CANCELLED"}, Exists(d), IsLegal(row[d].state, to), runs' = runs,
               row' = [row EXCEPT ![d].state = to, ![d].version = @ + 1]
        PROVE  RowMove(c)
    <3>1. row[d] \in Rows /\ row \in [Changes -> Rows \cup {NoValue}] /\ d \in Changes
      BY <2>7 DEF Exists, ChangeType, DbType
    <3>2. Moves(d, to) /\ row'[d].digest = row[d].digest  BY <2>7, <3>1, SomeStates DEF Moves, Rows
    <3>3. c # d => row'[c] = row[c]  BY <2>7, <3>1
    <3> QED BY <2>7, <3>2, <3>3 DEF RowMove
  <2>8. CASE MarkSaved(t)
    <3>1. task[t].pc = "markSaved" /\ Exists(d) /\ runs' = runs  BY <2>1, <2>8 DEF MarkSaved, TaskOK
    <3>2. CASE row' = row  BY <1>1, <3>1, <3>2
    <3>3. CASE row[d].state = "READY" /\ row' = [row EXCEPT ![d].state = "SAVED", ![d].version = @ + 1]
      <4>1. IsLegal("READY", "SAVED")  BY DEF IsLegal, LegalTransitions, TerminalChangeStates, TerminalApplyStates
      <4> QED BY <2>7, <3>1, <3>3, <4>1
    <3> QED BY <2>8, <3>2, <3>3 DEF MarkSaved
  <2>9. CASE UpdateCancel(t)
    <3>1. task[t].pc = "updateCancel" /\ Exists(d) /\ runs' = runs /\ task[t].rec.state \in {"DRAFT", "READY", "SAVED"}
      BY <2>1, <2>9 DEF UpdateCancel, TaskOK
    <3>2. CASE row' = row  BY <1>1, <3>1, <3>2
    <3>3. CASE /\ row[d].state = task[t].rec.state
               /\ row' = [row EXCEPT ![d].state = "CANCELLED", ![d].version = @ + 1]
      <4>1. \A s \in {"DRAFT", "READY", "SAVED"} : IsLegal(s, "CANCELLED")
        BY DEF IsLegal, LegalTransitions, TerminalChangeStates, TerminalApplyStates
      <4> QED BY <2>7, <3>1, <3>3, <4>1
    <3> QED BY <2>9, <3>2, <3>3 DEF UpdateCancel
  <2>10. CASE \/ AgentValidate(t) \/ ReadValidation(t) \/ ReplaceItems(t) \/ AgentSave(t) \/ AgentApply(t)
              \/ AgentStatus(t) \/ ReadForReconcile(t) \/ Refresh(t) \/ ReadAfterPolls(t) \/ DispatchRead(t)
              \/ Block(t) \/ CreateIncident(t) \/ AgentClear(t) \/ AgentCancel(t) \/ ReadCancel(t)
    <3>1. UNCHANGED <<row, runs>>
      BY <2>10 DEF AgentValidate, ReadValidation, ReplaceItems, AgentSave, AgentApply, AgentStatus, ReadForReconcile,
        Refresh, ReadAfterPolls, DispatchRead, Block, CreateIncident, AgentClear, AgentCancel, ReadCancel, dbVars
    <3> QED BY <1>1, <3>1
  <2> QED BY <1>3, <2>3, <2>4, <2>5, <2>6, <2>8, <2>9, <2>10 DEF TaskStep
<1>4. ASSUME NEW t \in Tasks, Request(t) PROVE RowMove(c)
  BY <1>1, <1>4 DEF Request, StatusRequest, CancelRequest, ValidateRequest, SaveRequest, ApplyRequest,
    ClearApplyBlock, Begin, dbVars
<1>5. CASE AgentRestart \/ ApiRestart  BY <1>1, <1>5 DEF AgentRestart, ApiRestart, dbVars
<1>6. ASSUME NEW d \in Changes, ResolveIncident(d) \/ AgentProgress(d) PROVE RowMove(c)
  BY <1>1, <1>6 DEF ResolveIncident, AgentProgress, dbVars
<1> QED BY <1>2, <1>3, <1>4, <1>5, <1>6 DEF Next

\* What such a move leaves: the row, the digest of a settled change, the types.
LEMMA RowKeeps ==
    ASSUME ChangeType, NEW c \in Changes, RowMove(c)
    PROVE  /\ row'[c] \in Rows \cup {NoValue} /\ runs'[c] \in SUBSET Records
           /\ Exists(c) =>
                /\ row'[c] # NoValue
                /\ row[c].state \in Settled => row'[c].state \in Settled /\ row'[c].digest = row[c].digest
                /\ row[c].state \in ApplyStates => row'[c].state \in ApplyStates
<1>1. /\ row[c] \in Rows \cup {NoValue} /\ runs[c] \in SUBSET Records
      /\ Exists(c) => row[c] \in Rows
  BY DEF ChangeType, DbType, Exists
<1>2. CASE row'[c] = row[c] /\ runs'[c] = runs[c]  BY <1>1, <1>2 DEF Exists
<1>3. CASE row[c] = NoValue /\ row'[c] = NoRow /\ runs'[c] = runs[c]  BY <1>1, <1>3, SomeRecords DEF Exists
<1>4. CASE Moves(c, "READY") /\ row[c].state \in {"DRAFT", "INVALID"} /\ runs'[c] = runs[c]
  BY <1>1, <1>4, SomeRecords DEF Moves, Settled, ApplyStates
<1>5. CASE \E to \in {"SAVED", "CANCELLED"} :
             /\ Moves(c, to) /\ IsLegal(row[c].state, to) /\ row'[c].digest = row[c].digest
             /\ runs'[c] = runs[c]
  BY <1>1, <1>5, SomeRecords, LegalMoves DEF Moves
<1>6. ASSUME NEW to \in ChangeStates, NEW key \in RecordKeys,
             Moves(c, to), IsLegal(row[c].state, to), row'[c].digest = row[c].digest,
             runs'[c] = runs[c] \cup
               {[key |-> key, from |-> row[c].state, to |-> to, version |-> row[c].version + 1]}
      PROVE  /\ row'[c] \in Rows \cup {NoValue} /\ runs'[c] \in SUBSET Records
             /\ row'[c] # NoValue
             /\ row[c].state \in Settled => row'[c].state \in Settled /\ row'[c].digest = row[c].digest
             /\ row[c].state \in ApplyStates => row'[c].state \in ApplyStates
  <2>1. [key |-> key, from |-> row[c].state, to |-> to, version |-> row[c].version + 1] \in Records
    BY <1>1, <1>6 DEF Records, Moves, Rows
  <2> QED BY <1>1, <1>6, <2>1, SomeRecords, LegalMoves DEF Moves
<1> QED BY <1>2, <1>3, <1>4, <1>5, <1>6 DEF RowMove

\* The records of a change still end at its row.
LEMMA TrailStep ==
    ASSUME ChangeType, NEW c \in Changes, TrailOK(c), RowMove(c),
           \A s \in Clean : Justified(c, s) => Justified(c, s)'
    PROVE  TrailOK(c)'
<1>1. /\ row[c] \in Rows \cup {NoValue} /\ runs[c] \in SUBSET Records
      /\ Exists(c) => row[c] \in Rows /\ row[c].version \in Nat
      /\ \A r \in runs[c] : r.version \in Nat /\ r.to \in ChangeStates
  BY DEF ChangeType, DbType, Exists, Rows, Records
<1>2. CASE row'[c] = row[c] /\ runs'[c] = runs[c]  BY <1>2 DEF TrailOK, Exists
<1>3. CASE row[c] = NoValue /\ row'[c] = NoRow /\ runs'[c] = runs[c]
  <2>1. runs'[c] = {} /\ row'[c].state = "DRAFT"  BY <1>3 DEF TrailOK, NoRow
  <2> QED BY <2>1 DEF TrailOK, ApplyStates, Clean
<1>4. ASSUME NEW to \in ChangeStates \ ApplyStates, Moves(c, to), runs'[c] = runs[c],
             row[c].state \in ApplyStates => to \in ApplyStates
      PROVE  TrailOK(c)'
  <2>1. Exists(c) /\ row'[c].version = row[c].version + 1 /\ row'[c].state = to /\ row'[c] # NoValue
    BY <1>4, SomeRecords DEF Moves
  <2>2. \A r \in runs'[c] : r.version <= row'[c].version /\ r.version # row'[c].version /\ r.to \notin ApplyStates
    BY <1>1, <1>4, <2>1 DEF TrailOK
  <2>3. to \notin Clean  BY SomeStates
  <2> QED BY <1>4, <2>1, <2>2, <2>3 DEF TrailOK, Exists
<1>5. CASE Moves(c, "READY") /\ row[c].state \in {"DRAFT", "INVALID"} /\ runs'[c] = runs[c]
  BY <1>4, <1>5 DEF ApplyStates, ChangeStates
<1>6. CASE \E to \in {"SAVED", "CANCELLED"} :
             /\ Moves(c, to) /\ IsLegal(row[c].state, to) /\ row'[c].digest = row[c].digest
             /\ runs'[c] = runs[c]
  <2>1. {"SAVED", "CANCELLED"} \subseteq ChangeStates \ ApplyStates  BY DEF ApplyStates, ChangeStates
  <2> QED BY <1>4, <1>6, <2>1, LegalMoves
<1>7. ASSUME NEW to \in ChangeStates, NEW key \in RecordKeys,
             Moves(c, to), IsLegal(row[c].state, to), to \in Clean => Justified(c, to),
             runs'[c] = runs[c] \cup
               {[key |-> key, from |-> row[c].state, to |-> to, version |-> row[c].version + 1]}
      PROVE  TrailOK(c)'
  <2> DEFINE new == [key |-> key, from |-> row[c].state, to |-> to, version |-> row[c].version + 1]
  <2>1. Exists(c) /\ row'[c].version = row[c].version + 1 /\ row'[c].state = to /\ row'[c] # NoValue
    BY <1>7, SomeRecords DEF Moves
  <2>2. /\ new.version = row[c].version + 1 /\ new.from = row[c].state /\ new.to = to
        /\ runs'[c] = runs[c] \cup {new}
    BY <1>7
  <2> HIDE DEF new
  <2>3. \A r \in runs[c] : /\ r.version <= row[c].version
                           /\ r.version = row[c].version => r.to = row[c].state
                           /\ r.to \in ApplyStates => row[c].state \in ApplyStates
    BY DEF TrailOK
  <2>4. \A r \in runs'[c] : /\ r.version <= row'[c].version
                            /\ r.version = row'[c].version => r.to = row'[c].state
                            /\ r.to \in ApplyStates => row'[c].state \in ApplyStates
    BY <1>1, <1>7, <2>1, <2>2, <2>3, LegalMoves
  <2>5. \E r \in runs'[c] : r.to = row'[c].state /\ r.version = row'[c].version  BY <2>1, <2>2
  <2>6. \A r, q \in runs'[c] : /\ r.version = q.version => r = q
                               /\ q.version = r.version + 1 => q.from = r.to
    <3>1. \A r, q \in runs[c] : /\ r.version = q.version => r = q
                                /\ q.version = r.version + 1 => q.from = r.to
      BY DEF TrailOK
    <3>2. \A r \in runs[c] : /\ r.version # new.version /\ r.version # new.version + 1
                             /\ new.version = r.version + 1 => r.to = new.from
      BY <1>1, <2>1, <2>2, <2>3
    <3>3. new.version # new.version + 1  BY <1>1, <2>1, <2>2
    <3> QED BY <2>2, <3>1, <3>2, <3>3
  <2>7. to \in Clean => (starts'[c] <= 1 => run'[c] = to)  BY <1>7 DEF Justified
  <2> QED BY <2>1, <2>4, <2>5, <2>6, <2>7 DEF TrailOK, Exists, Justified
<1> QED BY <1>2, <1>3, <1>5, <1>6, <1>7 DEF RowMove

-----
(* What a step may do to the run of a change.                              *)

RunMove(c) ==
    \/ run'[c] = run[c] /\ starts'[c] = starts[c]
    \/ starts'[c] = starts[c] + 1
    \/ run[c] \notin Clean /\ starts'[c] = starts[c]

\* The end of the only run is not taken back.
LEMMA JustifiedStays ==
    ASSUME ChangeType, NEW c \in Changes, AgentOK(c), RunMove(c), NEW s \in Clean, Justified(c, s)
    PROVE  Justified(c, s)'
<1>1. starts[c] \in Nat /\ s # "none"  BY DEF ChangeType, CountType, Clean
<1>2. CASE starts'[c] = starts[c] + 1  BY <1>1, <1>2 DEF Justified, AgentOK
<1> QED BY <1>1, <1>2 DEF Justified, RunMove

\* Every step of the system moves the runs like that.
LEMMA RunMoves == ASSUME ChangeInv, Next, NEW c \in Changes PROVE RunMove(c)
<1> USE DEF ChangeInv, ChangeType, AgentType, CountType
<1>1. CASE UNCHANGED <<run, starts>>  BY <1>1 DEF RunMove
<1>2. ASSUME NEW d \in Changes, AgentProgress(d) PROVE RunMove(c)
  <2>1. starts' = starts /\ run[d] \notin Clean /\ (c # d => run'[c] = run[c])
    BY <1>2 DEF AgentProgress, historyVars, CanTransition, ApplyTransitions, Clean
  <2> QED BY <2>1 DEF RunMove
<1>3. CASE AgentRestart
  <2>1. /\ starts' = starts
        /\ journal'[c] = journal[c] \/ journal[c] \in InProgress
        /\ run'[c] = journal'[c]
    BY <1>3 DEF AgentRestart, historyVars
  <2>2. run[c] \in Clean => journal[c] = run[c] /\ journal[c] \notin InProgress
    BY SomeStates DEF AgentInv, AgentOK, Clean, InProgress, TerminalApplyStates
  <2> QED BY <2>1, <2>2 DEF RunMove
<1>4. ASSUME NEW t \in Tasks, AgentApply(t) PROVE RunMove(c)
  <2>1. task[t].c \in Changes  BY <1>4 DEF AgentApply, TaskInv, TaskOK
  <2>2. CASE UNCHANGED <<run, starts>>  BY <1>1, <2>2
  <2>3. CASE /\ run' = [run EXCEPT ![task[t].c] = IF task[t].c \in started THEN @ ELSE "starting"]
             /\ starts' = [starts EXCEPT ![task[t].c] = IF task[t].c \in started THEN @ ELSE @ + 1]
    BY <2>1, <2>3 DEF RunMove
  <2> QED BY <1>4, <2>2, <2>3 DEF AgentApply
<1>5. ASSUME NEW t \in Tasks, TaskStep(t), ~AgentApply(t) PROVE RunMove(c)
  BY <1>1, <1>5 DEF TaskStep, AgentValidate, ReadValidation, ReplaceItems, UpdateValidation, AgentSave, MarkSaved,
    ApplyTransition, TransitionStep, AgentStatus, ReadForReconcile, Reconcile, Refresh, ReadAfterPolls,
    DispatchRollingBack, DispatchFailed, DispatchRead, DispatchRetry, Block, CreateIncident, AgentClear, AgentCancel,
    ReadCancel, UpdateCancel, agentVars, historyVars
<1>6. ASSUME NEW t \in Tasks, Request(t) PROVE RunMove(c)
  BY <1>1, <1>6 DEF Request, StatusRequest, CancelRequest, ValidateRequest, SaveRequest, ApplyRequest,
    ClearApplyBlock, Begin, agentVars, historyVars
<1>7. CASE ApiRestart \/ \E d \in Changes : CreateDraft(d) \/ ResolveIncident(d)
  BY <1>1, <1>7 DEF ApiRestart, CreateDraft, ResolveIncident, agentVars, historyVars
<1> QED BY <1>2, <1>3, <1>4, <1>5, <1>6, <1>7 DEF Next

-----
(* The tasks.                                                              *)

\* A task that waits still has what it relies on after a step of another one.
LEMMA TaskStays ==
    ASSUME ChangeInv, \A c \in Changes : RowMove(c) /\ RunMove(c), NEW k \in TaskStates, TaskOK(k)
    PROVE  TaskOK(k)'
<1>1. \A c \in Changes : Exists(c) =>
        /\ Exists(c)'
        /\ row[c].state \in Settled => row'[c].state \in Settled /\ row'[c].digest = row[c].digest
        /\ row[c].state \in ApplyStates => row'[c].state \in ApplyStates
  BY RowKeeps DEF ChangeInv, Exists
<1>2. \A c \in Changes : \A s \in Clean : Justified(c, s) => Justified(c, s)'
  BY JustifiedStays DEF ChangeInv, AgentInv
<1>3. k.pc \notin {"idle", "agentClear"} => Exists(k.c) /\ Exists(k.c)' /\ k.c \in Changes  BY <1>1 DEF TaskOK
<1>4. k.pc # "idle" =>
        \A i \in 1..Len(k.todo) : k.todo[i].state \in Clean => Justified(k.c, k.todo[i].state)'
  BY <1>2 DEF TaskOK
<1> QED BY <1>1, <1>3, <1>4 DEF TaskOK

\* A step that gives a task a state it can rely on keeps all of them.
LEMMA TaskSet ==
    ASSUME ChangeInv, \A c \in Changes : RowMove(c) /\ RunMove(c),
           NEW t \in Tasks, NEW k \in TaskStates, TaskOK(k)', Set(t, k)
    PROVE  (TaskType /\ TaskInv)'
<1>1. task \in [Tasks -> TaskStates] /\ task' = [task EXCEPT ![t] = k]  BY DEF ChangeInv, ChangeType, TaskType, Set
<1>2. ASSUME NEW u \in Tasks PROVE TaskOK(task[u])'
  <2>1. PICK j \in TaskStates : j = task'[u] /\ TaskOK(j)'
    <3>1. CASE u = t  BY <1>1, <3>1
    <3>2. CASE u # t
      <4>1. PICK j \in TaskStates : j = task[u] /\ TaskOK(j)  BY <1>1 DEF ChangeInv, TaskInv
      <4> QED BY <1>1, <3>2, <4>1, TaskStays
    <3> QED BY <3>1, <3>2
  <2> QED BY <2>1 DEF TaskOK, Exists, Justified
<1> QED BY <1>1, <1>2 DEF TaskType, TaskInv

\* The same for a state the task could rely on before the step.
LEMMA TaskSetNow ==
    ASSUME ChangeInv, \A c \in Changes : RowMove(c) /\ RunMove(c),
           NEW t \in Tasks, NEW k \in TaskStates, TaskOK(k), Set(t, k)
    PROVE  (TaskType /\ TaskInv)'
  BY TaskStays, TaskSet

\* A task may end at any time.
LEMMA TaskReturns ==
    ASSUME ChangeInv, \A c \in Changes : RowMove(c) /\ RunMove(c), NEW t \in Tasks, Return(t)
    PROVE  (TaskType /\ TaskInv)'
  BY SomeRecords, TaskSetNow DEF Return

\* The places where a task relies on nothing but its change.
Ordinary == Places \ {"idle", "agentClear", "applyTransition", "agentApply", "updateCancel", "refresh"}

\* A task loses nothing when it goes on to such a place with some of its events.
LEMMA TaskGoesOn ==
    ASSUME NEW k \in TaskStates, TaskOK(k), k.pc \notin {"idle", "agentClear"},
           NEW j \in TaskStates, j.c = k.c, j.pc \in Ordinary,
           \A i \in 1..Len(j.todo) : \E n \in 1..Len(k.todo) : j.todo[i] = k.todo[n]
    PROVE  TaskOK(j)
  BY DEF TaskOK, Ordinary, Exists

\* In particular when only its place changes,
LEMMA StepGoesOn ==
    ASSUME NEW k \in TaskStates, TaskOK(k), k.pc \notin {"idle", "agentClear"}, NEW p \in Ordinary
    PROVE  [k EXCEPT !.pc = p] \in TaskStates /\ TaskOK([k EXCEPT !.pc = p])
<1> DEFINE j == [k EXCEPT !.pc = p]
<1>1. j \in TaskStates /\ j.c = k.c /\ j.pc = p /\ j.todo = k.todo  BY DEF TaskStates, Ordinary
<1> HIDE DEF j
<1>2. TaskOK(j)  BY <1>1, TaskGoesOn
<1> QED BY <1>1, <1>2 DEF j

\* when it also has read a row,
LEMMA ReadGoesOn ==
    ASSUME NEW k \in TaskStates, TaskOK(k), k.pc \notin {"idle", "agentClear"}, NEW p \in Ordinary, NEW r \in Rows
    PROVE  [k EXCEPT !.pc = p, !.rec = r] \in TaskStates /\ TaskOK([k EXCEPT !.pc = p, !.rec = r])
<1> DEFINE j == [k EXCEPT !.pc = p, !.rec = r]
<1>1. j \in TaskStates /\ j.c = k.c /\ j.pc = p /\ j.todo = k.todo  BY DEF TaskStates, Ordinary
<1> HIDE DEF j
<1>2. TaskOK(j)  BY <1>1, TaskGoesOn
<1> QED BY <1>1, <1>2 DEF j

\* and when a monitor goes on to its next poll.
LEMMA PollGoesOn ==
    ASSUME ChangeInv, NEW t \in Tasks, task[t].pc \notin {"idle", "agentClear"}
    PROVE  AfterPoll(t) \in TaskStates /\ TaskOK(AfterPoll(t))
<1>1. task[t] \in TaskStates /\ TaskOK(task[t])  BY DEF ChangeInv, ChangeType, TaskType, TaskInv
<1>2. CASE ~task[t].monitor  BY <1>2, SomeRecords DEF AfterPoll
<1>3. CASE task[t].monitor
  <2> DEFINE p == IF task[t].polls + 1 < MaxPolls THEN "agentStatus" ELSE "readAfterPolls"
             j == [task[t] EXCEPT !.polls = task[t].polls + 1, !.todo = <<>>, !.result = "none", !.pc = p]
  <2>1. p \in Ordinary  BY DEF Ordinary, Places
  <2>2. <<>> \in Seq(AgentEvents) /\ Len(<<>>) = 0  BY EmptySeq
  <2> HIDE DEF p
  <2>3. j \in TaskStates /\ j.c = task[t].c /\ j.pc = p /\ j.todo = <<>>
    <3>1. task[t].polls + 1 \in Nat  BY <1>1 DEF TaskStates
    <3>2. PICK e \in Seq(AgentEvents) : e = <<>>  BY <2>2
    <3>3. j = [task[t] EXCEPT !.polls = task[t].polls + 1, !.todo = e, !.result = "none", !.pc = p]  BY <3>2
    <3> HIDE DEF j
    <3>4. PICK i \in TaskStates, m \in Nat, q \in Ordinary : i = task[t] /\ m = i.polls + 1 /\ q = p
      BY <1>1, <2>1, <3>1
    <3>5. j = [i EXCEPT !.polls = m, !.todo = e, !.result = "none", !.pc = q]  BY <3>3, <3>4
    <3>6. j \in TaskStates /\ j.c = i.c /\ j.pc = q /\ j.todo = e  BY <3>5 DEF TaskStates, Ordinary
    <3> QED BY <3>2, <3>4, <3>6
  <2>4. AfterPoll(t) = j  BY <1>3 DEF AfterPoll, p
  <2> HIDE DEF j
  <2>5. TaskOK(j)  BY <1>1, <2>1, <2>2, <2>3, TaskGoesOn
  <2> QED BY <2>3, <2>4, <2>5
<1> QED BY <1>2, <1>3

\* What the caller of transition goes on with is a row.
LEMMA ResultType ==
    ASSUME ChangeType, NEW c \in Changes, Exists(c), NEW key, NEW to \in ChangeStates
    PROVE  Result(c, key, to) \in Rows
<1>1. row[c] \in Rows /\ runs[c] \in SUBSET Records  BY DEF ChangeType, DbType, Exists
<1>2. Recorded(c, key) # {} => (CHOOSE r \in Recorded(c, key) : TRUE) \in Records  BY <1>1 DEF Recorded
<1> QED BY <1>1, <1>2 DEF Result, Rows, Records

\* The events `status` returns are events of the agent.
LEMMA EventsAfterType ==
    ASSUME ChangeType, NEW c \in Changes, NEW n \in 0..Len(events[c])
    PROVE  /\ EventsAfter(c, n) \in Seq(AgentEvents)
           /\ Len(EventsAfter(c, n)) = Len(events[c]) - n
           /\ \A i \in 1..(Len(events[c]) - n) :
                n + i \in 1..Len(events[c]) /\ EventsAfter(c, n)[i].state = events[c][n + i]
<1>1. events[c] \in Seq(ChangeStates) /\ dropped[c] \in Nat  BY DEF ChangeType, AgentType
<1>2. Len(events[c]) \in Nat /\ events[c] \in [1..Len(events[c]) -> ChangeStates]  BY <1>1, LenProperties
<1> DEFINE m == Len(events[c]) - n
           e(i) == [id |-> dropped[c] + n + i, state |-> events[c][n + i]]
<1>3. m \in Nat /\ \A i \in 1..m : n + i \in 1..Len(events[c])  BY <1>2
<1>4. \A i \in 1..m : e(i) \in AgentEvents /\ e(i).state = events[c][n + i]  BY <1>1, <1>2, <1>3 DEF AgentEvents
<1>5. EventsAfter(c, n) = [i \in 1..m |-> e(i)]  BY DEF EventsAfter
<1> HIDE DEF m, e
<1>6. [i \in 1..m |-> e(i)] \in Seq(AgentEvents) /\ Len([i \in 1..m |-> e(i)]) = m  BY <1>3, <1>4
<1> QED BY <1>3, <1>4, <1>5, <1>6 DEF m

\* A step of a task leaves it, and every other one, what it relies on.
LEMMA TaskSteps ==
    ASSUME ChangeInv, \A c \in Changes : RowMove(c) /\ RunMove(c), NEW t \in Tasks, TaskStep(t)
    PROVE  (TaskType /\ TaskInv)'
<1> DEFINE k == task[t]
           Kept == (TaskType /\ TaskInv)'
<1>1. k \in TaskStates /\ TaskOK(k) /\ ChangeType  BY DEF ChangeInv, ChangeType, TaskType, TaskInv
<1>2. k.pc \notin {"idle", "agentClear"} => /\ k.c \in Changes /\ Exists(k.c) /\ row[k.c] \in Rows
                                            /\ (row'[k.c] \in Rows /\ row'[k.c] # NoValue)
  <2>1. k.pc \notin {"idle", "agentClear"} => k.c \in Changes /\ Exists(k.c)  BY <1>1 DEF TaskOK
  <2>2. \A c \in Changes : Exists(c) => row[c] \in Rows /\ row'[c] # NoValue /\ row'[c] \in Rows \cup {NoValue}
    BY <1>1, RowKeeps DEF ChangeType, DbType, Exists
  <2> QED BY <2>1, <2>2
<1>3. ASSUME Return(t) PROVE Kept  BY <1>3, TaskReturns
<1>4. ASSUME NEW p \in Ordinary, Step(t, p), k.pc \notin {"idle", "agentClear"} PROVE Kept
  <2>1. [k EXCEPT !.pc = p] \in TaskStates /\ TaskOK([k EXCEPT !.pc = p])  BY <1>1, <1>4, StepGoesOn
  <2> QED BY <1>4, <2>1, TaskSetNow DEF Step
<1>5. ASSUME NEW p \in Ordinary, NEW r \in Rows, Set(t, [k EXCEPT !.pc = p, !.rec = r]),
             k.pc \notin {"idle", "agentClear"}
      PROVE  Kept
  <2>1. [k EXCEPT !.pc = p, !.rec = r] \in TaskStates /\ TaskOK([k EXCEPT !.pc = p, !.rec = r])
    BY <1>1, <1>5, ReadGoesOn
  <2> QED BY <1>5, <2>1, TaskSetNow
<1>6. ASSUME Set(t, AfterPoll(t)), k.pc \notin {"idle", "agentClear"} PROVE Kept  BY <1>6, PollGoesOn, TaskSetNow
<1>7. {"readValidation", "replaceItems", "updateValidation", "markSaved", "agentStatus", "readForReconcile", "reconcile",
       "readAfterPolls", "dispatchRollingBack", "dispatchFailed", "dispatchRefresh", "dispatchReread", "dispatchRetry",
       "block", "createIncident", "readCancel"} \subseteq Ordinary
  BY DEF Ordinary, Places
<1>8. CASE AgentValidate(t) \/ ReadValidation(t) \/ ReplaceItems(t) \/ UpdateValidation(t)
  <2>1. k.pc \notin {"idle", "agentClear"}  BY <1>8 DEF AgentValidate, ReadValidation, ReplaceItems, UpdateValidation
  <2>2. Return(t) \/ \E p \in {"readValidation", "replaceItems", "updateValidation"} : Step(t, p)
    BY <1>8 DEF AgentValidate, ReadValidation, ReplaceItems, UpdateValidation
  <2> QED BY <1>3, <1>4, <1>7, <2>1, <2>2
<1>9. CASE AgentSave(t) \/ MarkSaved(t)
  <2>1. k.pc \notin {"idle", "agentClear"} /\ (Return(t) \/ Step(t, "markSaved"))  BY <1>9 DEF AgentSave, MarkSaved
  <2> QED BY <1>3, <1>4, <1>7, <2>1
<1>10. ASSUME NEW key, NEW to \in ChangeStates, NEW done \in Ordinary, NEW refused \in Ordinary,
              TransitionStep(t, key, to, done, refused), k.pc \notin {"idle", "agentClear"}
       PROVE  Kept
  <2>1. CASE Set(t, [k EXCEPT !.pc = done, !.rec = Result(k.c, key, to)])
    <3>1. Result(k.c, key, to) \in Rows  BY <1>1, <1>2, <1>10, ResultType
    <3> QED BY <1>5, <1>10, <2>1, <3>1
  <2>2. CASE Set(t, [k EXCEPT !.pc = refused])  BY <1>4, <1>10, <2>2 DEF Step
  <2>3. refused # "idle"  BY DEF Ordinary
  <2> QED BY <1>10, <2>1, <2>2, <2>3 DEF TransitionStep
<1>11. CASE DispatchRollingBack(t) \/ DispatchFailed(t) \/ DispatchRetry(t)
  BY <1>7, <1>10, <1>11, SomeStates DEF DispatchRollingBack, DispatchFailed, DispatchRetry, ChangeStates, ApplyStates
<1>12. CASE ApplyTransition(t)
  <2> DEFINE key == <<"apply", k.key>>
             j == [k EXCEPT !.pc = "agentApply", !.rec = Result(k.c, key, "APPLYING")]
  <2>1. /\ k.pc = "applyTransition" /\ row[k.c].state \in Settled /\ row[k.c].digest = k.digest
        /\ k.c \in Changes /\ Exists(k.c)
    BY <1>1, <1>2, <1>12 DEF ApplyTransition, TaskOK
  <2>2. CASE Return(t)  BY <1>3, <2>2
  <2>3. CASE Transition(k.c, key, "APPLYING", k.rec.version) /\ Set(t, j)
    <3>1. row'[k.c].state \in ApplyStates
      <4>1. CASE Replayed(k.c, key, "APPLYING") /\ UNCHANGED row
        <5>1. \E r \in runs[k.c] : r.to = "APPLYING"  BY <4>1 DEF Replayed, Recorded
        <5>2. row[k.c].state \in ApplyStates  BY <2>1, <5>1 DEF ChangeInv, TrailInv, TrailOK, ApplyStates
        <5> QED BY <4>1, <5>2
      <4>2. CASE row' = [row EXCEPT ![k.c].state = "APPLYING", ![k.c].version = @ + 1]
        BY <1>1, <1>2, <2>1, <4>2 DEF ChangeType, DbType, Rows, ApplyStates
      <4> QED BY <2>3, <4>1, <4>2 DEF Transition
    <3>2. row'[k.c].state \in Settled /\ row'[k.c].digest = k.digest /\ row'[k.c] # NoValue  BY <1>1, <2>1, RowKeeps
    <3>3. Result(k.c, key, "APPLYING") \in Rows  BY <1>1, <2>1, SomeStates, ResultType
    <3>4. PICK i \in TaskStates, r \in Rows : i = k /\ r = Result(k.c, key, "APPLYING")  BY <1>1, <3>3
    <3>5. PICK n \in TaskStates : n = [i EXCEPT !.pc = "agentApply", !.rec = r]  BY DEF TaskStates, Places
    <3>6. n = j /\ n.c = i.c /\ n.pc = "agentApply" /\ n.todo = i.todo /\ n.digest = i.digest
      BY <3>4, <3>5 DEF TaskStates
    <3>7. TaskOK(i)'  BY <1>1, <3>4, TaskStays
    <3>8. i.pc = "applyTransition" /\ row'[i.c].state \in ApplyStates /\ row'[i.c].digest = i.digest
      BY <2>1, <3>1, <3>2, <3>4
    <3>9. TaskOK(n)'  BY <3>6, <3>7, <3>8 DEF TaskOK
    <3>10. Set(t, n)  BY <2>3, <3>6
    <3> QED BY <3>9, <3>10, TaskSet
  <2> QED BY <1>12, <2>2, <2>3 DEF ApplyTransition, TransitionStep, Return
<1>13. CASE AgentApply(t)
  <2>1. k.pc = "agentApply"  BY <1>13 DEF AgentApply
  <2>2. CASE Step(t, "dispatchRollingBack")  BY <1>4, <1>7, <2>1, <2>2
  <2>3. CASE Set(t, [k EXCEPT !.pc = "agentStatus", !.monitor = TRUE])
    <3> DEFINE j == [k EXCEPT !.pc = "agentStatus", !.monitor = TRUE]
    <3>1. j \in TaskStates /\ j.c = k.c /\ j.pc = "agentStatus" /\ j.todo = k.todo  BY <1>1 DEF TaskStates, Places
    <3> HIDE DEF j
    <3>2. TaskOK(j)  BY <1>1, <1>7, <2>1, <3>1, TaskGoesOn
    <3>3. Set(t, j)  BY <2>3 DEF j
    <3> QED BY <3>1, <3>2, <3>3, TaskSetNow
  <2> QED BY <1>13, <2>2, <2>3 DEF AgentApply
<1>14. CASE AgentStatus(t)
  <2>1. k.pc = "agentStatus" /\ k.c \in Changes  BY <1>2, <1>14 DEF AgentStatus
  <2>2. CASE Set(t, AfterPoll(t))  BY <1>6, <2>1, <2>2
  <2>3. ASSUME NEW n \in 0..Len(events[k.c]), Known(k.c),
               Set(t, [k EXCEPT !.pc = "readForReconcile", !.todo = EventsAfter(k.c, n), !.result = ReportedState(k.c)])
        PROVE  Kept
    <3> DEFINE e == EventsAfter(k.c, n)
               s == ReportedState(k.c)
               j == [k EXCEPT !.pc = "readForReconcile", !.todo = e, !.result = s]
    <3>1. /\ e \in Seq(AgentEvents) /\ Len(e) = Len(events[k.c]) - n
          /\ \A i \in 1..(Len(events[k.c]) - n) : n + i \in 1..Len(events[k.c]) /\ e[i].state = events[k.c][n + i]
      BY <1>1, <2>1, EventsAfterType
    <3>2. s \in ChangeStates \cup {"none"}
      <4>1. events[k.c] \in Seq(ChangeStates) /\ journal[k.c] \in ChangeStates \cup {"none"}
        BY <1>1, <2>1, SomeStates DEF ChangeType, AgentType
      <4>2. events[k.c] # <<>> => events[k.c][Len(events[k.c])] \in ChangeStates  BY <4>1, EmptySeq, ElementOfSeq
      <4> QED BY <4>1, <4>2 DEF ReportedState
    <3> HIDE DEF e, s
    <3>3. j \in TaskStates /\ j.c = k.c /\ j.pc = "readForReconcile" /\ j.todo = e
      BY <1>1, <3>1, <3>2 DEF TaskStates, Places
    <3>4. \A i \in 1..Len(e) : e[i].state \in Clean => Justified(k.c, e[i].state)
      BY <2>1, <3>1 DEF ChangeInv, AgentInv, AgentOK
    <3> HIDE DEF j
    <3>5. TaskOK(j)  BY <1>1, <1>2, <2>1, <3>3, <3>4 DEF TaskOK
    <3>6. Set(t, j)  BY <2>3 DEF e, s, j
    <3> QED BY <3>3, <3>5, <3>6, TaskSetNow
  <2> QED BY <1>14, <2>2, <2>3 DEF AgentStatus
<1>15. CASE ReadForReconcile(t) \/ ReadAfterPolls(t) \/ DispatchRead(t)
  <2>1. /\ k.pc \notin {"idle", "agentClear"}
        /\ \/ Return(t)
           \/ \E p \in {"reconcile", "dispatchRollingBack", "block", "dispatchRetry"} :
                Set(t, [k EXCEPT !.pc = p, !.rec = row[k.c]])
    BY <1>15 DEF ReadForReconcile, ReadAfterPolls, DispatchRead, Return
  <2> QED BY <1>2, <1>3, <1>5, <1>7, <2>1
<1>16. CASE Block(t) \/ CreateIncident(t) \/ AgentClear(t)
  <2>1. Return(t) \/ (Step(t, "createIncident") /\ k.pc = "block")  BY <1>16 DEF Block, CreateIncident, AgentClear
  <2> QED BY <1>3, <1>4, <1>7, <2>1
<1>17. CASE AgentCancel(t) \/ UpdateCancel(t)
  <2>1. Return(t) \/ (Step(t, "readCancel") /\ k.pc = "agentCancel")  BY <1>17 DEF AgentCancel, UpdateCancel
  <2> QED BY <1>3, <1>4, <1>7, <2>1
<1>18. CASE ReadCancel(t)
  <2>1. CASE Return(t)  BY <1>3, <2>1
  <2>2. CASE row[k.c].state \in {"DRAFT", "READY", "SAVED"} /\ Set(t, [k EXCEPT !.pc = "updateCancel", !.rec = row[k.c]])
    <3> DEFINE r == row[k.c]
               j == [k EXCEPT !.pc = "updateCancel", !.rec = r]
    <3>1. k.pc = "readCancel" /\ r \in Rows  BY <1>2, <1>18 DEF ReadCancel
    <3>2. /\ j \in TaskStates /\ j.c = k.c /\ j.pc = "updateCancel" /\ j.todo = k.todo
          /\ j.rec.state \in {"DRAFT", "READY", "SAVED"}
      BY <1>1, <2>2, <3>1 DEF TaskStates, Places
    <3> HIDE DEF j
    <3>3. TaskOK(j)  BY <1>1, <3>1, <3>2 DEF TaskOK
    <3>4. Set(t, j)  BY <2>2 DEF j
    <3> QED BY <3>2, <3>3, <3>4, TaskSetNow
  <2> QED BY <1>18, <2>1, <2>2 DEF ReadCancel, Return
<1>19. CASE Reconcile(t) \/ Refresh(t)
  <2>1. k.pc \in {"reconcile", "refresh"} /\ k.todo \in Seq(AgentEvents)
    BY <1>1, <1>19 DEF Reconcile, Refresh, TaskStates
  <2>2. ASSUME NEW r \in Rows, k.todo # <<>>, Set(t, [k EXCEPT !.pc = "reconcile", !.rec = r, !.todo = Tail(k.todo)])
        PROVE  Kept
    <3> DEFINE e == Tail(k.todo)
               j == [k EXCEPT !.pc = "reconcile", !.rec = r, !.todo = e]
    <3>1. /\ e \in Seq(AgentEvents) /\ Len(e) \in Nat /\ Len(k.todo) \in Nat /\ Len(e) = Len(k.todo) - 1
          /\ \A i \in 1..Len(e) : e[i] = k.todo[i + 1]
      BY <2>1, <2>2, HeadTailProperties, LenProperties
    <3> HIDE DEF e
    <3>2. j \in TaskStates /\ j.c = k.c /\ j.pc = "reconcile" /\ j.todo = e  BY <1>1, <3>1 DEF TaskStates, Places
    <3>3. \A i \in 1..Len(e) : \E n \in 1..Len(k.todo) : e[i] = k.todo[n]
      <4>1. ASSUME NEW i \in 1..Len(e) PROVE i + 1 \in 1..Len(k.todo) /\ e[i] = k.todo[i + 1]  BY <3>1
      <4> QED BY <4>1
    <3> HIDE DEF j
    <3>4. TaskOK(j)  BY <1>1, <1>7, <2>1, <3>2, <3>3, TaskGoesOn
    <3>5. Set(t, j)  BY <2>2 DEF e, j
    <3> QED BY <3>2, <3>4, <3>5, TaskSetNow
  <2>3. CASE Refresh(t)
    <3>1. k.pc = "refresh" /\ k.todo # <<>> /\ row[k.c] \in Rows  BY <1>1, <1>2, <2>3 DEF Refresh, TaskOK
    <3>2. \/ Set(t, AfterPoll(t))
          \/ Set(t, [k EXCEPT !.pc = "reconcile", !.rec = row[k.c], !.todo = Tail(k.todo)])
      BY <2>3 DEF Refresh
    <3> QED BY <1>6, <2>2, <3>1, <3>2
  <2>4. CASE Reconcile(t)
    <3>1. k.pc = "reconcile"  BY <2>4 DEF Reconcile
    <3>2. CASE Set(t, AfterPoll(t)) \/ Return(t)  BY <1>3, <1>6, <3>1, <3>2
    <3>3. CASE Set(t, [k EXCEPT !.pc = "block"])  BY <1>4, <1>7, <3>1, <3>3 DEF Step
    <3>4. CASE k.todo # <<>> /\ Set(t, [k EXCEPT !.todo = Tail(k.todo)])
      <4>1. k.rec \in Rows /\ [k EXCEPT !.todo = Tail(k.todo)]
                              = [k EXCEPT !.pc = "reconcile", !.rec = k.rec, !.todo = Tail(k.todo)]
        BY <1>1, <3>1 DEF TaskStates
      <4> QED BY <2>2, <3>4, <4>1
    <3>5. ASSUME NEW key, NEW to \in ChangeStates, k.todo # <<>>,
                 Set(t, [k EXCEPT !.todo = Tail(k.todo), !.rec = Result(k.c, key, to)])
          PROVE  Kept
      <4> DEFINE r == Result(k.c, key, to)
      <4>1. r \in Rows  BY <1>1, <1>2, <3>1, ResultType
      <4> HIDE DEF r
      <4>2. [k EXCEPT !.todo = Tail(k.todo), !.rec = r] = [k EXCEPT !.pc = "reconcile", !.rec = r, !.todo = Tail(k.todo)]
        BY <1>1, <3>1 DEF TaskStates
      <4>3. Set(t, [k EXCEPT !.pc = "reconcile", !.rec = r, !.todo = Tail(k.todo)])  BY <3>5, <4>2 DEF r
      <4> QED BY <2>2, <3>5, <4>1, <4>3
    <3>6. CASE k.todo # <<>> /\ Step(t, "refresh")
      <4> DEFINE j == [k EXCEPT !.pc = "refresh"]
      <4>1. j \in TaskStates /\ j.c = k.c /\ j.pc = "refresh" /\ j.todo = k.todo  BY <1>1 DEF TaskStates, Places
      <4> HIDE DEF j
      <4>2. TaskOK(j)  BY <1>1, <3>1, <3>6, <4>1 DEF TaskOK
      <4>3. Set(t, j)  BY <3>6 DEF Step, j
      <4> QED BY <4>1, <4>2, <4>3, TaskSetNow
    <3>7. k.todo # <<>> => Head(k.todo).state \in ChangeStates
      <4>1. k.todo # <<>> => Head(k.todo) \in AgentEvents  BY <2>1, HeadTailProperties
      <4> QED BY <4>1 DEF AgentEvents
    <3> QED BY <2>4, <3>2, <3>3, <3>4, <3>5, <3>6, <3>7 DEF Reconcile, Return
  <2> QED BY <1>19, <2>3, <2>4
<1> QED BY <1>8, <1>9, <1>11, <1>12, <1>13, <1>14, <1>15, <1>16, <1>17, <1>18, <1>19 DEF TaskStep

\* A request begins with what it read.
LEMMA RequestSteps ==
    ASSUME ChangeInv, \A c \in Changes : RowMove(c) /\ RunMove(c), NEW t \in Tasks, Request(t)
    PROVE  (TaskType /\ TaskInv)'
<1> DEFINE Kept == (TaskType /\ TaskInv)'
<1>1. IdleTask \in TaskStates /\ IdleTask.todo = <<>> /\ Len(<<>>) = 0 /\ ChangeType
  BY SomeRecords, EmptySeq DEF IdleTask, ChangeInv
<1>2. ASSUME NEW c \in Changes, Exists(c), NEW d \in Digests \cup {NoValue}, NEW p \in Ordinary,
             Set(t, [IdleTask EXCEPT !.pc = p, !.c = c, !.digest = d])
      PROVE  Kept
  <2> DEFINE j == [IdleTask EXCEPT !.pc = p, !.c = c, !.digest = d]
  <2>1. j \in TaskStates /\ j.c = c /\ j.pc = p /\ j.todo = IdleTask.todo  BY <1>1 DEF TaskStates, Ordinary
  <2> HIDE DEF j
  <2>2. TaskOK(j)  BY <1>1, <1>2, <2>1 DEF TaskOK, Ordinary
  <2>3. Set(t, j)  BY <1>2 DEF j
  <2> QED BY <2>1, <2>2, <2>3, TaskSetNow
<1>3. ASSUME NEW c \in Changes, Exists(c), NEW p \in Ordinary, Set(t, [IdleTask EXCEPT !.pc = p, !.c = c])
      PROVE  Kept
  <2>1. PICK i \in TaskStates : i = IdleTask /\ i.digest = NoValue  BY <1>1 DEF IdleTask
  <2>2. [i EXCEPT !.pc = p, !.c = c] = [i EXCEPT !.pc = p, !.c = c, !.digest = NoValue]  BY <2>1 DEF TaskStates
  <2>3. Set(t, [IdleTask EXCEPT !.pc = p, !.c = c, !.digest = NoValue])  BY <1>3, <2>1, <2>2
  <2> QED BY <1>2, <1>3, <2>3
<1>4. {"agentValidate", "agentSave", "agentStatus", "agentCancel"} \subseteq Ordinary  BY DEF Ordinary, Places
<1>5. ASSUME NEW c \in Changes, StatusRequest(t, c) \/ CancelRequest(t, c) PROVE Kept
  <2>1. Exists(c) /\ \E p \in {"agentStatus", "agentCancel"} : Set(t, [IdleTask EXCEPT !.pc = p, !.c = c])
    BY <1>5 DEF StatusRequest, CancelRequest, Begin, Exists
  <2> QED BY <1>3, <1>4, <2>1
<1>6. ASSUME NEW c \in Changes, NEW d \in Digests, ValidateRequest(t, c, d) \/ SaveRequest(t, c, d) PROVE Kept
  <2>1. /\ Exists(c)
        /\ \E p \in {"agentValidate", "agentSave"} : Set(t, [IdleTask EXCEPT !.pc = p, !.c = c, !.digest = d])
    BY <1>6 DEF ValidateRequest, SaveRequest, Begin, Exists
  <2> QED BY <1>2, <1>4, <2>1
<1>7. ASSUME NEW c \in Changes, NEW k \in Keys, ApplyRequest(t, c, k) PROVE Kept
  <2>1. Exists(c) /\ row[c] \in Rows /\ row[c].state = "SAVED" /\ row[c].digest \in Digests \cup {NoValue}
    BY <1>1, <1>7 DEF ApplyRequest, Exists, ChangeType, DbType, Rows
  <2>2. PICK r \in Rows, d \in Digests \cup {NoValue} : r = row[c] /\ d = row[c].digest  BY <2>1
  <2> DEFINE j == [IdleTask EXCEPT !.pc = "applyTransition", !.c = c, !.key = k, !.digest = d, !.rec = r]
  <2>3. j \in TaskStates /\ j.c = c /\ j.pc = "applyTransition" /\ j.todo = IdleTask.todo /\ j.digest = d
    BY <1>1 DEF TaskStates, Places
  <2>4. Set(t, j)  BY <1>7, <2>2 DEF ApplyRequest, Begin
  <2> HIDE DEF j
  <2>5. TaskOK(j)  BY <1>1, <2>1, <2>2, <2>3 DEF TaskOK, Settled
  <2> QED BY <2>3, <2>4, <2>5, TaskSetNow
<1>8. ASSUME NEW a \in Apps, NEW i \in Changes, ClearApplyBlock(t, a, i) PROVE Kept
  <2>1. PICK c \in Changes : c = blocks[a]  BY <1>1, <1>8 DEF ClearApplyBlock, ChangeType, DbType
  <2> DEFINE j == [IdleTask EXCEPT !.pc = "agentClear", !.c = c]
  <2>2. j \in TaskStates /\ j.c = c /\ j.pc = "agentClear" /\ j.todo = IdleTask.todo  BY <1>1 DEF TaskStates, Places
  <2>3. Set(t, j)  BY <1>8, <2>1 DEF ClearApplyBlock
  <2> HIDE DEF j
  <2>4. TaskOK(j)  BY <1>1, <2>2 DEF TaskOK
  <2> QED BY <2>2, <2>3, <2>4, TaskSetNow
<1> QED BY <1>5, <1>6, <1>7, <1>8 DEF Request

-----
(* The agent.                                                              *)

\* Every event of the change is an old one or the given state.
EventMove(c, state) ==
    /\ events'[c] \in Seq(ChangeStates)
    /\ \A i \in 1..Len(events'[c]) :
         events'[c][i] = state \/ \E n \in 1..Len(events[c]) : events'[c][i] = events[c][n]

\* A recorded event is appended.
LEMMA RecordMoves ==
    ASSUME ChangeType, NEW d, NEW state \in ChangeStates, Record(d, state), NEW c \in Changes
    PROVE  EventMove(c, state) /\ (c # d => events'[c] = events[c])
<1>1. events \in [Changes -> Seq(ChangeStates)] /\ events' = [events EXCEPT ![d] = Append(events[d], state)]
  BY DEF ChangeType, AgentType, Record
<1>2. CASE c # d  BY <1>1, <1>2 DEF EventMove
<1>3. CASE c = d
  <2> DEFINE e == events[c]
             f == Append(e, state)
  <2>1. e \in Seq(ChangeStates) /\ events'[c] = f /\ Len(e) \in Nat  BY <1>1, <1>3, LenProperties
  <2>2. /\ f \in Seq(ChangeStates) /\ Len(f) = Len(e) + 1 /\ f[Len(e) + 1] = state
        /\ \A i \in 1..Len(e) : f[i] = e[i]
    BY <2>1, AppendProperties
  <2> HIDE DEF e, f
  <2>3. \A i \in 1..Len(f) : i \in 1..Len(e) \/ i = Len(e) + 1  BY <2>1, <2>2
  <2>4. \A i \in 1..Len(f) : f[i] = state \/ \E n \in 1..Len(e) : f[i] = e[n]  BY <2>2, <2>3
  <2> QED BY <1>3, <2>1, <2>2, <2>4 DEF EventMove, e
<1> QED BY <1>2, <1>3

\* The database follows a change the agent leaves alone.
LEMMA AgentStays ==
    ASSUME ChangeInv, NEW c \in Changes, RowMove(c), RunMove(c), NEW s \in ChangeStates \ Clean, EventMove(c, s),
           UNCHANGED <<run, journal, applied, starts>>
    PROVE  AgentOK(c)'
<1>1. AgentOK(c) /\ ChangeType  BY DEF ChangeInv, AgentInv
<1>2. Exists(c) /\ row[c].state \in ApplyStates =>
        row'[c] # NoValue /\ row'[c].state \in ApplyStates /\ row'[c].digest = row[c].digest
  BY <1>1, RowKeeps DEF Settled
<1>3. \A i \in 1..Len(events'[c]) : events'[c][i] \in Clean => Justified(c, events'[c][i])
  BY <1>1 DEF EventMove, AgentOK
<1> QED BY <1>1, <1>2, <1>3 DEF AgentOK, Exists, Justified

\* Every step keeps the agent in agreement with the database.
LEMMA AgentSteps ==
    ASSUME ChangeInv, \A c \in Changes : RowMove(c) /\ RunMove(c), Next, NEW c \in Changes
    PROVE  AgentOK(c)' /\ events'[c] \in Seq(ChangeStates)
<1> DEFINE Kept == AgentOK(c)' /\ events'[c] \in Seq(ChangeStates)
<1>1. AgentOK(c) /\ ChangeType /\ events[c] \in Seq(ChangeStates) /\ RowMove(c) /\ RunMove(c)
  BY DEF ChangeInv, AgentInv, ChangeType, AgentType
<1>2. ASSUME NEW s \in ChangeStates \ Clean, EventMove(c, s), UNCHANGED <<run, journal, applied, starts>> PROVE Kept
  BY <1>1, <1>2, AgentStays DEF EventMove
<1>3. CASE UNCHANGED <<run, journal, applied, starts, events>>
  <2>1. EventMove(c, "SAVED") /\ "SAVED" \in ChangeStates \ Clean  BY <1>1, <1>3 DEF EventMove, ChangeStates, Clean
  <2> QED BY <1>2, <1>3, <2>1
<1>4. /\ Exists(c) /\ row[c].state \in ApplyStates =>
           row'[c] # NoValue /\ row'[c].state \in ApplyStates /\ row'[c].digest = row[c].digest
      /\ \A s \in Clean : Justified(c, s) => Justified(c, s)'
  BY <1>1, RowKeeps, JustifiedStays DEF Settled
<1>5. ASSUME NEW d \in Changes, AgentProgress(d) PROVE Kept
  <2>1. CASE d = c /\ \E to \in ApplyStates : /\ run' = [run EXCEPT ![c] = to] /\ journal' = [journal EXCEPT ![c] = to]
                                              /\ Record(c, to) /\ run[c] # "none"
    <3>1. PICK to \in ApplyStates : /\ run' = [run EXCEPT ![c] = to] /\ journal' = [journal EXCEPT ![c] = to]
                                    /\ Record(c, to) /\ run[c] # "none"
      BY <2>1
    <3>2. run'[c] = to /\ journal'[c] = to /\ applied' = applied /\ starts' = starts
      BY <1>1, <1>5, <3>1 DEF AgentProgress, historyVars, ChangeType, AgentType
    <3>3. EventMove(c, to)  BY <1>1, <3>1, SomeStates, RecordMoves
    <3>4. \A i \in 1..Len(events'[c]) :
            events'[c][i] \in Clean => (starts'[c] <= 1 => run'[c] = events'[c][i])
      BY <1>1, <1>4, <3>2, <3>3 DEF EventMove, AgentOK, Justified
    <3> QED BY <1>1, <1>4, <3>1, <3>2, <3>3, <3>4 DEF AgentOK, Exists, Justified, EventMove, ApplyStates
  <2>2. CASE d = c /\ run[c] = "starting" /\ run' = [run EXCEPT ![c] = "rejected"] /\ UNCHANGED <<journal, events>>
    <3>1. run'[c] = "rejected" /\ applied' = applied /\ starts' = starts
      BY <1>1, <1>5, <2>2 DEF AgentProgress, historyVars, ChangeType, AgentType
    <3>2. \A i \in 1..Len(events'[c]) :
            events'[c][i] \in Clean => (starts'[c] <= 1 => run'[c] = events'[c][i])
      BY <1>1, <1>4, <2>2, <3>1 DEF AgentOK, Justified
    <3> QED BY <1>1, <1>4, <2>2, <3>1, <3>2 DEF AgentOK, Exists, Justified, ApplyStates
  <2>3. CASE d # c
    <3>1. /\ run'[c] = run[c] /\ journal'[c] = journal[c] /\ applied' = applied /\ starts' = starts
          /\ events'[c] = events[c]
      BY <1>1, <1>5, <2>3 DEF AgentProgress, historyVars, ChangeType, AgentType, Record
    <3> QED BY <1>1, <1>4, <3>1 DEF AgentOK, Exists, Justified
  <2>4. \A to : ~CanTransition("none", to)  BY DEF CanTransition, ApplyTransitions
  <2> QED BY <1>5, <2>1, <2>2, <2>3, <2>4 DEF AgentProgress, ApplyStates
<1>6. CASE AgentRestart
  <2>1. PICK f : /\ f \in {"APPLYING", "ROLLING_BACK"}
                 /\ journal'[c] = IF journal[c] \in InProgress THEN f ELSE journal[c]
                 /\ run'[c] = journal'[c]
                 /\ events'[c] = IF journal[c] \in InProgress THEN <<f>> ELSE <<>>
                 /\ applied' = applied /\ starts' = starts
    BY <1>6 DEF AgentRestart, historyVars
  <2>2. <<f>> \in Seq(ChangeStates) /\ Len(<<f>>) = 1 /\ <<f>>[1] = f /\ <<>> \in Seq(ChangeStates) /\ Len(<<>>) = 0
    BY <2>1, SomeStates
  <2>3. events'[c] \in Seq(ChangeStates) /\ \A i \in 1..Len(events'[c]) : events'[c][i] \notin Clean
    BY <2>1, <2>2 DEF Clean
  <2>4. /\ journal[c] \in ApplyStates \cup {"none"} /\ InProgress \subseteq ApplyStates
        /\ run[c] = "none" => journal[c] = "none"
        /\ run[c] # "none" => Exists(c) /\ row[c].state \in ApplyStates
        /\ starts[c] = 0 => run[c] = "none"
    BY <1>1 DEF ChangeType, AgentType, AgentOK, InProgress
  <2>5. run[c] = "none" => run'[c] = "none"  BY <2>1, <2>4 DEF InProgress, ApplyStates
  <2> QED BY <1>1, <1>4, <2>1, <2>3, <2>4, <2>5 DEF AgentOK, Exists
<1>7. ASSUME NEW t \in Tasks, AgentApply(t) PROVE Kept
  <2> DEFINE d == task[t].c
  <2>1. /\ d \in Changes /\ Exists(d) /\ row[d].state \in ApplyStates /\ row[d].digest = task[t].digest
    BY <1>7 DEF AgentApply, ChangeInv, TaskInv, TaskOK
  <2>2. CASE UNCHANGED <<events, run, applied, starts>>  BY <1>3, <1>7, <2>2 DEF AgentApply
  <2>3. CASE /\ Record(d, "APPLYING") /\ staged[d] = task[t].digest
             /\ run' = [run EXCEPT ![d] = IF d \in started THEN @ ELSE "starting"]
             /\ applied' = [applied EXCEPT ![d] = IF d \in started THEN @ ELSE staged[d]]
             /\ starts' = [starts EXCEPT ![d] = IF d \in started THEN @ ELSE @ + 1]
             /\ journal' = journal
    <3>1. /\ EventMove(c, "APPLYING") /\ "APPLYING" \in ChangeStates \ Clean
          /\ c # d => events'[c] = events[c]
      BY <1>1, <2>3, SomeStates, RecordMoves DEF Clean
    <3>2. /\ run \in [Changes -> ApplyStates \cup {"none", "starting", "rejected"}]
          /\ applied \in [Changes -> Digests \cup {NoValue}] /\ starts \in [Changes -> Nat]
      BY <1>1 DEF ChangeType, AgentType, CountType
    <3>3. CASE d \in started \/ c # d
      <4>1. run'[c] = run[c] /\ applied'[c] = applied[c] /\ starts'[c] = starts[c] /\ journal'[c] = journal[c]
        BY <2>1, <2>3, <3>2, <3>3
      <4>2. \A i \in 1..Len(events'[c]) : events'[c][i] \in Clean => Justified(c, events'[c][i])
        BY <1>1, <3>1 DEF EventMove, AgentOK
      <4> QED BY <1>1, <1>4, <3>1, <4>1, <4>2 DEF AgentOK, Exists, Justified, EventMove
    <3>4. CASE d \notin started /\ c = d
      <4>1. /\ run'[c] = "starting" /\ applied'[c] = task[t].digest /\ starts'[c] = starts[c] + 1 /\ starts[c] \in Nat
            /\ row'[c] # NoValue /\ row'[c].state \in ApplyStates /\ row'[c].digest = task[t].digest
        BY <1>4, <2>1, <2>3, <3>2, <3>4
      <4>2. \A i \in 1..Len(events'[c]) :
              events'[c][i] \in Clean => (starts'[c] <= 1 => run'[c] = events'[c][i])
        <5>1. ASSUME NEW i \in 1..Len(events'[c]), events'[c][i] \in Clean PROVE Justified(c, events'[c][i])
          BY <1>1, <3>1, <5>1 DEF EventMove, AgentOK
        <5>2. starts'[c] <= 1 => run[c] = "none" /\ starts[c] <= 1  BY <1>1, <4>1 DEF AgentOK
        <5> QED BY <5>1, <5>2 DEF Justified, Clean
      <4>3. starts'[c] # 0  BY <4>1
      <4> QED BY <3>1, <4>1, <4>2, <4>3 DEF AgentOK, Exists, Justified, EventMove, ApplyStates
    <3> QED BY <3>3, <3>4
  <2> QED BY <1>7, <2>2, <2>3 DEF AgentApply
<1>8. ASSUME NEW t \in Tasks, AgentValidate(t) \/ AgentSave(t) \/ AgentCancel(t) PROVE Kept
  <2>1. UNCHANGED <<run, journal, applied, starts>>  BY <1>8 DEF AgentValidate, AgentSave, AgentCancel, historyVars
  <2>2. CASE UNCHANGED events  BY <1>3, <2>1, <2>2
  <2>3. CASE \E s \in {"READY", "SAVED", "CANCELLED"} : Record(task[t].c, s)
    <3>1. PICK s \in {"READY", "SAVED", "CANCELLED"} : Record(task[t].c, s)  BY <2>3
    <3>2. s \in ChangeStates \ Clean  BY DEF ChangeStates, Clean
    <3>3. EventMove(c, s)  BY <1>1, <3>1, <3>2, RecordMoves
    <3> QED BY <1>2, <2>1, <3>2, <3>3
  <2> QED BY <1>8, <2>2, <2>3 DEF AgentValidate, AgentSave, AgentCancel
<1>9. ASSUME NEW t \in Tasks, TaskStep(t), ~AgentApply(t), ~AgentValidate(t), ~AgentSave(t), ~AgentCancel(t) PROVE Kept
  BY <1>3, <1>9 DEF TaskStep, ReadValidation, ReplaceItems, UpdateValidation, MarkSaved, ApplyTransition,
    TransitionStep, AgentStatus, ReadForReconcile, Reconcile, Refresh, ReadAfterPolls, DispatchRollingBack,
    DispatchFailed, DispatchRead, DispatchRetry, Block, CreateIncident, AgentClear, ReadCancel, UpdateCancel,
    agentVars, historyVars
<1>10. ASSUME NEW t \in Tasks, Request(t) PROVE Kept
  BY <1>3, <1>10 DEF Request, StatusRequest, CancelRequest, ValidateRequest, SaveRequest, ApplyRequest,
    ClearApplyBlock, Begin, agentVars, historyVars
<1>11. CASE ApiRestart \/ \E d \in Changes : CreateDraft(d) \/ ResolveIncident(d)
  BY <1>3, <1>11 DEF ApiRestart, CreateDraft, ResolveIncident, agentVars, historyVars
<1> QED BY <1>5, <1>6, <1>7, <1>8, <1>9, <1>10, <1>11 DEF Next

-----
(* The types of what is left.                                              *)

-----
(* The types of what is left.                                              *)

IsTable(f) == f = [c \in Changes |-> f[c]]

\* The rows, the records and the events stay tables over the changes.
LEMMA Tables == ASSUME ChangeInv, Next PROVE IsTable(row') /\ IsTable(runs') /\ IsTable(events')
<1> DEFINE Kept == IsTable(row') /\ IsTable(runs') /\ IsTable(events')
<1>1. IsTable(row) /\ IsTable(runs) /\ IsTable(events)  BY DEF ChangeInv, ChangeType, DbType, AgentType, IsTable
<1>2. ASSUME NEW key, NEW to, NEW expected, NEW c, Transition(c, key, to, expected) PROVE IsTable(row') /\ IsTable(runs')
  BY <1>1, <1>2 DEF Transition, IsTable
<1>3. ASSUME NEW t \in Tasks, TaskStep(t) PROVE Kept
  <2>1. CASE AgentValidate(t) \/ AgentSave(t) \/ AgentCancel(t) \/ AgentApply(t)
    BY <1>1, <2>1 DEF AgentValidate, AgentSave, AgentCancel, AgentApply, Record, IsTable, dbVars
  <2>2. CASE UpdateValidation(t) \/ MarkSaved(t) \/ UpdateCancel(t)
    BY <1>1, <2>2 DEF UpdateValidation, MarkSaved, UpdateCancel, IsTable, agentVars
  <2>3. CASE ApplyTransition(t) \/ DispatchRollingBack(t) \/ DispatchFailed(t) \/ DispatchRetry(t) \/ Reconcile(t)
    BY <1>1, <1>2, <2>3 DEF ApplyTransition, DispatchRollingBack, DispatchFailed, DispatchRetry, TransitionStep,
      Reconcile, agentVars
  <2>4. CASE UNCHANGED <<row, runs, events>>  BY <1>1, <2>4
  <2> QED BY <1>3, <2>1, <2>2, <2>3, <2>4 DEF TaskStep, ReadValidation, ReplaceItems, AgentStatus, ReadForReconcile,
    Refresh, ReadAfterPolls, DispatchRead, Block, CreateIncident, AgentClear, ReadCancel, dbVars, agentVars
<1>4. ASSUME NEW t \in Tasks, Request(t) PROVE Kept
  BY <1>1, <1>4 DEF Request, StatusRequest, CancelRequest, ValidateRequest, SaveRequest, ApplyRequest,
    ClearApplyBlock, Begin, agentVars, dbVars
<1>5. CASE AgentRestart  BY <1>1, <1>5 DEF AgentRestart, dbVars, IsTable
<1>6. ASSUME NEW c \in Changes, CreateDraft(c) \/ ResolveIncident(c) \/ AgentProgress(c) PROVE Kept
  BY <1>1, <1>6 DEF CreateDraft, ResolveIncident, AgentProgress, Record, IsTable, agentVars, dbVars
<1>7. CASE ApiRestart  BY <1>1, <1>7 DEF ApiRestart, dbVars, agentVars
<1> QED BY <1>3, <1>4, <1>5, <1>6, <1>7 DEF Next

Others ==
    /\ items \in [Changes -> Digests \cup {NoValue}]
    /\ blocks \in [Apps -> Changes \cup {NoValue}]
    /\ incident \in [Changes -> {"none", "open", "resolved"}]
    /\ draft \in [Changes -> Digests \cup {NoValue}]
    /\ staged \in [Changes -> Digests \cup {NoValue}]
    /\ run \in [Changes -> ApplyStates \cup {"none", "starting", "rejected"}]
    /\ journal \in [Changes -> ApplyStates \cup {"none"}]
    /\ applied \in [Changes -> Digests \cup {NoValue}]
    /\ started \subseteq Changes /\ recovering \subseteq Changes
    /\ dropped \in [Changes -> Nat]
    /\ agentBlocks \subseteq Apps
    /\ CountType

\* Everything else keeps its type.
LEMMA OtherTypes == ASSUME ChangeInv, Next PROVE Others'
<1> USE DEF Others, CountType, restartVars, historyVars
<1>0. /\ Others
      /\ MaxRequests \in Nat /\ MaxLost \in Nat /\ MaxAgentRestarts \in Nat /\ MaxApiRestarts \in Nat
      /\ AppOf \in [Changes -> Apps]
  BY ChangeAssumption DEF ChangeInv, ChangeType, DbType, AgentType
<1>1. ASSUME NEW c \in Changes, CreateDraft(c) PROVE Others'  BY <1>0, <1>1 DEF CreateDraft, agentVars
<1>2. ASSUME NEW c \in Changes, ResolveIncident(c) PROVE Others'  BY <1>0, <1>2 DEF ResolveIncident, agentVars
<1>3. ASSUME NEW c \in Changes, AgentProgress(c) PROVE Others'  BY <1>0, <1>3 DEF AgentProgress, dbVars, ApplyStates
<1>4. CASE AgentRestart
  <2>1. \A c \in Changes : events[c] \in Seq(ChangeStates) /\ Len(events[c]) \in Nat
    BY LenProperties DEF ChangeInv, ChangeType, AgentType
  <2>2. journal' \in [Changes -> ApplyStates \cup {"none"}] /\ run' = journal'
    BY <1>0, <1>4 DEF AgentRestart, ApplyStates
  <2>3. dropped' \in [Changes -> Nat]  BY <1>0, <1>4, <2>1 DEF AgentRestart
  <2>4. started' \subseteq Changes /\ recovering' \subseteq Changes /\ agentBlocks' \subseteq Apps
    BY <1>0, <1>4 DEF AgentRestart
  <2>5. agentRestarts' \in 0..MaxAgentRestarts  BY <1>0, <1>4 DEF AgentRestart
  <2> QED BY <1>0, <1>4, <2>2, <2>3, <2>4, <2>5 DEF AgentRestart, dbVars
<1>5. CASE ApiRestart  BY <1>0, <1>5 DEF ApiRestart, dbVars, agentVars
<1>6. ASSUME NEW t \in Tasks, Request(t) PROVE Others'
  <2>1. ASSUME NEW c \in Changes, NEW f, Begin(t, c, f) PROVE Others'
    <3>1. requests' \in 0..MaxRequests  BY <1>0, <2>1 DEF Begin
    <3> QED BY <1>0, <2>1, <3>1 DEF Begin, dbVars, agentVars
  <2>2. ASSUME NEW a \in Apps, NEW i \in Changes, ClearApplyBlock(t, a, i) PROVE Others'
    <3>1. requests' \in 0..MaxRequests  BY <1>0, <2>2 DEF ClearApplyBlock
    <3> QED BY <1>0, <2>2, <3>1 DEF ClearApplyBlock, agentVars
  <2> QED BY <1>6, <2>1, <2>2 DEF Request, StatusRequest, CancelRequest, ValidateRequest, SaveRequest, ApplyRequest
<1>7. ASSUME NEW t \in Tasks, TaskStep(t) PROVE Others'
  <2> DEFINE c == task[t].c
  <2>1. task[t].digest \in Digests \cup {NoValue} /\ (task[t].pc # "idle" => c \in Changes)
    BY DEF ChangeInv, ChangeType, TaskType, TaskInv, TaskOK, TaskStates
  <2>2. AgentCallFails => lost' \in 0..MaxLost  BY <1>0 DEF AgentCallFails
  <2>3. CASE AgentValidate(t) \/ AgentSave(t) \/ AgentCancel(t)
    <3>1. c \in Changes /\ lost' \in 0..MaxLost  BY <1>0, <2>1, <2>2, <2>3 DEF AgentValidate, AgentSave, AgentCancel
    <3> QED BY <1>0, <2>1, <2>3, <3>1 DEF AgentValidate, AgentSave, AgentCancel, dbVars
  <2>4. CASE AgentApply(t)
    <3>1. c \in Changes /\ lost' \in 0..MaxLost  BY <1>0, <2>1, <2>2, <2>4 DEF AgentApply
    <3> QED BY <1>0, <2>4, <3>1 DEF AgentApply, dbVars
  <2>5. CASE ReplaceItems(t) \/ Block(t) \/ CreateIncident(t) \/ AgentClear(t)
    BY <1>0, <2>1, <2>2, <2>5 DEF ReplaceItems, Block, CreateIncident, AgentClear, dbVars, agentVars
  <2>6. CASE AgentStatus(t)  BY <1>0, <2>2, <2>6 DEF AgentStatus, dbVars, agentVars
  <2>7. CASE UNCHANGED <<items, blocks, incident, agentVars, requests, lost, restartVars, historyVars>>
    BY <1>0, <2>7 DEF agentVars
  <2> QED BY <1>7, <2>3, <2>4, <2>5, <2>6, <2>7 DEF TaskStep, ReadValidation, UpdateValidation, MarkSaved,
    ApplyTransition, TransitionStep, ReadForReconcile, Reconcile, Refresh, ReadAfterPolls, DispatchRollingBack,
    DispatchFailed, DispatchRead, DispatchRetry, ReadCancel, UpdateCancel, dbVars
<1> QED BY <1>1, <1>2, <1>3, <1>4, <1>5, <1>6, <1>7 DEF Next

-----
(* The theorems.                                                           *)

\* The invariant is inductive.
LEMMA ChangeInvNext == ChangeInv /\ [Next]_vars => ChangeInv'
<1> SUFFICES ASSUME ChangeInv, [Next]_vars PROVE ChangeInv'  OBVIOUS
<1>1. CASE UNCHANGED vars
  BY <1>1 DEF ChangeInv, ChangeType, DbType, AgentType, CountType, TaskType, TaskInv, TaskOK, AgentInv, AgentOK,
    TrailInv, TrailOK, Exists, Justified, vars, dbVars, agentVars, restartVars, historyVars
<1>2. CASE Next
  <2>1. \A c \in Changes : RowMove(c) /\ RunMove(c)  BY <1>2, RowMoves, RunMoves
  <2>2. \A c \in Changes : AgentOK(c)' /\ events'[c] \in Seq(ChangeStates)  BY <1>2, <2>1, AgentSteps
  <2>3. \A c \in Changes : TrailOK(c)'  BY <2>1, TrailStep, JustifiedStays DEF ChangeInv, TrailInv, AgentInv
  <2>4. (TaskType /\ TaskInv)'
    <3>1. ASSUME NEW t \in Tasks, Request(t) \/ TaskStep(t) PROVE (TaskType /\ TaskInv)'
      BY <2>1, <3>1, RequestSteps, TaskSteps
    <3>2. ASSUME UNCHANGED task PROVE (TaskType /\ TaskInv)'
      <4>1. TaskType'  BY <3>2 DEF ChangeInv, ChangeType, TaskType
      <4>2. ASSUME NEW t \in Tasks PROVE TaskOK(task[t])'
        <5>1. PICK k \in TaskStates : k = task[t] /\ TaskOK(k)  BY DEF ChangeInv, ChangeType, TaskType, TaskInv
        <5>2. TaskOK(k)'  BY <2>1, <5>1, TaskStays
        <5> QED BY <3>2, <5>1, <5>2 DEF TaskOK, Exists, Justified
      <4> QED BY <4>1, <4>2 DEF TaskInv
    <3>3. CASE ApiRestart  BY <3>3, SomeRecords DEF ApiRestart, TaskType, TaskInv, TaskOK
    <3> QED BY <1>2, <3>1, <3>2, <3>3 DEF Next, CreateDraft, ResolveIncident, AgentProgress, AgentRestart
  <2>5. (DbType /\ AgentType /\ CountType)'
    <3>1. \A c \in Changes : row'[c] \in Rows \cup {NoValue} /\ runs'[c] \in SUBSET Records
      BY <2>1, RowKeeps DEF ChangeInv
    <3>2. /\ row' \in [Changes -> Rows \cup {NoValue}] /\ runs' \in [Changes -> SUBSET Records]
          /\ events' \in [Changes -> Seq(ChangeStates)]
      BY <1>2, <2>2, <3>1, Tables DEF IsTable
    <3> QED BY <1>2, <3>2, OtherTypes DEF Others, DbType, AgentType
  <2> QED BY <2>2, <2>3, <2>4, <2>5 DEF ChangeInv, ChangeType, AgentInv, TrailInv
<1> QED BY <1>1, <1>2

\* It holds before the first request, and once every change is saved.
LEMMA ChangeInvInit == Init \/ SavedInit => ChangeInv
<1> SUFFICES ASSUME Init \/ SavedInit PROVE ChangeInv  OBVIOUS
<1>1. IdleTask \in TaskStates /\ TaskOK(IdleTask) /\ NoValue \notin Rows  BY SomeRecords
<1>2. <<>> \in Seq(ChangeStates) /\ <<"READY", "SAVED">> \in Seq(ChangeStates)
      /\ \A i \in 1..Len(<<"READY", "SAVED">>) : <<"READY", "SAVED">>[i] \notin Clean
  BY SomeStates DEF Clean
<1>3. TaskType /\ TaskInv  BY <1>1 DEF Init, SavedInit, TaskType, TaskInv
<1>4. CountType  BY ChangeAssumption DEF Init, SavedInit, CountType
<1>5. CASE Init
  <2>1. DbType /\ AgentType  BY <1>2, <1>5 DEF Init, DbType, AgentType, ApplyStates
  <2>2. AgentInv  BY <1>5, EmptySeq DEF Init, AgentInv, AgentOK
  <2>3. TrailInv  BY <1>5 DEF Init, TrailInv, TrailOK, Exists
  <2> QED BY <1>3, <1>4, <2>1, <2>2, <2>3 DEF ChangeInv, ChangeType
<1>6. CASE SavedInit
  <2>1. PICK d \in Digests : /\ row = [c \in Changes |-> [state |-> "SAVED", version |-> 2, digest |-> d]]
                             /\ items = [c \in Changes |-> d] /\ staged = items
    BY <1>6 DEF SavedInit
  <2>2. [state |-> "SAVED", version |-> 2, digest |-> d] \in Rows  BY SomeStates DEF Rows
  <2>3. DbType /\ AgentType  BY <1>2, <1>6, <2>1, <2>2 DEF SavedInit, DbType, AgentType, ApplyStates
  <2>4. AgentInv  BY <1>2, <1>6 DEF SavedInit, AgentInv, AgentOK
  <2>5. TrailInv  BY <1>1, <1>6, <2>1, <2>2 DEF SavedInit, TrailInv, TrailOK, Exists, ApplyStates, Clean
  <2> QED BY <1>3, <1>4, <2>3, <2>4, <2>5 DEF ChangeInv, ChangeType
<1> QED BY <1>5, <1>6

\* A cancelled change is never applied: whatever requests of several clients
\* overlap, calls are lost and processes restart, the agent has no run of a change
\* the database has cancelled (configChangeService.ts, cancel and apply).
THEOREM CancelledStaysOff == Spec => []CancelledNeverApplied
<1>1. ChangeInv => CancelledNeverApplied  BY DEF ChangeInv, AgentInv, AgentOK, CancelledNeverApplied, ApplyStates
<1> QED  BY <1>1, ChangeInvInit, ChangeInvNext, PTL DEF Spec

\* A run of the agent works with the digest the database has saved.
THEOREM RunsWhatWasSaved == Spec => []AppliedIsSaved
<1>1. ChangeInv => AppliedIsSaved  BY DEF ChangeInv, AgentInv, AgentOK, AppliedIsSaved, Exists
<1> QED  BY <1>1, ChangeInvInit, ChangeInvNext, PTL DEF Spec

\* The database reports success or a clean rollback only of a run that ended so,
\* unless the agent, restarted, began a second one.
THEOREM ReportsWhatHappened == Spec => []RowFollowsAgent
<1>1. ChangeInv => RowFollowsAgent
  <2> SUFFICES ASSUME ChangeInv, NEW c \in Changes, row[c] # NoValue, row[c].state \in Clean, starts[c] <= 1
               PROVE  run[c] = row[c].state
    BY DEF RowFollowsAgent, Clean
  <2> QED BY DEF ChangeInv, TrailInv, TrailOK, Exists, Justified
<1> QED  BY <1>1, ChangeInvInit, ChangeInvNext, PTL DEF Spec

\* The audit trail of an apply has no gap and no second story, from the first
\* request on and, as the run has it, from the moment its changes are saved.
THEOREM TrailIsWhole == (Spec => []AuditTrail) /\ (ApplySpec => []AuditTrail)
<1>1. ChangeInv => AuditTrail  BY DEF ChangeInv, TrailInv, TrailOK, AuditTrail, Exists
<1> QED  BY <1>1, ChangeInvInit, ChangeInvNext, PTL DEF Spec, ApplySpec

======
