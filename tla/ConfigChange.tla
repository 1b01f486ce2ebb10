------ MODULE ConfigChange ------
(* The API side of a configuration change: ConfigChangeService
   (apps/api/src/modules/variables/configChangeService.ts) on top of
   postgresConfigChangeRepository.ts.  Requests are tasks that interleave
   at their awaits; a transaction or a single statement is one step.  The
   monitor an apply request leaves behind is the same task, continued.
   
   The agent is what the service sees of module ConfigAgent: drafts,
   envelopes, blocks, one run per change and the events `status` returns.
   A change is owned by one session, so the principal is left out.  A
   digest stands for the list of items it is computed from. *)
EXTENDS ApplyStateMachine, Naturals, Sequences, FiniteSets

(* The states of a change in the database (changeStateMachine.ts) and the   *)
(* transitions transitionChange accepts.                                    *)

ChangeStates ==
    ApplyStates \cup {"DRAFT", "VALIDATING", "INVALID", "READY", "SAVED",
                      "CANCELLED", "EXPIRED"}

TerminalChangeStates ==
    TerminalApplyStates \cup {"INVALID", "EXPIRED", "CANCELLED"}

\* legalTransitions: the states an apply runs through are those of the agent's
\* machine, the others lead up to it.
LegalTransitions ==
    ApplyTransitions \cup
    {<<"DRAFT", "VALIDATING">>, <<"DRAFT", "CANCELLED">>, <<"DRAFT", "EXPIRED">>,
     <<"VALIDATING", "INVALID">>, <<"VALIDATING", "READY">>,
     <<"READY", "SAVED">>, <<"READY", "CANCELLED">>, <<"READY", "EXPIRED">>,
     <<"SAVED", "APPLYING">>, <<"SAVED", "CANCELLED">>, <<"SAVED", "EXPIRED">>}

\* transitionChange accepts the move.
IsLegal(from, to) == from \notin TerminalChangeStates /\ <<from, to>> \in LegalTransitions

\* The states the unique index ops_config_changes_one_active_apply_idx covers.
ActiveApplyStates ==
    {"APPLYING", "SNAPSHOTTED", "WRITTEN", "ACTION_RUNNING", "HEALTH_CHECKING",
     "ROLLING_BACK"}

-----

CONSTANTS
    Changes, Apps, AppOf,
    Digests,       \* change digests, one per list of items
    Keys,          \* idempotency keys (with run ids) of apply requests
    Tasks,         \* requests the API handles at the same time
    NoValue,
    MaxRequests,   \* bound: requests the API receives
    MaxPolls,      \* bound: polls of a monitor (300 in the code)
    MaxLost,       \* bound: calls to the agent that fail or whose answer is lost
    MaxAgentRestarts,  \* bound: restarts of the agent
    MaxApiRestarts,    \* bound: restarts of the API process
    MaxRestarts        \* bound: restarts of the two together

ASSUME ChangeAssumption ==
    /\ AppOf \in [Changes -> Apps]
    /\ NoValue \notin Changes \cup Digests
    /\ NoValue \notin [state : ChangeStates, version : Nat, digest : Digests \cup {NoValue}]
    /\ MaxRequests \in Nat /\ MaxPolls \in Nat \ {0}
    /\ MaxLost \in Nat /\ MaxAgentRestarts \in Nat /\ MaxApiRestarts \in Nat
    /\ MaxRestarts \in Nat

VARIABLES
    row,       \* ops_config_changes: [state, version, digest], or NoValue
    items,     \* ops_config_change_items: the digest of the items stored
    runs,      \* ops_config_runs: [key, from, to, version]
    blocks,    \* ops_config_application_blocks: the failed change of an active
               \* row, or NoValue
    incident,  \* the incident of a change: "none", "open" or "resolved"
    draft, staged,  \* the agent's draft and envelope of a change: a digest
    run,       \* the state of the agent's run of a change, or "none",
               \* "starting" (nothing journalled yet) or "rejected"
    journal,   \* the last state the agent's journal has of a change, or "none"
    applied,   \* the digest that run works with
    started,   \* changes whose run the coordinator of this process knows
    recovering,  \* runs the agent resumes before it serves again
    events,    \* the events of a change the agent process holds
    dropped,   \* how many earlier events of a change are gone
    agentBlocks,
    task,      \* the state of each task
    requests, lost, agentRestarts, apiRestarts,
    blockedFor,  \* history: changes whose failure found its application blocked
    starts       \* history: how often a run of a change was begun

dbVars == <<row, items, runs, blocks, incident>>
agentVars == <<draft, staged, run, journal, applied, started, recovering, events, dropped,
               agentBlocks>>
restartVars == <<agentRestarts, apiRestarts>>
historyVars == <<blockedFor, starts>>
vars == <<dbVars, agentVars, task, requests, lost, restartVars, historyVars>>

NoRow == [state |-> "DRAFT", version |-> 0, digest |-> NoValue]
IdleTask ==
    [pc |-> "idle", c |-> NoValue, key |-> NoValue, digest |-> NoValue, rec |-> NoRow,
     todo |-> <<>>, result |-> "none", polls |-> 0, monitor |-> FALSE]

InProgress == ApplyStates \ TerminalApplyStates

Set(t, fields) == task' = [task EXCEPT ![t] = fields]
Step(t, pc) == Set(t, [task[t] EXCEPT !.pc = pc])
Return(t) == Set(t, IdleTask)

-----
(* repository.transition: one transaction under a row lock.                *)

Recorded(c, key) == {r \in runs[c] : r.key = key}

\* The key was used before for the same state: nothing happens again.
Replayed(c, key, to) == \E r \in Recorded(c, key) : r.to = to

\* A new transition is accepted.
Accepted(c, key, to, expected) ==
    /\ Recorded(c, key) = {}
    /\ to = "APPLYING" => blocks[AppOf[c]] = NoValue
    /\ expected = row[c].version
    /\ IsLegal(row[c].state, to)
    /\ to \in ActiveApplyStates =>
         ~\E d \in Changes \ {c} : /\ AppOf[d] = AppOf[c] /\ row[d] # NoValue
                                   /\ row[d].state \in ActiveApplyStates

\* What the caller gets back: the row it may go on with.
Result(c, key, to) ==
    [state |-> to, digest |-> NoValue,
     version |-> IF Recorded(c, key) # {}
                 THEN (CHOOSE r \in Recorded(c, key) : TRUE).version
                 ELSE row[c].version + 1]

\* Mutant of Transition: the record carries the version the caller expected.
TransitionUnversioned(c, key, to, expected) ==
    /\ Accepted(c, key, to, expected)
    /\ row' = [row EXCEPT ![c].state = to, ![c].version = @ + 1]
    /\ runs' = [runs EXCEPT ![c] = @ \cup
                 {[key |-> key, from |-> row[c].state, to |-> to, version |-> expected]}]

Transition(c, key, to, expected) ==
    \/ /\ Replayed(c, key, to)
       /\ UNCHANGED <<row, runs>>
    \/ /\ Accepted(c, key, to, expected)
       /\ row' = [row EXCEPT ![c].state = to, ![c].version = @ + 1]
       /\ runs' = [runs EXCEPT ![c] = @ \cup
                    {[key |-> key, from |-> row[c].state, to |-> to,
                      version |-> row[c].version + 1]}]

Refused(c, key, to, expected) ==
    ~Replayed(c, key, to) /\ ~Accepted(c, key, to, expected)

-----
Init ==
    /\ row = [c \in Changes |-> NoValue]
    /\ items = [c \in Changes |-> NoValue]
    /\ runs = [c \in Changes |-> {}]
    /\ blocks = [a \in Apps |-> NoValue]
    /\ incident = [c \in Changes |-> "none"]
    /\ draft = [c \in Changes |-> NoValue]
    /\ staged = [c \in Changes |-> NoValue]
    /\ run = [c \in Changes |-> "none"]
    /\ journal = [c \in Changes |-> "none"]
    /\ applied = [c \in Changes |-> NoValue]
    /\ started = {} /\ recovering = {}
    /\ events = [c \in Changes |-> <<>>]
    /\ dropped = [c \in Changes |-> 0]
    /\ agentBlocks = {}
    /\ task = [t \in Tasks |-> IdleTask]
    /\ requests = 0 /\ lost = 0 /\ agentRestarts = 0 /\ apiRestarts = 0
    /\ blockedFor = {}
    /\ starts = [c \in Changes |-> 0]

\* The state after every change was validated and saved without a disturbance.
SavedInit ==
    /\ \E d \in Digests :
        /\ row = [c \in Changes |-> [state |-> "SAVED", version |-> 2, digest |-> d]]
        /\ items = [c \in Changes |-> d]
        /\ staged = items
    /\ runs = [c \in Changes |-> {}]
    /\ blocks = [a \in Apps |-> NoValue]
    /\ incident = [c \in Changes |-> "none"]
    /\ draft = [c \in Changes |-> NoValue]
    /\ run = [c \in Changes |-> "none"]
    /\ journal = [c \in Changes |-> "none"]
    /\ applied = [c \in Changes |-> NoValue]
    /\ started = {} /\ recovering = {}
    /\ events = [c \in Changes |-> <<"READY", "SAVED">>]
    /\ dropped = [c \in Changes |-> 0]
    /\ agentBlocks = {}
    /\ task = [t \in Tasks |-> IdleTask]
    /\ requests = 0 /\ lost = 0 /\ agentRestarts = 0 /\ apiRestarts = 0
    /\ blockedFor = {}
    /\ starts = [c \in Changes |-> 0]

\* createDraft.  A change it supersedes is only checked, not changed.
CreateDraft(c) ==
    /\ row[c] = NoValue
    /\ row' = [row EXCEPT ![c] = NoRow]
    /\ UNCHANGED <<items, runs, blocks, incident, agentVars, task, requests, lost,
                   restartVars, historyVars>>

\* A request starts: the row is read and its state checked.
Begin(t, c, fields) ==
    /\ task[t].pc = "idle"
    /\ requests < MaxRequests
    /\ requests' = requests + 1
    /\ row[c] # NoValue
    /\ Set(t, fields)
    /\ UNCHANGED <<dbVars, agentVars, lost, restartVars, historyVars>>

\* The agent answers a request only after its recovery.
Serving == \A c \in recovering : run[c] \in TerminalApplyStates

\* A call to the agent does not get an answer.
AgentCallFails == lost < MaxLost /\ lost' = lost + 1

\* record(): the agent appends an event.
Record(c, state) == events' = [events EXCEPT ![c] = Append(@, state)]

-----
(* validate                                                                *)

ValidateRequest(t, c, d) ==
    Begin(t, c, [IdleTask EXCEPT !.pc = "agentValidate", !.c = c, !.digest = d])

AgentValidate(t) ==
    /\ task[t].pc = "agentValidate"
    /\ LET c == task[t].c IN
        \/ /\ Serving
           /\ draft' = [draft EXCEPT ![c] = task[t].digest]
           /\ Record(c, "READY")
           /\ \/ Step(t, "readValidation") /\ UNCHANGED lost
              \/ AgentCallFails /\ Return(t)
        \/ /\ AgentCallFails
           /\ Return(t)
           /\ UNCHANGED <<draft, events>>
    /\ UNCHANGED <<dbVars, staged, run, journal, applied, started, recovering, dropped,
                   agentBlocks, requests, restartVars, historyVars>>

\* updateValidation reads the row, replaces the items and updates the row in
\* three transactions; the last one does not look at its row count.
ReadValidation(t) ==
    /\ task[t].pc = "readValidation"
    /\ IF row[task[t].c].state \in {"DRAFT", "INVALID"}
          THEN Step(t, "replaceItems")
          ELSE Return(t)
    /\ UNCHANGED <<dbVars, agentVars, requests, lost, restartVars, historyVars>>

ReplaceItems(t) ==
    /\ task[t].pc = "replaceItems"
    /\ items' = [items EXCEPT ![task[t].c] = task[t].digest]
    /\ Step(t, "updateValidation")
    /\ UNCHANGED <<row, runs, blocks, incident, agentVars, requests, lost, restartVars,
                   historyVars>>

\* Mutant of UpdateValidation: the UPDATE does not look at the state.
UpdateValidationOfAnyState(t) ==
    /\ task[t].pc = "updateValidation"
    /\ row' = [row EXCEPT ![task[t].c] =
                 [state |-> "READY", version |-> @.version + 1, digest |-> task[t].digest]]
    /\ Return(t)
    /\ UNCHANGED <<items, runs, blocks, incident, agentVars, requests, lost, restartVars,
                   historyVars>>

UpdateValidation(t) ==
    /\ task[t].pc = "updateValidation"
    /\ LET c == task[t].c IN
        row' = IF row[c].state \in {"DRAFT", "INVALID"}
               THEN [row EXCEPT ![c] = [state |-> "READY", version |-> row[c].version + 1,
                                        digest |-> task[t].digest]]
               ELSE row
    /\ Return(t)
    /\ UNCHANGED <<items, runs, blocks, incident, agentVars, requests, lost, restartVars,
                   historyVars>>

-----
(* save                                                                    *)

SaveRequest(t, c, d) ==
    /\ row[c] # NoValue /\ row[c].state = "READY"
    /\ Begin(t, c, [IdleTask EXCEPT !.pc = "agentSave", !.c = c, !.digest = d])

AgentSave(t) ==
    /\ task[t].pc = "agentSave"
    /\ LET c == task[t].c IN
        \/ /\ Serving
           /\ draft[c] = task[t].digest
           /\ staged' = [staged EXCEPT ![c] = draft[c]]
           /\ draft' = [draft EXCEPT ![c] = NoValue]
           /\ Record(c, "SAVED")
           /\ \/ Step(t, "markSaved") /\ UNCHANGED lost
              \/ AgentCallFails /\ Return(t)
        \/ /\ \/ Serving /\ draft[c] # task[t].digest /\ UNCHANGED lost
              \/ AgentCallFails
           /\ Return(t)
           /\ UNCHANGED <<staged, draft, events>>
    /\ UNCHANGED <<dbVars, run, journal, applied, started, recovering, dropped, agentBlocks,
                   requests, restartVars, historyVars>>

MarkSaved(t) ==
    /\ task[t].pc = "markSaved"
    /\ LET c == task[t].c IN
        row' = IF row[c].state = "READY" /\ row[c].digest = task[t].digest
               THEN [row EXCEPT ![c].state = "SAVED", ![c].version = @ + 1]
               ELSE row
    /\ Return(t)
    /\ UNCHANGED <<items, runs, blocks, incident, agentVars, requests, lost, restartVars,
                   historyVars>>

-----
(* apply                                                                   *)

\* The request names the digest of the saved change; a repeated request has the
\* idempotency key of the first one.
ApplyRequest(t, c, k) ==
    /\ row[c] # NoValue /\ row[c].state = "SAVED"
    /\ Begin(t, c, [IdleTask EXCEPT !.pc = "applyTransition", !.c = c, !.key = k,
                                    !.digest = row[c].digest, !.rec = row[c]])

\* A task moves the row under the given key and goes on with what it got back.
TransitionStep(t, key, to, done, refused) ==
    LET c == task[t].c  expected == task[t].rec.version IN
    /\ \/ /\ Transition(c, key, to, expected)
          /\ Set(t, [task[t] EXCEPT !.pc = done, !.rec = Result(c, key, to)])
       \/ /\ Refused(c, key, to, expected)
          /\ Set(t, IF refused = "idle" THEN IdleTask ELSE [task[t] EXCEPT !.pc = refused])
          /\ UNCHANGED <<row, runs>>
    /\ UNCHANGED <<items, blocks, incident, agentVars, requests, lost, restartVars,
                   historyVars>>

ApplyTransition(t) ==
    /\ task[t].pc = "applyTransition"
    /\ TransitionStep(t, <<"apply", task[t].key>>, "APPLYING", "agentApply", "idle")

\* agent.applyChange.  A run the process knows is not started again.  When the
\* answer is lost the run goes on and the service takes it for refused.
AgentApply(t) ==
    /\ task[t].pc = "agentApply"
    /\ LET c == task[t].c
           accepted == staged[c] = task[t].digest /\ AppOf[c] \notin agentBlocks
       IN
        \/ /\ Serving /\ accepted
           /\ Record(c, "APPLYING")
           /\ started' = started \cup {c}
           /\ run' = [run EXCEPT ![c] = IF c \in started THEN @ ELSE "starting"]
           /\ applied' = [applied EXCEPT ![c] = IF c \in started THEN @ ELSE staged[c]]
           /\ starts' = [starts EXCEPT ![c] = IF c \in started THEN @ ELSE @ + 1]
           /\ \/ /\ Set(t, [task[t] EXCEPT !.pc = "agentStatus", !.monitor = TRUE])
                 /\ UNCHANGED lost
              \/ /\ AgentCallFails
                 /\ Step(t, "dispatchRollingBack")
        \/ /\ \/ Serving /\ ~accepted /\ UNCHANGED lost
              \/ AgentCallFails
           /\ Step(t, "dispatchRollingBack")
           /\ UNCHANGED <<events, started, run, applied, starts>>
    /\ UNCHANGED <<dbVars, draft, staged, journal, recovering, dropped, agentBlocks, requests,
                   restartVars, blockedFor>>

-----
(* status, and the monitor of an apply                                     *)

\* The agent has an entry for the change.
Known(c) == events[c] # <<>> \/ journal[c] # "none"

\* The state `status` reports: that of the last event; after a restart of the
\* agent that of the journal.
ReportedState(c) == IF events[c] # <<>> THEN events[c][Len(events[c])] ELSE journal[c]

\* The events `status` returns; event ids are never used twice.
EventsAfter(c, n) ==
    [i \in 1..(Len(events[c]) - n) |->
        [id |-> dropped[c] + n + i, state |-> events[c][n + i]]]

StatusRequest(t, c) ==
    Begin(t, c, [IdleTask EXCEPT !.pc = "agentStatus", !.c = c])

\* The call or the reconciliation threw: a request answers from the database, a
\* monitor polls again until its polls are used up.
AfterPoll(t) ==
    IF ~task[t].monitor THEN IdleTask
    ELSE [task[t] EXCEPT !.polls = @ + 1, !.todo = <<>>, !.result = "none",
                         !.pc = IF task[t].polls + 1 < MaxPolls
                                THEN "agentStatus" ELSE "readAfterPolls"]

\* agent.getChangeStatus: a monitor asks for all events, a request for those
\* after the one the client saw last.
AgentStatus(t) ==
    /\ task[t].pc = "agentStatus"
    /\ LET c == task[t].c IN
        \/ /\ Serving /\ Known(c)
           /\ \E n \in 0..Len(events[c]) :
                /\ task[t].monitor => n = 0
                /\ Set(t, [task[t] EXCEPT !.pc = "readForReconcile",
                                          !.todo = EventsAfter(c, n),
                                          !.result = ReportedState(c)])
           /\ UNCHANGED lost
        \/ /\ Serving /\ ~Known(c)
           /\ Set(t, AfterPoll(t))
           /\ UNCHANGED lost
        \/ /\ AgentCallFails
           /\ Set(t, AfterPoll(t))
    /\ UNCHANGED <<dbVars, agentVars, requests, restartVars, historyVars>>

ReadForReconcile(t) ==
    /\ task[t].pc = "readForReconcile"
    /\ Set(t, [task[t] EXCEPT !.pc = "reconcile", !.rec = row[task[t].c]])
    /\ UNCHANGED <<dbVars, agentVars, requests, lost, restartVars, historyVars>>

\* Mutant of Reconcile: a final state is returned before the application is
\* blocked.
ReconcileReturnsFirst(t) ==
    /\ task[t].pc = "reconcile"
    /\ LET todo == task[t].todo  rec == task[t].rec IN
        \/ /\ todo # <<>>
           /\ LET c == task[t].c  key == <<"event", Head(todo).id>>  to == Head(todo).state IN
                \/ /\ to = rec.state
                   /\ Set(t, [task[t] EXCEPT !.todo = Tail(@)])
                   /\ UNCHANGED <<row, runs>>
                \/ /\ to # rec.state
                   /\ Transition(c, key, to, rec.version)
                   /\ Set(t, [task[t] EXCEPT !.todo = Tail(@), !.rec = Result(c, key, to)])
                \/ /\ to # rec.state
                   /\ Refused(c, key, to, rec.version)
                   /\ Step(t, "refresh")
                   /\ UNCHANGED <<row, runs>>
        \/ /\ todo = <<>>
           /\ Set(t, IF task[t].result \in TerminalChangeStates THEN IdleTask
                     ELSE AfterPoll(t))
           /\ UNCHANGED <<row, runs>>
    /\ UNCHANGED <<items, blocks, incident, agentVars, requests, lost, restartVars,
                   historyVars>>

\* reconcileAgentStatus: the row follows the events, one transaction each.
Reconcile(t) ==
    /\ task[t].pc = "reconcile"
    /\ LET todo == task[t].todo  rec == task[t].rec IN
        \/ /\ todo # <<>> /\ Head(todo).state = rec.state
           /\ Set(t, [task[t] EXCEPT !.todo = Tail(@)])
           /\ UNCHANGED <<row, runs>>
        \/ /\ todo # <<>> /\ Head(todo).state # rec.state
           /\ LET c == task[t].c  key == <<"event", Head(todo).id>>  to == Head(todo).state IN
                \/ /\ Transition(c, key, to, rec.version)
                   /\ Set(t, [task[t] EXCEPT !.todo = Tail(@), !.rec = Result(c, key, to)])
                \/ /\ Refused(c, key, to, rec.version)
                   /\ Step(t, "refresh")
                   /\ UNCHANGED <<row, runs>>
        \/ /\ todo = <<>>
           /\ Set(t, IF task[t].result = "ROLLBACK_FAILED" THEN [task[t] EXCEPT !.pc = "block"]
                     ELSE IF task[t].result \in TerminalChangeStates THEN IdleTask
                     ELSE AfterPoll(t))
           /\ UNCHANGED <<row, runs>>
    /\ UNCHANGED <<items, blocks, incident, agentVars, requests, lost, restartVars,
                   historyVars>>

\* The refused event may have been recorded by somebody else meanwhile.
Refresh(t) ==
    /\ task[t].pc = "refresh"
    /\ LET now == row[task[t].c] IN
        Set(t, IF now.state = Head(task[t].todo).state
               THEN [task[t] EXCEPT !.pc = "reconcile", !.rec = now, !.todo = Tail(@)]
               ELSE AfterPoll(t))
    /\ UNCHANGED <<dbVars, agentVars, requests, lost, restartVars, historyVars>>

ReadAfterPolls(t) ==
    /\ task[t].pc = "readAfterPolls"
    /\ LET now == row[task[t].c] IN
        Set(t, IF now.state = "APPLYING"
               THEN [task[t] EXCEPT !.pc = "dispatchRollingBack", !.rec = now]
               ELSE IdleTask)
    /\ UNCHANGED <<dbVars, agentVars, requests, lost, restartVars, historyVars>>

-----
(* persistDispatchFailure, the block and its incident                      *)

DispatchRollingBack(t) ==
    /\ task[t].pc = "dispatchRollingBack"
    /\ TransitionStep(t, <<"dispatch", "rollback">>, "ROLLING_BACK", "dispatchFailed",
                      "dispatchRefresh")

\* Mutant of DispatchFailed: a failed dispatch is recorded as rolled back.
DispatchFailedAsRolledBack(t) ==
    /\ task[t].pc = "dispatchFailed"
    /\ TransitionStep(t, <<"dispatch", "failed">>, "ROLLED_BACK", "block",
                      "dispatchRefresh")

DispatchFailed(t) ==
    /\ task[t].pc = "dispatchFailed"
    /\ TransitionStep(t, <<"dispatch", "failed">>, "ROLLBACK_FAILED", "block",
                      "dispatchRefresh")

\* The row as it is now decides how the failure handling goes on.
DispatchRead(t) ==
    /\ task[t].pc \in {"dispatchRefresh", "dispatchReread"}
    /\ LET now == row[task[t].c] IN
        Set(t, IF now.state = "ROLLBACK_FAILED"
               THEN [task[t] EXCEPT !.pc = "block", !.rec = now]
               ELSE IF now.state = "ROLLING_BACK" /\ task[t].pc = "dispatchRefresh"
               THEN [task[t] EXCEPT !.pc = "dispatchRetry", !.rec = now]
               ELSE IdleTask)
    /\ UNCHANGED <<dbVars, agentVars, requests, lost, restartVars, historyVars>>

DispatchRetry(t) ==
    /\ task[t].pc = "dispatchRetry"
    /\ TransitionStep(t, <<"dispatch", "retry">>, "ROLLBACK_FAILED", "block",
                      "dispatchReread")

\* blockApplication: an insert that does nothing when the application is blocked
\* already; only a new row creates an incident.
Block(t) ==
    /\ task[t].pc = "block"
    /\ LET c == task[t].c IN
        /\ blockedFor' = blockedFor \cup {c}
        /\ \/ /\ blocks[AppOf[c]] = NoValue
              /\ blocks' = [blocks EXCEPT ![AppOf[c]] = c]
              /\ Step(t, "createIncident")
           \/ /\ blocks[AppOf[c]] # NoValue
              /\ Return(t)
              /\ UNCHANGED blocks
    /\ UNCHANGED <<row, items, runs, incident, agentVars, requests, lost, restartVars, starts>>

CreateIncident(t) ==
    /\ task[t].pc = "createIncident"
    /\ incident' = [incident EXCEPT ![task[t].c] = "open"]
    /\ Return(t)
    /\ UNCHANGED <<row, items, runs, blocks, agentVars, requests, lost, restartVars,
                   historyVars>>

\* An operator resolves an incident.
ResolveIncident(c) ==
    /\ incident[c] = "open"
    /\ incident' = [incident EXCEPT ![c] = "resolved"]
    /\ UNCHANGED <<row, items, runs, blocks, agentVars, task, requests, lost, restartVars,
                   historyVars>>

\* clearApplyBlock by an owner, who names some resolved incident.  The block of
\* the database goes first, then that of the agent.
ClearApplyBlock(t, a, i) ==
    /\ task[t].pc = "idle"
    /\ requests < MaxRequests
    /\ requests' = requests + 1
    /\ blocks[a] # NoValue /\ incident[i] = "resolved"
    /\ blocks' = [blocks EXCEPT ![a] = NoValue]
    /\ Set(t, [IdleTask EXCEPT !.pc = "agentClear", !.c = blocks[a]])
    /\ UNCHANGED <<row, items, runs, incident, agentVars, lost, restartVars, historyVars>>

AgentClear(t) ==
    /\ task[t].pc = "agentClear"
    /\ \/ /\ Serving
          /\ agentBlocks' = agentBlocks \ {AppOf[task[t].c]}
          /\ UNCHANGED lost
       \/ /\ AgentCallFails
          /\ UNCHANGED agentBlocks
    /\ Return(t)
    /\ UNCHANGED <<dbVars, draft, staged, run, journal, applied, started, recovering, events,
                   dropped, requests, restartVars, historyVars>>

-----
(* cancel                                                                  *)

CancelRequest(t, c) ==
    /\ row[c] # NoValue /\ row[c].state \in {"DRAFT", "READY", "SAVED"}
    /\ Begin(t, c, [IdleTask EXCEPT !.pc = "agentCancel", !.c = c])

AgentCancel(t) ==
    /\ task[t].pc = "agentCancel"
    /\ LET c == task[t].c IN
        \/ /\ Serving /\ (draft[c] # NoValue \/ staged[c] # NoValue)
           /\ draft' = [draft EXCEPT ![c] = NoValue]
           /\ staged' = [staged EXCEPT ![c] = NoValue]
           /\ Record(c, "CANCELLED")
           /\ \/ Step(t, "readCancel") /\ UNCHANGED lost
              \/ AgentCallFails /\ Return(t)
        \/ /\ \/ Serving /\ draft[c] = NoValue /\ staged[c] = NoValue /\ UNCHANGED lost
              \/ AgentCallFails
           /\ Return(t)
           /\ UNCHANGED <<draft, staged, events>>
    /\ UNCHANGED <<dbVars, run, journal, applied, started, recovering, dropped, agentBlocks,
                   requests, restartVars, historyVars>>

\* Mutant of ReadCancel: the state is not looked at again.
ReadCancelOfAnyState(t) ==
    /\ task[t].pc = "readCancel"
    /\ Set(t, [task[t] EXCEPT !.pc = "updateCancel", !.rec = row[task[t].c]])
    /\ UNCHANGED <<dbVars, agentVars, requests, lost, restartVars, historyVars>>

ReadCancel(t) ==
    /\ task[t].pc = "readCancel"
    /\ LET now == row[task[t].c] IN
        Set(t, IF now.state \in {"DRAFT", "READY", "SAVED"}
               THEN [task[t] EXCEPT !.pc = "updateCancel", !.rec = now]
               ELSE IdleTask)
    /\ UNCHANGED <<dbVars, agentVars, requests, lost, restartVars, historyVars>>

UpdateCancel(t) ==
    /\ task[t].pc = "updateCancel"
    /\ LET c == task[t].c IN
        row' = IF row[c].state = task[t].rec.state /\ row[c].version = task[t].rec.version
               THEN [row EXCEPT ![c].state = "CANCELLED", ![c].version = @ + 1]
               ELSE row
    /\ Return(t)
    /\ UNCHANGED <<items, runs, blocks, incident, agentVars, requests, lost, restartVars,
                   historyVars>>

-----
(* The agent, and restarts.                                                *)

\* A run records its next state, or is rejected before its first one.
AgentProgress(c) ==
    /\ \/ /\ run[c] = "starting"
          /\ run' = [run EXCEPT ![c] = "APPLYING"]
          /\ journal' = [journal EXCEPT ![c] = "APPLYING"]
          /\ Record(c, "APPLYING")
          /\ UNCHANGED <<agentBlocks, started>>
       \/ /\ run[c] = "starting"
          /\ run' = [run EXCEPT ![c] = "rejected"]
          /\ started' = started \ {c}
          /\ UNCHANGED <<journal, events, agentBlocks>>
       \/ \E to \in ApplyStates :
            /\ CanTransition(run[c], to)
            /\ run' = [run EXCEPT ![c] = to]
            /\ journal' = [journal EXCEPT ![c] = to]
            /\ Record(c, to)
            /\ agentBlocks' = IF to = "ROLLBACK_FAILED"
                              THEN agentBlocks \cup {AppOf[c]} ELSE agentBlocks
            /\ UNCHANGED started
    /\ UNCHANGED <<dbVars, draft, staged, applied, recovering, dropped, task,
                   requests, lost, restartVars, historyVars>>

\* The agent restarts: its events are gone, the blocks are those of the journal,
\* and unfinished runs are resumed: those without writes from the start, the
\* others with the rollback.
AgentRestart ==
    /\ agentRestarts < MaxAgentRestarts
    /\ agentRestarts + apiRestarts < MaxRestarts
    /\ agentRestarts' = agentRestarts + 1
    /\ LET resumed == {c \in Changes : journal[c] \in InProgress}
           first(c) == IF journal[c] \in {"APPLYING", "SNAPSHOTTED"} THEN "APPLYING"
                       ELSE "ROLLING_BACK"
       IN
        /\ recovering' = resumed
        /\ started' = resumed
        /\ journal' = [c \in Changes |-> IF c \in resumed THEN first(c) ELSE journal[c]]
        /\ run' = journal'
        /\ dropped' = [c \in Changes |-> dropped[c] + Len(events[c])]
        /\ events' = [c \in Changes |-> IF c \in resumed THEN <<first(c)>> ELSE <<>>]
    /\ agentBlocks' = {AppOf[c] : c \in {d \in Changes : journal[d] = "ROLLBACK_FAILED"}}
    /\ UNCHANGED <<dbVars, draft, staged, applied, task, requests, lost, apiRestarts,
                   historyVars>>

\* The API restarts: its requests and monitors are gone.
ApiRestart ==
    /\ apiRestarts < MaxApiRestarts
    /\ agentRestarts + apiRestarts < MaxRestarts
    /\ apiRestarts' = apiRestarts + 1
    /\ task' = [t \in Tasks |-> IdleTask]
    /\ UNCHANGED <<dbVars, agentVars, requests, lost, agentRestarts, historyVars>>

-----
TaskStep(t) ==
    \/ AgentValidate(t) \/ ReadValidation(t) \/ ReplaceItems(t) \/ UpdateValidation(t)
    \/ AgentSave(t) \/ MarkSaved(t)
    \/ ApplyTransition(t) \/ AgentApply(t)
    \/ AgentStatus(t) \/ ReadForReconcile(t) \/ Reconcile(t) \/ Refresh(t)
    \/ ReadAfterPolls(t)
    \/ DispatchRollingBack(t) \/ DispatchFailed(t) \/ DispatchRead(t) \/ DispatchRetry(t)
    \/ Block(t) \/ CreateIncident(t)
    \/ AgentClear(t)
    \/ AgentCancel(t) \/ ReadCancel(t) \/ UpdateCancel(t)

Request(t) ==
    \/ \E c \in Changes : StatusRequest(t, c) \/ CancelRequest(t, c)
    \/ \E c \in Changes, d \in Digests : ValidateRequest(t, c, d) \/ SaveRequest(t, c, d)
    \/ \E c \in Changes, k \in Keys : ApplyRequest(t, c, k)
    \/ \E a \in Apps, i \in Changes : ClearApplyBlock(t, a, i)

Next ==
    \/ \E c \in Changes : CreateDraft(c) \/ ResolveIncident(c) \/ AgentProgress(c)
    \/ \E t \in Tasks : Request(t) \/ TaskStep(t)
    \/ AgentRestart
    \/ ApiRestart

Spec == Init /\ [][Next]_vars

\* The same system, observed from the moment its changes are saved.
ApplySpec == SavedInit /\ [][Next]_vars

\* Tasks go on: queries and calls return or throw.  Runs of the agent end.
FairApplySpec ==
    /\ ApplySpec
    /\ \A t \in Tasks : WF_vars(TaskStep(t))
    /\ \A c \in Changes : WF_vars(AgentProgress(c))

-----
(* Properties.                                                             *)

\* A cancelled change is never applied, however the cancel request and an apply
\* request of two clients interleave.
CancelledNeverApplied ==
    \A c \in Changes : row[c] # NoValue /\ row[c].state = "CANCELLED" => run[c] = "none"

\* A run of the agent works with the digest the database has saved, also when
\* several validations and saves of the change overlap.
AppliedIsSaved ==
    \A c \in Changes : applied[c] # NoValue => row[c] # NoValue /\ applied[c] = row[c].digest

\* The database reports success or a clean rollback only of a run that ended so,
\* as long as the agent, restarted, did not begin a second run of the change.
RowFollowsAgent ==
    \A c \in Changes :
        /\ row[c] # NoValue /\ row[c].state \in {"COMPLETED", "ROLLED_BACK"}
        /\ starts[c] <= 1
        => run[c] = row[c].state

\* The audit trail of an apply has no gap and no second story: every state of the
\* row from APPLYING on has its record, each record starts where the one before it
\* ended, and no version is used twice.
AuditTrail ==
    \A c \in Changes :
        /\ row[c] # NoValue /\ row[c].state \in ApplyStates =>
             \E r \in runs[c] : r.to = row[c].state /\ r.version = row[c].version
        /\ \A r, q \in runs[c] :
             /\ r.version = q.version => r = q
             /\ q.version = r.version + 1 => q.from = r.to

\* A change that is recorded as ROLLBACK_FAILED gets its application blocked, as
\* long as neither the API nor the agent restarts meanwhile.
FailureIsBlocked ==
    \A c \in Changes :
        row[c] # NoValue /\ row[c].state = "ROLLBACK_FAILED"
            ~> c \in blockedFor \/ agentRestarts + apiRestarts > 0
======
