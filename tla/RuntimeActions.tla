------ MODULE RuntimeActions ------
(* The runtime actions and the health checks of an apply run:
   apps/config-agent/src/changes actionRunner.ts and healthCheckRunner.ts.
   An action is a fixed command in a process group of its own.  It ends
   when its output is closed by everyone who holds it, a helper it started
   included; a timer and a limit on the output kill the group.  Calls for
   the same run and action share one operation.  A health run asks its
   checks one after the other and gives each a timer. *)
EXTENDS Integers, Sequences

CONSTANTS
    ActionKeys,       \* a run and an action
    Immediate,        \* those without a command: no_runtime_action and next_job
    ActionCallers,    \* calls of run
    OutputLimit,      \* chunks of output an action may write
    HealthChecks      \* the checks of a health run: sequence of their numbers of probes

ASSUME RuntimeActionsAssumption ==
    /\ Immediate \subseteq ActionKeys
    /\ OutputLimit \in Nat
    /\ HealthChecks \in Seq({1, 2})

VARIABLES
    replay,       \* key -> the shared operation: "none", "pending" or its outcome
    caller,       \* call -> [key, pc]
    child,        \* key -> the command
    spawned,      \* history: how often the command was started
    health        \* [at, phase, pending, results]

actionVars == <<replay, caller, child, spawned>>
runtimeVars == <<actionVars, health>>

NoChild == [leader |-> "none", helper |-> "none", output |-> 0, timedOut |-> FALSE, limited |-> FALSE]

RuntimeInit ==
    /\ replay = [k \in ActionKeys |-> "none"]
    /\ caller = [c \in ActionCallers |-> [key |-> "none", pc |-> "idle"]]
    /\ child = [k \in ActionKeys |-> NoChild]
    /\ spawned = [k \in ActionKeys |-> 0]
    /\ health = [at |-> 1, phase |-> 1, pending |-> {}, results |-> <<>>]

\* run and executeFixedProcess: a command that cannot be started is a failure.
RunAction(c, k) ==
    /\ caller[c].pc = "idle" /\ caller' = [caller EXCEPT ![c] = [key |-> k, pc |-> "waiting"]]
    /\ \/ replay[k] # "none" /\ UNCHANGED <<replay, child, spawned>>
       \/ replay[k] = "none" /\ k \in Immediate
          /\ replay' = [replay EXCEPT ![k] = "completed"] /\ UNCHANGED <<child, spawned>>
       \/ replay[k] = "none" /\ k \notin Immediate
          /\ spawned' = [spawned EXCEPT ![k] = @ + 1]
          /\ \/ replay' = [replay EXCEPT ![k] = "pending"]
                /\ child' = [child EXCEPT ![k].leader = "running"]
             \/ replay' = [replay EXCEPT ![k] = "failed"] /\ UNCHANGED child
    /\ UNCHANGED health

\* killProcessGroup: all of the group, whether its leader still lives or not.
Killed(process) ==
    [process EXCEPT !.leader = IF @ = "running" THEN "killed" ELSE @,
                    !.helper = IF @ \in {"group", "silent"} THEN "none" ELSE @]

Write(k) ==
    /\ child[k].leader = "running"
    /\ IF child[k].output = OutputLimit
       THEN child' = [child EXCEPT ![k] = Killed([@ EXCEPT !.limited = TRUE])]
       ELSE child' = [child EXCEPT ![k].output = @ + 1]
    /\ UNCHANGED <<replay, caller, spawned, health>>

\* Mutant of ActionTimer: only the leader is killed.
ActionTimerLeader(k) ==
    /\ replay[k] = "pending" /\ ~child[k].timedOut
    /\ child' = [child EXCEPT ![k].timedOut = TRUE, ![k].leader = IF @ = "running" THEN "killed" ELSE @]
    /\ UNCHANGED <<replay, caller, spawned, health>>

ActionTimer(k) ==
    /\ replay[k] = "pending" /\ ~child[k].timedOut
    /\ child' = [child EXCEPT ![k] = Killed([@ EXCEPT !.timedOut = TRUE])]
    /\ UNCHANGED <<replay, caller, spawned, health>>

\* Everyone who held the output is gone: the result of the leader is decided.
CloseAction(k) ==
    LET c == child[k]
    IN  /\ replay[k] = "pending" /\ c.leader # "running" /\ c.helper \notin {"group", "outside"}
        /\ replay' = [replay EXCEPT ![k] =
                         IF c.leader = "ok" /\ ~c.timedOut /\ ~c.limited THEN "completed" ELSE "failed"]
        /\ UNCHANGED <<caller, child, spawned, health>>

ActionAnswers(c) ==
    /\ caller[c].pc = "waiting" /\ replay[caller[c].key] \in {"completed", "failed"}
    /\ caller' = [caller EXCEPT ![c].pc = replay[caller[c].key]]
    /\ UNCHANGED <<replay, child, spawned, health>>

\* The command: it starts a helper in its group, which shares its output or is
\* silent, or, by setsid, outside of it, and ends with or without an error.
Fork(k) ==
    /\ child[k].leader = "running" /\ child[k].helper = "none"
    /\ \E where \in {"group", "silent", "outside"} : child' = [child EXCEPT ![k].helper = where]
    /\ UNCHANGED <<replay, caller, spawned, health>>

LeaderExits(k) ==
    /\ child[k].leader = "running"
    /\ \E code \in {"ok", "error"} : child' = [child EXCEPT ![k].leader = code]
    /\ UNCHANGED <<replay, caller, spawned, health>>

HelperExits(k) ==
    /\ child[k].helper # "none" /\ child' = [child EXCEPT ![k].helper = "none"]
    /\ UNCHANGED <<replay, caller, spawned, health>>

-----
\* The health run.  A check that reads a body asks twice, with a timer each.
Asked(at, phase) == <<at, phase>> \in health.pending
Decided(outcome) ==
    health' = [health EXCEPT !.at = @ + 1, !.phase = 1, !.results = Append(@, outcome)]

AskProbe ==
    /\ health.at <= Len(HealthChecks) /\ Len(health.results) = health.at - 1
    /\ <<health.at, health.phase>> \notin health.pending
    /\ health' = [health EXCEPT !.pending = @ \cup {<<health.at, health.phase>>}]
    /\ UNCHANGED actionVars

\* An answer after its timer settled nothing.
ProbeAnswers(probe, ok) ==
    LET left == [health EXCEPT !.pending = @ \ {probe}]
        current == probe = <<health.at, health.phase>> /\ health.at <= Len(HealthChecks)
    IN  /\ probe \in health.pending
        /\ health' = IF ~current THEN left
                     ELSE IF ok /\ health.phase < HealthChecks[health.at] THEN [left EXCEPT !.phase = @ + 1]
                     ELSE [left EXCEPT !.at = @ + 1, !.phase = 1,
                                       !.results = Append(@, IF ok THEN probe ELSE <<"failed">>)]
        /\ UNCHANGED actionVars

\* The probe goes on, its answer will be ignored.
ProbeTimer ==
    /\ health.at <= Len(HealthChecks) /\ Asked(health.at, health.phase)
    /\ Decided(<<"failed">>)
    /\ UNCHANGED actionVars

RuntimeNext ==
    \/ \E c \in ActionCallers : ActionAnswers(c) \/ \E k \in ActionKeys : RunAction(c, k)
    \/ \E k \in ActionKeys : Write(k) \/ ActionTimer(k) \/ CloseAction(k) \/ Fork(k) \/ LeaderExits(k) \/ HelperExits(k)
    \/ AskProbe \/ ProbeTimer
    \/ \E probe \in health.pending, ok \in BOOLEAN : ProbeAnswers(probe, ok)

RuntimeSpec == RuntimeInit /\ [][RuntimeNext]_runtimeVars

-----
\* Whoever asks for an action of a run, and how often, its command is started
\* once and all are told the same.
StartedOnce ==
    /\ \A k \in ActionKeys : spawned[k] <= 1
    /\ \A c, d \in ActionCallers :
          caller[c].key = caller[d].key /\ {caller[c].pc, caller[d].pc} \subseteq {"completed", "failed"} =>
              caller[c].pc = caller[d].pc

\* Success means that the command said so by itself; after a timeout or too
\* much output nothing of its group is left when the failure is reported.
ReportIsTrue ==
    \A c \in ActionCallers :
        LET process == child[caller[c].key]
        IN  /\ caller[c].pc = "completed" /\ caller[c].key \notin Immediate =>
                  process.leader = "ok" /\ ~process.timedOut /\ ~process.limited /\ process.output <= OutputLimit
            /\ caller[c].pc = "failed" /\ (process.timedOut \/ process.limited) =>
                  process.leader # "running" /\ process.helper \notin {"group", "silent"}

\* A check passes by its own probes only, never by the late answer of another.
HealthIsOwn ==
    \A n \in 1..Len(health.results) :
        health.results[n] = <<"failed">> \/ health.results[n] = <<n, HealthChecks[n]>>

RuntimeIsSound == StartedOnce /\ ReportIsTrue /\ HealthIsOwn

\* Again and again: every call has its answer, unless a process outside of the
\* group keeps the output open; and the health run ends, although a probe may
\* never answer.
ActionsSettled ==
    \A c \in ActionCallers : caller[c].pc = "waiting" => child[caller[c].key].helper = "outside"
HealthSettled == Len(health.results) = Len(HealthChecks)
======
