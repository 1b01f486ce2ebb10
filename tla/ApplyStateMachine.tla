------ MODULE ApplyStateMachine ------
(* The state machine one configuration apply runs through
   (apps/config-agent/src/changes/applyStateMachine.ts).  The machine is
   created in APPLYING; a transition that is not in the table throws, and
   so does every transition out of a terminal state. *)

ApplyStates ==
    {"APPLYING", "SNAPSHOTTED", "WRITTEN", "ACTION_RUNNING", "HEALTH_CHECKING",
     "COMPLETED", "ROLLING_BACK", "ROLLED_BACK", "ROLLBACK_FAILED"}

TerminalApplyStates == {"COMPLETED", "ROLLED_BACK", "ROLLBACK_FAILED"}

\* The pairs <<current, next>> that machine.transition accepts.
ApplyTransitions ==
    {<<"APPLYING", "SNAPSHOTTED">>, <<"SNAPSHOTTED", "WRITTEN">>,
     <<"WRITTEN", "ACTION_RUNNING">>, <<"ACTION_RUNNING", "HEALTH_CHECKING">>,
     <<"HEALTH_CHECKING", "COMPLETED">>,
     <<"APPLYING", "ROLLING_BACK">>, <<"SNAPSHOTTED", "ROLLING_BACK">>,
     <<"WRITTEN", "ROLLING_BACK">>, <<"ACTION_RUNNING", "ROLLING_BACK">>,
     <<"HEALTH_CHECKING", "ROLLING_BACK">>,
     <<"ROLLING_BACK", "ROLLED_BACK">>, <<"ROLLING_BACK", "ROLLBACK_FAILED">>}

CanTransition(current, next) == <<current, next>> \in ApplyTransitions
======
