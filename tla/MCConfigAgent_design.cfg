CONSTANTS
    c1 = c1  c2 = c2  app1 = app1  s1 = s1  s2 = s2
    Orig = Orig  Edited = Edited  NoValue = NoValue
    Changes = {c1}
    Apps = {app1}
    Sources = {s1, s2}
    AppOf <- SingleAppOf
    SourcesOf <- SingleSourcesOf
    ActionOf <- SingleBuild
    MaxFaults = 1
    MaxJournalFaults = 1
    MaxEdits = 0
    MinSequence = 0
    MaxCrashes = 2
SPECIFICATION AgentFairSpec
CHECK_DEADLOCK FALSE
INVARIANTS RolledBackLeavesNothing WritesAreJournalled ReadyIsReconciled FailureBlocks
PROPERTIES TerminalIsFinal RecoveryEnds
