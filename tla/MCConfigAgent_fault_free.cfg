CONSTANTS
    c1 = c1  c2 = c2  app1 = app1  s1 = s1  s2 = s2
    Orig = Orig  Edited = Edited  NoValue = NoValue
    Changes = {c1, c2}
    Apps = {app1}
    Sources = {s1}
    AppOf <- PairAppOf
    SourcesOf <- PairSourcesOf
    ActionOf <- PairActions
    MaxFaults = 0
    MaxJournalFaults = 0
    MaxEdits = 0
    MinSequence = 1
    MaxCrashes = 0
SPECIFICATION AgentSpec
CHECK_DEADLOCK FALSE
INVARIANTS FaultFreeNeverFails
