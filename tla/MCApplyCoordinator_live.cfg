CONSTANTS
    c1 = c1  c2 = c2  c3 = c3  app1 = app1  app2 = app2  s1 = s1  s2 = s2  s3 = s3
    Orig = Orig  Edited = Edited  NoValue = NoValue
    Changes = {c1, c2, c3}
    Apps = {app1, app2}
    Sources = {s1, s3}
    AppOf <- CrossAppOf
    SourcesOf <- CrossSourcesOf
    ActionOf <- CrossActions
    MaxFaults = 1
    MaxJournalFaults = 0
    MaxEdits = 0
SPECIFICATION FairSpec
CHECK_DEADLOCK FALSE
PROPERTIES EveryRunEnds
