CONSTANTS
    c1 = c1  c2 = c2  app1 = app1  d1 = d1  d2 = d2  k1 = k1  t1 = t1  t2 = t2
    NoValue = NoValue
    Changes = {c1}
    Apps = {app1}
    AppOf <- SingleAppOf
    Digests = {d1, d2}
    Keys = {k1}
    Tasks = {t1, t2}
    MaxRequests = 4
    MaxPolls = 1
    MaxLost = 0
    MaxAgentRestarts = 1
    MaxApiRestarts = 1
    MaxRestarts = 1
SPECIFICATION Spec
CHECK_DEADLOCK FALSE
SYMMETRY Symmetry
INVARIANTS CancelledNeverApplied AppliedIsSaved RowFollowsAgent
