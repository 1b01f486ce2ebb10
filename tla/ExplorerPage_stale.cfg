CHECK_DEADLOCK FALSE
CONSTANTS
    DbTargets = {"A"}
    DbRelations = {"r1", "r2"}
    MaxUserSteps = 4
    MaxNetFaults = 0
SPECIFICATION ExplorerSpec
INVARIANTS
    NothingStaleIsShown
