SPECIFICATION PagesSpec
CHECK_DEADLOCK FALSE
CONSTANTS
    Walkers = {"w1"}
    RowIds = {1, 2}
    SortValues = {2, 3}
    SortDirections = {"asc", "desc"}
    Grain = 2
    PageLimit = 1
    MaxOffset = 1
    TokenLife = 1
    SchemaTtl = 1
    MaxPageClock = 0
    MaxPageEvents = 0
INVARIANTS
    NothingSkippedOrRepeated
