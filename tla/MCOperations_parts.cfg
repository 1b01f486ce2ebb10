SPECIFICATION OperationsSpec
CHECK_DEADLOCK FALSE
CONSTANTS
    ArtifactIds = {"c1"}
    StoreTasks = {"r1", "r2"}
    Stored <- TheStored
    StagedTtl = 1
    SnapshotTtl = 1
    MaxStoreDay = 2
    MaxStoreCalls = 2
    MaxInterruptions = 1
    SourceReleases = {"r1", "r2"}
    MaxInodes = 4
    MaxTouches = 2
    MaxFileCalls = 1
    MaxFileFaults = 1
    Exchanges = {"x1", "x2"}
    ConnectTimeout = 1
    ReadTimeout = 1
    TotalTimeout = 2
    RequestTtl = 2
    ClockSkew = 1
    ReplayLimit = 1
    MaxProtocolTime = 2
    MaxFrameCopies = 1
    MaxProtocolMishaps = 1
    ManifestOrder <- TheOrder
    SourceRecord <- TheRecords
    CatalogEntry <- TheCatalog
    FirstContent <- TheContent
    NewValues = {"new", "bad"}
    ValidValues = {"new"}
    MaxItems = 2
    MaxEdits = 1
    MaxDraftFaults = 1
    Releases = {"r1", "r2"}
    FirstRelease = "r1"
    Backends <- TheBackends
    Writers <- TheWriters
    MaxReleaseMishaps = 3
    AgentVersions = {"r1", "r2"}
    Assets <- TheAssets
    MaxDeployFaults = 2
    MaxAgentDeaths = 1
    MaxDeploys = 3
    Walkers = {"w1"}
    RowIds = {1, 2, 3}
    SortValues = {2, 3}
    SortDirections = {"asc", "desc"}
    Grain = 1
    PageLimit = 1
    MaxOffset = 1
    TokenLife = 1
    SchemaTtl = 1
    MaxPageClock = 1
    MaxPageEvents = 2
    PageCalls = {1, 2}
    Names = {x}
    Values = {v1, v2}
    MaxDrafts = 2
    MaxUnlocks = 2
    MaxProofs = 2
    MaxClicks = 4
    MaxMishaps = 1
    Unedited = Unedited
INVARIANTS
    AgentFilesAreSafe
    ProtocolIsSafe
    VariableChangesAreSound
    ReleasesAreSafe
    AnswersAreExact
