CHECK_DEADLOCK FALSE
CONSTANTS
    Tabs = {"t1", "t2"}
    PageEvents = {1, 2}
    MaxTabEvents = 1
    MaxTabMishaps = 2
    ErrorObjects = {"e1"}
    CaptureLevels = {0, 2}
    MaxCaptures = 4
    MaxReportFaults = 1
    ServerRequests = {"s1"}
    BrowserRequests = {"b1"}
    BatchOf <- TheBatches
    SessionOf <- TheSessions
    Window = 1
    RateLimit = 1
    MaxSecond = 2
    MaxCopies = 3
    MaxArrivals = 3
    MaxRequestFaults = 1
    AlertIssues = {"i1"}
    Schedulers = {"n1", "n2"}
    MinimumSeverity <- TheRules
    Severities = {1, 4}
    AlertLimit = 3
    DigestDelay = 1
    ReminderAfter = 0
    EscalationAfter = 1
    MaxMinute = 1
    MaxChanges = 1
    MaxDeaths = 1
    DbTargets = {"A", "B"}
    DbRelations = {"r1", "r2"}
    MaxUserSteps = 4
    MaxNetFaults = 1
    Users = {"o1", "o2", "u3"}
    InitialOwners = {"o1", "o2"}
    AccountRequests = {"r1", "r2"}
    Logins = {"l1", "l2"}
    Enrolments = {"e1", "e2"}
    Proofs = {"p1"}
    FailureLimit = 2
    MaxCallers = 3
    MaxLapses = 1
    PiiTargets = {"A"}
    Reveals = {"r1", "r2"}
    RowViews = {"v1"}
    MaxPiiFaults = 1
    MaxWithdrawals = 1
    SchemaRequests = {"v1", "v2", "v3"}
    Checksums = {"c1", "c2"}
    AuditWindow = 2
    MaxSchemaClock = 3
    MaxAuditFaults = 1
    Previews = {"p1", "p2"}
    Skew = 1
    NonceLifetime = 2
    NonceEntries = 1
    IdleWindow = 2
    AbsoluteWindow = 2
    PoolSize = 1
    MaxSqlSecond = 2
    MaxDeliveries = 2
    MaxSqlMishaps = 1
    Pools = 4
    Target = 3
    HealthInterval = 1
    MaxActiveProbes = 2
    MaxProbes = 4
    MaxTick = 4
    MaxCloseFaults = 2
SPECIFICATION ConsoleSpec
INVARIANTS
    ReportingIsSafe ExplorerIsSafe WorkerIsSafe AccountsAreSound
