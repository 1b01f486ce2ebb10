CONSTANTS
    Minutes5 = 1
    Minutes10 = 2
    Services = {"api", "db"}
    Watched = {"app_liveness", "postgres", "beszel", "host_resources", "host_services", "cron", "errors", "backup"}
    ShortWatched = {"errors", "backup", "postgres", "host_services", "host_resources"}
    Recipients = {"r1"}
    HistoryLimit = 3
    Cooldown = 2
    LocalOnlyCooldown = 3
    MaxAttempts = 2
    MaxCycles = 5
    ShortCycles = 3
    MaxFaults = 1
    FaultFree = {"errors", "backup"}
    SampledMonitors = {"app"}
    RecordedRanks = {4}
    EventTicks = 1
    DayTicks = 2
    RawKeep = 1
    RollupKeep = 3
    EventKeep = 2
    RunInterval = 1
    BatchSize = 1
    MaxTicks = 5
    Openers = {"collector", "web"}
    SchemaVersion = 4
    MaxDeaths = 2
    Principals = {"p1", "p2"}
    Codes = {"c1", "c2"}
    Chats = {"chat1", "chat2"}
    Messages = {"m1", "m2"}
    CodeTtl = 1
    MaxZaloTime = 2
    Tokens = {"t1", "t2"}
    IdleTime = 2
    AbsoluteTime = 3
    LockoutTime = 2
    MaxFailed = 2
    MaxLogins = 3
    MaxRecoveries = 1
    MaxAuthTime = 4
SPECIFICATION MonitorSpec
CHECK_DEADLOCK FALSE
INVARIANTS
    CollectorIsSound StoreIsSound LinkIsProved
PROPERTIES
    NoFlapping ServedSessionIsCurrent MonitorProgress
