CONSTANTS
    Senders = {"a"}
    SentEvents = {1, 2, 3, 4}
    Oversized = {1}
    SpoolSize = 2
    SpoolAge = 0
    MaxDay = 1
    MaxSendFaults = 2
    MaxKills = 1
    AlertIssues = {"i1"}
    Schedulers = {"n1"}
    MinimumSeverity <- TheRules
    Severities = {1, 4}
    AlertLimit = 3
    DigestDelay = 1
    ReminderAfter = 1
    EscalationAfter = 2
    MaxMinute = 2
    MaxChanges = 1
    MaxDeaths = 1
    MaxEvents = 2
    MaxStepFaults = 2
    p1 = p1  p2 = p2  f1 = f1  u1 = u1
    NoValue = NoValue
    Keys = {"k1", "k2"}
    Payloads = {p1, p2}
    Fingerprints = {f1}
    Users = {u1}
    Workers = {"w1", "w2"}
    Fingerprint <- TheFingerprint
    UserRef <- TheUserRef
    MaxAttempts = 2
    QueueMaxAttempts = 2
    MaxFaults = 2
    MaxOvertakes = 1
    MaxTransitions = 1
    ActionKeys = {"k1", "k2"}
    Immediate = {"k2"}
    ActionCallers = {"c1", "c2"}
    OutputLimit = 1
    HealthChecks <- TheChecks
    Appends = {"e1", "e2", "e3"}
    Root = "root"
    Nobody = "nobody"
SPECIFICATION ServicesSpec
\* A process may end, and an empty queue is at rest.
CHECK_DEADLOCK FALSE
INVARIANTS
    ServerSpoolIsSafe ProcessesAreSound EnvelopesAreAccounted IssueAgreesWithLog ChainIsWhole
PROPERTIES
    ServicesProgress
