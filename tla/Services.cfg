SPECIFICATION ServicesSpec
CONSTANTS
    None = None
    LeaseTTL = 2
    Grace = 1
    MaxFaults = 2
    OperatorOutcomes = {"cancelled"}
    Timely = TRUE
    RunReport = {r1, r2, r3}
    Flush = {f1, f2}
    MaxEntries = 2
    ReportFaults = 4
    Job = {j1, j2, j3}
    StaleAfter = 3
    ScriptTimeout = 2
    HealthTimeout = 1
    HistoryLimit = 2
    MaxAttempts = 2
    DeployFaults = 3
    Runs = 2
    MaxReports = 2
    RegistryLimit = 1
    ProgressFaults = 2
INVARIANTS
    ServicesInvariant CompletedIsPublished HealthyNotReaped
PROPERTIES
    SeedEnds ServicesSettle
CHECK_DEADLOCK FALSE
