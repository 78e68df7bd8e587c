\* The config registry, the identity of hosts and the gate of a seed, one at a time.
SPECIFICATION FleetSpec
CONSTANTS
    Device = {"h1", "h2"}
    Watched = {"h1"}
    Folder = {"f"}
    Address = {"t1"}
    NoAddress = NoAddress
    Global = Global
    MaxWrites = 3
    MaxReports = 1
    MaxTime = 2
    Machine = {m1, m2}
    Name = {"a", "b"}
    Phone = {"p"}
    PhoneName = {"pixel", "a"}
    Code = {"c1"}
    Key = {k1, k2}
    Master = Master
    None = None
    Lifetime = 1
    CodeTime = 1
    PilotHost = {"a", "b"}
    Credential = {k1, k2}
    Bucket = {"u"}
    PilotWrites = 2
    MaxRotations = 1
    MaxProbes = 2
    MaxJobs = 2
    Nothing = Nothing
INVARIANTS
    ConfigSafety
    IdentityHolds
    SeedIsAuthorized
CHECK_DEADLOCK FALSE
