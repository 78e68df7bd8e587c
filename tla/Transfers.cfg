\* Two hosts with one destination, one of which switches its mode; the files of a
\* seed; a folder's bisync runs.  One at a time.
SPECIFICATION TransfersSpec
CONSTANTS
    Host = {"h1", "h2"}
    Assignment <- SharedAssignment
    HostOf <- SharedHostOf
    Key = {"k1"}
    AssignedKey <- SharedKey
    LockId = {i1, i2}
    None = None
    LockTTL = 2
    MaxAttempts = 2
    MaxEdits = 0
    Switchable <- SwitchedByFirst
    Paths = 2
    SourceEdits = 2
    MaxOwn = 1
    MaxFaults = 1
    Absent = Absent
    Link = Link
    Own = Own
    Gone = Gone
    Filter = {f1, f2, NoFilter}
    NoFilter = NoFilter
    Strategies = {"newer_wins"}
    FileEdits = 2
    RunFaults = 1
    MaxRetries = 1
INVARIANTS
    CrossHostExclusion
    SeedIsSnapshot
    AcknowledgedIsListed
    RulesKept
PROPERTIES
    LockKept
    PublishSparesFiles
    SeedKeepsLocal
CHECK_DEADLOCK FALSE
