\* One folder on one host, with and without systemd, or its health on one host.
SPECIFICATION FoldersSpec
CONSTANTS
    File = {"f1", "f2"}
    Reconciler = {"r1"}
    MaxEdits = 2
    MaxChanges = 2
    MaxFaults = 1
    Device = {"h1"}
    MaxAssignments = 2
    HealthChanges = 3
    MaxFlight = 2
    None = None
INVARIANTS FoldersInvariant
PROPERTIES LastCopyKept MountFollowsConfig HealthConverges
CHECK_DEADLOCK FALSE
