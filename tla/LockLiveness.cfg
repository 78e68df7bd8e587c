\* Lost heartbeats allowed: orphaned rows, split brain; edited destinations.
SPECIFICATION LivenessSpec
CONSTANTS
    Host = {"h1", "h2"}
    Assignment <- SharedAssignment
    HostOf <- SharedHostOf
    Key = {"k1"}
    AssignedKey <- SharedKey
    LockId = {i1, i2}
    None = None
    LockTTL = 1
    MaxAttempts = 1
    MaxEdits = 0
    Switchable = {}
    EditHost = {"h1"}
    EditKey = {"k1", "k2"}
    EditId = {i1, i2}
    EditTTL = 1
    EditAttempts = 1
    Retargets = 1
    EditSwitched = {}
PROPERTIES
    OrphanFreed
    MisdirectedEnds
