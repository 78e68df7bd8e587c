\* A folder loses its last ignore rule, or is given its first one.
SPECIFICATION Spec
CONSTANTS
    None = None
    NoFilter = NoFilter
    Filter = {f1, NoFilter}
    Strategies = {"manual"}
    MaxEdits = 2
    MaxFaults = 0
    MaxRetries = 0
INVARIANTS FreshListings
CHECK_DEADLOCK FALSE
