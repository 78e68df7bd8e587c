\* Two actions for one host and two overlapping polls, or two jobs on two
\* directories of one folder.
SPECIFICATION JobsSpec
CONSTANTS
    h1 = h1
    x1 = x1
    x2 = x2
    None = None
    Host = {h1}
    Action = {x1, x2}
    HostOf <- OneQueue
    Update = {x1}
    PollLoop = {p1, p2}
    Limit = 2
    LeaseTTL = 2
    MaxFaults = 2
    Timely = FALSE
    Dir = {"x", "y"}
    Name = {"a", "b"}
    Full = "x"
    MaxJobs = 2
    BrowseFaults = 1
INVARIANTS JobsInvariant AuditedOnce RestartIsRecorded
PROPERTIES RerunsAreOwed MoveLosesNothing WorkSettles
CHECK_DEADLOCK FALSE
