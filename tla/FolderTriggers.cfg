SPECIFICATION FairSpec
CONSTANTS
    Configs <- SomeConfigs
    Refresher = {"t1"}
    Beat = "beat"
    None = None
    MaxDelay = 1
    MaxDue = 2
    MaxRevisions = 2
    MaxChanges = 2
    MaxQueue = 2
    MaxFaults = 1
INVARIANTS Inv
PROPERTIES TriggersFollowConfig NeverEarly ConfigCaughtUp PromiseKept
