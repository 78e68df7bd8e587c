\* One shared file on its way from a phone; the bisync runs of a folder.
SPECIFICATION DeliverySpec
CONSTANTS
    None = None
    Size = 1
    MaxAttempts = 1
    MaxFaults = 1
    NoFilter = NoFilter
    Filter = {f1, NoFilter}
    Strategies = {"manual"}
    FileEdits = 2
    RunFaults = 1
    MaxRetries = 1
INVARIANTS UploadInvariant DoneIsPublished
PROPERTIES UploadSettles BaselineReturns
CHECK_DEADLOCK FALSE
