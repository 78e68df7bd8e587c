SPECIFICATION FairSpec
CONSTANTS
    Lane = {"periodic"}
    Rows = 2
    PageSize = 1
    Granted = "PARTIAL"
    Selected = {2}
    MaxRevision = 1
    MaxEvents = 1
PROPERTY FullAccessProtects
CHECK_DEADLOCK FALSE
