\* One camera row and two lanes, or two enrollments and two web sessions.
SPECIFICATION CompanionSpec
CONSTANTS
    Lane = {"periodic", "discovery"}
    Rows = 1
    PageSize = 2
    Granted = "FULL"
    Selected = {1}
    MaxRevision = 2
    MaxEvents = 2
    None = None
    Enr = {e1, e2}
    Session = {s1, s2}
    EnrollmentFaults = 1
INVARIANTS CompanionInvariant ProtectedIsUploaded PairingHolds
PROPERTIES VisibleProtected
CHECK_DEADLOCK FALSE
