\* The switch back to sync.
SPECIFICATION Spec
CONSTANTS
    File = {"f1", "f2"}
    Reconciler = {"r1"}
    MaxEdits = 2
    MaxChanges = 2
    MaxFaults = 1
PROPERTIES SwitchStopsMount
