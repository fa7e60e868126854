SPECIFICATION Spec
CONSTANTS
    Orders = {o1, o2}
    Syncs = {s1}
    Retries = {}
    Faults = {"import"}
    MaxVal = 1
    MaxTime = 4
    MaxRows = 2
    MaxCrashes = 0
    MaxEdits = 0
    Overlap = 1
    Recent = 1
    BatchSize = 1
    NoOrder = NoOrder
CHECK_DEADLOCK FALSE
INVARIANTS NothingSkipped
