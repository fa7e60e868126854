SPECIFICATION Spec
CONSTANTS
    Orders = {o1, o2}
    Syncs = {s1}
    Retries = {r1}
    Faults = {"ambiguous", "retention", "torn"}
    MaxVal = 1
    MaxTime = 3
    MaxRows = 2
    MaxCrashes = 0
    MaxEdits = 0
    Overlap = 1
    Recent = 1
    BatchSize = 1
    NoOrder = NoOrder
CHECK_DEADLOCK FALSE
SYMMETRY Symmetry
INVARIANTS NothingSkipped
