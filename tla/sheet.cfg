SPECIFICATION Spec
CONSTANTS
    Orders = {o1, o2}
    Syncs = {s1}
    Retries = {r1}
    Faults = {"import", "ambiguous", "crash", "history"}
    MaxVal = 2
    MaxTime = 1
    MaxRows = 3
    MaxCrashes = 1
    MaxEdits = 1
    Overlap = 1
    Recent = 1
    BatchSize = 1
    NoOrder = NoOrder
CHECK_DEADLOCK FALSE
SYMMETRY Symmetry
INVARIANTS SheetInv NoDuplicateRows SkippedRowsAreCurrent
PROPERTIES OthersRowsKept ClosedOnlyWhenWritten
