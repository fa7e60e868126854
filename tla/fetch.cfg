SPECIFICATION FairSpec
CONSTANTS
    imp = imp
    test = test
    o1 = o1
    o2 = o2
    o3 = o3
    o4 = o4
    NoCaller = NoCaller
    Callers = {imp, test}
    Importer = imp
    MaxAttempts = 2
    MinInterval = 1
    DefaultWait = 1
    Waits = {0, 5}
    WaitCap = 1
    Base <- MCBase
    Orders = {o1, o2, o3, o4}
    InitialLists <- MCLists
    Unusable = {o4}
    Shipped = {o1}
    PageSize = 2
    MaxPages = 2
    Limits = {0, 1}
    Budget = 1
    Shifts = 1
INVARIANTS HammeringIsBounded FetchComplete SuccessIsComplete
PROPERTIES RequestsAreSpaced ImportEnds
