SPECIFICATION Spec
CONSTANTS
    Users = {u1}
    Jobs = {j1, j2}
    Workers = {w1, w2}
    Requests = {r1}
    Retries = {}
    Imports = {}
    Scheduled = {u1}
    RetryLimit = 2
    DefaultAttempts = 2
    MaxCrashes = 1
    MayStall = FALSE
    NoUser = NoUser
    NoJob = NoJob
SYMMETRY Symmetry
INVARIANTS OneClaimedRun HolderKeepsLock RunVisible IInv
PROPERTIES ReopenedByItsRunner ImplementsWorkspace
