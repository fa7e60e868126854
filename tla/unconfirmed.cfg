SPECIFICATION Spec
CONSTANTS
    Users = {u1}
    Jobs = {j1, j2}
    Workers = {w1}
    Requests = {r1}
    Retries = {}
    Imports = {}
    Scheduled = {}
    RetryLimit = 1
    DefaultAttempts = 3
    MaxCrashes = 0
    MayStall = FALSE
    NoUser = NoUser
    NoJob = NoJob
INVARIANTS WorkerRunsAreScheduled
