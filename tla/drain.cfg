SPECIFICATION FairSpec
CONSTANTS
    Users = {u1}
    Jobs = {j1, j2}
    Workers = {w1}
    Requests = {}
    Retries = {q1}
    Imports = {i1}
    Scheduled = {u1}
    RetryLimit = 2
    DefaultAttempts = 2
    MaxCrashes = 1
    MayStall = FALSE
    NoUser = NoUser
    NoJob = NoJob
PROPERTIES QueueDrains
